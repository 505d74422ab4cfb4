-------------------------- MODULE RequestDelivery --------------------------
(***************************************************************************)
(* What a caller of `sendRequest` may rely on, whatever the client does    *)
(* behind it to reach a gateway (IGatewayClient in                         *)
(* packages/client/src/interfaces.ts): an answer is the answer of a        *)
(* gateway that executed the request, an outcome is final, nothing is      *)
(* executed that was not submitted, and a request of a once-only method is *)
(* never executed twice.  A request that failed may still be executed      *)
(* later, and any other request may be executed more than once.            *)
(***************************************************************************)
EXTENDS Naturals

CONSTANTS
    Calls,      \* the calls of sendRequest that the application makes
    OnceOnly,   \* those of Calls whose method is never sent twice
    Reusable    \* those of Calls reused for one new request after another

VARIABLES
    outcome,    \* outcome[c]: where call c stands, as its caller sees it
    executed    \* executed[c]: executions of c by gateways; 2 means "many"

deliveryVars == <<outcome, executed>>

\* Counting up to "more than once".
OneMore(n) == IF n < 2 THEN n + 1 ELSE n

DeliveryTypeOK ==
    /\ outcome \in [Calls -> {"idle", "open", "answered", "failed"}]
    /\ executed \in [Calls -> 0..2]

DeliveryInit ==
    /\ outcome = [c \in Calls |-> "idle"]
    /\ executed = [c \in Calls |-> 0]

\* The caller calls sendRequest; the promise may already be rejected.
Open(c) ==
    /\ outcome[c] = "idle"
    /\ outcome' \in {[outcome EXCEPT ![c] = o] : o \in {"open", "failed"}}
    /\ UNCHANGED executed

\* A gateway executes the request, perhaps after the caller stopped waiting.
Perform(c) ==
    /\ outcome[c] # "idle"
    /\ c \in OnceOnly => executed[c] = 0
    /\ executed' = [executed EXCEPT ![c] = OneMore(@)]
    /\ UNCHANGED outcome

\* The promise resolves.
Resolve(c) ==
    /\ outcome[c] = "open"
    /\ executed[c] > 0
    /\ outcome' = [outcome EXCEPT ![c] = "answered"]
    /\ UNCHANGED executed

\* The promise is rejected.
Reject(c) ==
    /\ outcome[c] = "open"
    /\ outcome' = [outcome EXCEPT ![c] = "failed"]
    /\ UNCHANGED executed

\* The slot serves a new request; the old one is of no interest any more.
Reuse(c) ==
    /\ c \in Reusable
    /\ outcome[c] \in {"answered", "failed"}
    /\ outcome' = [outcome EXCEPT ![c] = "idle"]
    /\ executed' = [executed EXCEPT ![c] = 0]

DeliveryNext ==
    \E c \in Calls :
        Open(c) \/ Perform(c) \/ Resolve(c) \/ Reject(c) \/ Reuse(c)

DeliverySpec == DeliveryInit /\ [][DeliveryNext]_deliveryVars
=============================================================================
