------------------------------ MODULE Web3Ens ------------------------------
(***************************************************************************)
(* Contract addresses of a Web3Gateway (packages/client/src/               *)
(* gateway-web3.ts): six addresses resolved from ENS names by initEns, one *)
(* resolution shared by every getter that needs it (_initializingEns), and *)
(* the resolver's address also written by checkEns, which the status check *)
(* of a discovery runs and does not cancel when it times out.              *)
(*                                                                         *)
(* The handlers of one reply, and the getters that wake up with it, run    *)
(* before the next reply is handled: they are one step.                    *)
(***************************************************************************)
EXTENDS Naturals, FiniteSets

CONSTANTS
    Contracts,      \* the six contracts
    Resolver,       \* the ENS public resolver, the one checkEns looks up
    Getters,        \* calls of get...Instance() without a custom address
    Wants,          \* Wants[g]: the contract that getter g returns
    Checks          \* calls of checkStatus with resolveEnsDomains

ASSUME EnsAssumption ==
    /\ Resolver \in Contracts
    /\ Wants \in [Getters -> Contracts]

VARIABLES
    address,        \* address[k]: the address of contract k is set
    initializing,   \* _initializingEns is not null
    lookup,         \* lookup[k]: resolveName of k in the current initEns
    getter,         \* getter[g]: state of the promise of getter g
    check,          \* check[c]: state of the resolveName of checkEns
    ensKnown        \* history: some initEns has succeeded

vars == <<address, initializing, lookup, getter, check, ensKnown>>

TypeOK ==
    /\ address \in [Contracts -> BOOLEAN]
    /\ initializing \in BOOLEAN
    /\ lookup \in [Contracts -> {"none", "pending", "address", "null"}]
    /\ getter \in [Getters -> {"idle", "waiting", "attached", "invalid", "failed"}]
    /\ check \in [Checks -> {"idle", "pending", "done"}]
    /\ ensKnown \in BOOLEAN

Init ==
    /\ address = [k \in Contracts |-> FALSE]
    /\ initializing = FALSE
    /\ lookup = [k \in Contracts |-> "none"]
    /\ getter = [g \in Getters |-> "idle"]
    /\ check = [c \in Checks |-> "idle"]
    /\ ensKnown = FALSE

\* attach(): throws "Invalid contract address" without an address.
Attached(k, addresses) == IF addresses[k] THEN "attached" ELSE "invalid"

\* Mutant of Get: `await` is missing before initEns.
GetUnawaited(g) ==
    /\ getter[g] = "idle"
    /\ getter' = [getter EXCEPT ![g] = Attached(Wants[g], address)]
    /\ initializing' = (initializing \/ ~address[Wants[g]])
    /\ lookup' = IF initializing \/ address[Wants[g]] THEN lookup
                 ELSE [k \in Contracts |-> "pending"]
    /\ UNCHANGED <<address, check, ensKnown>>

\* A getter whose address is known attaches at once; one that lacks it calls
\* initEns and waits, joining a resolution in flight if there is one.
Get(g) ==
    /\ getter[g] = "idle"
    /\ \/ /\ address[Wants[g]]
          /\ getter' = [getter EXCEPT ![g] = Attached(Wants[g], address)]
          /\ UNCHANGED <<initializing, lookup>>
       \/ /\ ~address[Wants[g]]
          /\ getter' = [getter EXCEPT ![g] = "waiting"]
          /\ initializing' = TRUE
          /\ lookup' = IF initializing THEN lookup
                       ELSE [k \in Contracts |-> "pending"]
    /\ UNCHANGED <<address, check, ensKnown>>

\* The getters that wait for initEns go on: with the addresses, or failing.
Wake(addresses) ==
    [g \in Getters |-> IF getter[g] = "waiting"
                         THEN Attached(Wants[g], addresses) ELSE getter[g]]
WakeFailed ==
    [g \in Getters |-> IF getter[g] = "waiting" THEN "failed" ELSE getter[g]]

\* One of the lookups of initEns resolves, but for the last one.
LookupReply(k, reply) ==
    /\ lookup[k] = "pending"
    /\ \E other \in Contracts \ {k} : lookup[other] = "pending"
    /\ reply \in {"address", "null"}
    /\ lookup' = [lookup EXCEPT ![k] = reply]
    /\ UNCHANGED <<address, initializing, getter, check, ensKnown>>

\* The last lookup resolves and every name has an address: all are set.
InitSucceeds(k) ==
    /\ lookup[k] = "pending"
    /\ \A other \in Contracts \ {k} : lookup[other] = "address"
    /\ address' = [c \in Contracts |-> TRUE]
    /\ initializing' = FALSE
    /\ lookup' = [c \in Contracts |-> "none"]
    /\ getter' = Wake([c \in Contracts |-> TRUE])
    /\ ensKnown' = TRUE
    /\ UNCHANGED check

\* Mutant of InitLacksAddress: each address is set as soon as it is checked.
InitLacksAddressPartly(k) ==
    /\ lookup[k] = "pending"
    /\ \A other \in Contracts \ {k} : lookup[other] \in {"address", "null"}
    /\ address' = [c \in Contracts |-> address[c] \/ lookup[c] = "address"]
    /\ initializing' = FALSE
    /\ lookup' = [c \in Contracts |-> "none"]
    /\ getter' = WakeFailed
    /\ UNCHANGED <<check, ensKnown>>

\* The last lookup resolves and some name has no address: nothing is set.
InitLacksAddress(k) ==
    /\ lookup[k] = "pending"
    /\ \A other \in Contracts \ {k} : lookup[other] \in {"address", "null"}
    /\ initializing' = FALSE
    /\ lookup' = [c \in Contracts |-> "none"]
    /\ getter' = WakeFailed
    /\ UNCHANGED <<address, check, ensKnown>>

\* Mutant of InitFails: _initializingEns is not reset.
InitFailsStays(k) ==
    /\ lookup[k] = "pending"
    /\ lookup' = [c \in Contracts |-> "none"]
    /\ getter' = WakeFailed
    /\ UNCHANGED <<address, initializing, check, ensKnown>>

\* Promise.all rejects with the first lookup that fails; the replies of the
\* others are ignored from then on.
InitFails(k) ==
    /\ lookup[k] = "pending"
    /\ initializing' = FALSE
    /\ lookup' = [c \in Contracts |-> "none"]
    /\ getter' = WakeFailed
    /\ UNCHANGED <<address, check, ensKnown>>

\* checkEns: the name of the resolver is looked up ...
CheckEns(c) ==
    /\ check[c] = "idle"
    /\ check' = [check EXCEPT ![c] = "pending"]
    /\ UNCHANGED <<address, initializing, lookup, getter, ensKnown>>

\* ... and whatever it resolves to, an address or null, is stored, even after
\* the check timed out.
CheckEnsReply(c) ==
    /\ check[c] = "pending"
    /\ check' = [check EXCEPT ![c] = "done"]
    /\ \E resolved \in BOOLEAN :
          address' = [address EXCEPT ![Resolver] = resolved]
    /\ UNCHANGED <<initializing, lookup, getter, ensKnown>>

CheckEnsFails(c) ==
    /\ check[c] = "pending"
    /\ check' = [check EXCEPT ![c] = "done"]
    /\ UNCHANGED <<address, initializing, lookup, getter, ensKnown>>

Finished ==
    /\ \A g \in Getters : getter[g] \notin {"idle", "waiting"}
    /\ \A c \in Checks : check[c] = "done"
    /\ UNCHANGED vars

LookupSettles(k) ==
    \/ \E reply \in {"address", "null"} : LookupReply(k, reply)
    \/ InitSucceeds(k)
    \/ InitLacksAddress(k)
    \/ InitFails(k)

Next ==
    \/ \E g \in Getters : Get(g)
    \/ \E k \in Contracts : LookupSettles(k)
    \/ \E c \in Checks : CheckEns(c) \/ CheckEnsReply(c) \/ CheckEnsFails(c)
    \/ Finished

Spec == Init /\ [][Next]_vars

-----------------------------------------------------------------------------
\* A getter never attaches to a missing address: the one it waited for is set
\* when initEns succeeds, and no late reply of checkEns, which may store null,
\* comes between that and the getter's continuation.
NeverAttachesToNull == \A g \in Getters : getter[g] # "invalid"

\* The addresses that only initEns writes are set together, by the first
\* resolution that finds all of them, and no later resolution clears any.
AllOrNothing ==
    \A k \in Contracts \ {Resolver} : address[k] = ensKnown

\* A getter waits only for a resolution in flight: one that failed is not
\* kept for the next getter to join.
NoneJoinsEndedResolution ==
    (\E g \in Getters : getter[g] = "waiting") =>
        \E k \in Contracts : lookup[k] = "pending"
=============================================================================
