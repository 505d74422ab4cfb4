---------------------------- MODULE GatewayPool ----------------------------
(***************************************************************************)
(* GatewayPool of packages/client/src/gateway-pool.ts: one list of         *)
(* gateways and one error counter shared by every sendRequest in flight.   *)
(* A call goes to the gateway at the head of the list; an error of the     *)
(* "update" class rotates the list and retries, any other error reaches    *)
(* the caller.  The request timer (promiseWithTimeout of                   *)
(* packages/common/src/timeout.ts) stops the wait, not the request: the    *)
(* gateway may still execute what the client gave up waiting for.          *)
(*                                                                         *)
(* JavaScript runs one callback at a time.  A step is the code between two *)
(* points where it awaits; the `.then` of a shift is a microtask, which    *)
(* runs before any reply or timer (Quiet), though new calls may be made    *)
(* from other microtasks in between.                                       *)
(***************************************************************************)
EXTENDS Naturals, Sequences, FiniteSets

CONSTANTS
    Gateways,           \* gateways, one per endpoint
    NoGateway,          \* the call has not been posted
    Calls,              \* call slots of the application
    Methods,            \* API methods
    MethodOf,           \* the method each call asks for
    SequentialMethods,  \* SEQUENTIAL_METHODS
    ErrorSkipMethods,   \* ERROR_SKIP_METHODS
    Supports,           \* <<g, m>>: gateway g announces an API that has m
    PoolLists,          \* the lists that a discovery may return
    MaxShift,           \* MAX_GW_POOL_SHIFT_COUNT
    MaxConcurrent,      \* calls that the application keeps open at a time
    MaxAppOps,          \* bound: calls of refresh() and shift()
    MaxStray,           \* bound: abandoned copies remembered per call
    Reusable            \* slots reused for one request after another

ASSUME PoolAssumption ==
    /\ NoGateway \notin Gateways
    /\ MethodOf \in [Calls -> Methods]
    /\ Supports \subseteq Gateways \X Methods
    /\ PoolLists \subseteq Seq(Gateways) \ {<<>>}
    /\ MaxShift \in Nat
    /\ MaxAppOps \in Nat
    /\ MaxStray \in Nat
    /\ Reusable \subseteq Calls

VARIABLES
    pool,       \* GatewayPool.pool: the list, active gateway first
    errorCount, \* GatewayPool.errorCount
    status,     \* status[c]: the state of the promise of call c
    target,     \* target[c]: the gateway c was last posted to
    ran,        \* ran[c]: the copy that c awaits has been executed
    stray,      \* stray[c]: unprocessed copies that c no longer awaits
    executed,   \* executed[c]: executions of c by gateways; 2 means "many"
    appOps,     \* calls of refresh() and shift() still to come
    tried,      \* history: the gateways at which c failed
    solo        \* history: c began with no error and nothing interfered

vars == <<pool, errorCount, status, target, ran, stray, executed, appOps,
          tried, solo>>

-----------------------------------------------------------------------------
OnceOnlyCalls ==
    {c \in Calls : MethodOf[c] \in SequentialMethods \cup ErrorSkipMethods}

Open == {"retrying", "awaiting"}
Settled == {"answered", "rejected", "aborted", "exhausted"}
OpenCalls == {c \in Calls : status[c] \in Open}

\* No microtask is pending, so that a reply or a timer may be handled.
Quiet == \A c \in Calls : status[c] # "retrying"

\* Counting up to "more than once".
OneMore(n) == IF n < 2 THEN n + 1 ELSE n

\* Mutant of Rotated: push(pop()).
RotatedNowhere(list) == list

\* this.pool.push(this.pool.shift())
Rotated(list) == Append(Tail(list), Head(list))

\* Mutant of ShiftRefused: the last gateway of the list is not tried.
ShiftRefusedTooSoon(errors) == errors > MaxShift \/ errors >= Len(pool) - 1

\* The guard of shift(), for a given value of errorCount.
ShiftRefused(errors) == errors > MaxShift \/ errors >= Len(pool)

ActiveSupports(c) == <<Head(pool), MethodOf[c]>> \in Supports

-----------------------------------------------------------------------------
TypeOK ==
    /\ pool \in Seq(Gateways) \ {<<>>}
    /\ errorCount \in Nat
    /\ status \in [Calls -> {"idle"} \cup Open \cup Settled]
    /\ target \in [Calls -> Gateways \cup {NoGateway}]
    /\ ran \in [Calls -> BOOLEAN]
    /\ stray \in [Calls -> 0..MaxStray]
    /\ executed \in [Calls -> 0..2]
    /\ appOps \in 0..MaxAppOps
    /\ tried \in [Calls -> SUBSET Gateways]
    /\ solo \in [Calls -> BOOLEAN]

\* discover(): the pool starts with what the first discovery returned.
Init ==
    /\ pool \in PoolLists
    /\ errorCount = 0
    /\ status = [c \in Calls |-> "idle"]
    /\ target = [c \in Calls |-> NoGateway]
    /\ ran = [c \in Calls |-> FALSE]
    /\ stray = [c \in Calls |-> 0]
    /\ executed = [c \in Calls |-> 0]
    /\ appOps = MaxAppOps
    /\ tried = [c \in Calls |-> {}]
    /\ solo = [c \in Calls |-> FALSE]

\* Mutant of Failover: errorCount += 1 is missing.
FailoverUncounted(c, g) ==
    /\ tried' = [tried EXCEPT ![c] = @ \cup {g}]
    /\ pool' = Rotated(pool)
    /\ status' = [status EXCEPT ![c] = "retrying"]
    /\ UNCHANGED errorCount

\* errorCount += 1, then shift() and what hangs from its promise: a retry of
\* the call, or the rejection "The operation cannot be completed".
Failover(c, g) ==
    /\ tried' = [tried EXCEPT ![c] = @ \cup {g}]
    /\ \/ /\ ShiftRefused(errorCount + 1)
          /\ errorCount' = 0
          /\ status' = [status EXCEPT ![c] = "exhausted"]
          /\ UNCHANGED pool
       \/ /\ ~ShiftRefused(errorCount + 1)
          /\ errorCount' = errorCount + 1
          /\ pool' = Rotated(pool)
          /\ status' = [status EXCEPT ![c] = "retrying"]

\* The body of sendRequest up to its first await.
Attempt(c) ==
    \/ /\ ~ActiveSupports(c)
       /\ Failover(c, Head(pool))
       /\ UNCHANGED <<target, ran>>
    \/ /\ ActiveSupports(c)
       /\ status' = [status EXCEPT ![c] = "awaiting"]
       /\ target' = [target EXCEPT ![c] = Head(pool)]
       /\ ran' = [ran EXCEPT ![c] = FALSE]
       /\ UNCHANGED <<pool, errorCount, tried>>

\* The application calls sendRequest.
Submit(c) ==
    /\ status[c] = "idle"
    /\ Cardinality(OpenCalls) < MaxConcurrent
    /\ solo' = [d \in Calls |->
                   IF d = c THEN errorCount = 0 /\ OpenCalls = {}
                            ELSE solo[d] /\ status[d] \notin Open]
    /\ Attempt(c)
    /\ UNCHANGED <<stray, executed, appOps>>

\* The `.then(() => this.sendRequest(...))` that follows a shift.
Retry(c) ==
    /\ status[c] = "retrying"
    /\ Attempt(c)
    /\ UNCHANGED <<stray, executed, appOps, solo>>

-----------------------------------------------------------------------------
\* The gateway executes the copy that the client awaits.
Execute(c) ==
    /\ status[c] = "awaiting"
    /\ ~ran[c]
    /\ ran' = [ran EXCEPT ![c] = TRUE]
    /\ executed' = [executed EXCEPT ![c] = OneMore(@)]
    /\ UNCHANGED <<pool, errorCount, status, target, stray, appOps, tried,
                   solo>>

\* A gateway executes a copy that the client no longer awaits.
ExecuteLate(c) ==
    /\ stray[c] > 0
    /\ stray' = [stray EXCEPT ![c] = @ - 1]
    /\ executed' = [executed EXCEPT ![c] = OneMore(@)]
    /\ UNCHANGED <<pool, errorCount, status, target, ran, appOps, tried,
                   solo>>

\* Mutant of Answer: checkResponse does not look at `ok`.
AnswerUnchecked(c) ==
    /\ Quiet
    /\ status[c] = "awaiting"
    /\ errorCount' = 0
    /\ status' = [status EXCEPT ![c] = "answered"]
    /\ UNCHANGED <<pool, target, ran, stray, executed, appOps, tried, solo>>

\* .then(response => ...): a checked response with ok = true.
Answer(c) ==
    /\ Quiet
    /\ status[c] = "awaiting"
    /\ ran[c]
    /\ errorCount' = 0
    /\ status' = [status EXCEPT ![c] = "answered"]
    /\ UNCHANGED <<pool, target, ran, stray, executed, appOps, tried, solo>>

\* .catch(err => ...) before the message is looked at: getRoot passes the
\* error on, a sequential method aborts.
OnceOnlyFails(c) ==
    /\ MethodOf[c] \in SequentialMethods \cup ErrorSkipMethods
    /\ status' = [status EXCEPT
                    ![c] = IF MethodOf[c] \in ErrorSkipMethods
                             THEN "rejected" ELSE "aborted"]
    /\ UNCHANGED <<pool, errorCount, tried>>

\* Mutant of OnUpdateError: SEQUENTIAL_METHODS are retried like the others.
OnUpdateErrorAlwaysRetry(c) == Failover(c, target[c])

\* .catch(err => ...) for a message in GATEWAY_UPDATE_ERRORS.
OnUpdateError(c) ==
    \/ OnceOnlyFails(c)
    \/ /\ c \notin OnceOnlyCalls
       /\ Failover(c, target[c])

\* The gateway answers with an error that asks for another gateway, or the
\* connection is reset after (ran) or before the request was executed.
UpdateError(c) ==
    /\ Quiet
    /\ status[c] = "awaiting"
    /\ OnUpdateError(c)
    /\ UNCHANGED <<target, ran, stray, executed, appOps, solo>>

\* promiseWithTimeout rejects with "Time out".  Nothing is cancelled: an
\* unprocessed copy stays with the gateway.
TimeOut(c) ==
    /\ Quiet
    /\ status[c] = "awaiting"
    /\ OnUpdateError(c)
    /\ stray' = [stray EXCEPT
                   ![c] = IF ran[c] \/ @ = MaxStray THEN @ ELSE @ + 1]
    /\ UNCHANGED <<target, ran, executed, appOps, solo>>

\* Any other error: `throw err`, with errorCount as it is.
OtherError(c) ==
    /\ Quiet
    /\ status[c] = "awaiting"
    /\ \/ OnceOnlyFails(c)
       \/ /\ c \notin OnceOnlyCalls
          /\ status' = [status EXCEPT ![c] = "rejected"]
          /\ UNCHANGED <<pool, errorCount, tried>>
    /\ UNCHANGED <<target, ran, stray, executed, appOps, solo>>

-----------------------------------------------------------------------------
\* Calls that an operation of the application disturbs.
Disturbed == [c \in Calls |-> solo[c] /\ status[c] \notin Open]

\* Mutant of Refresh: errorCount is not reset.
RefreshKeepsCount ==
    /\ Quiet
    /\ appOps > 0
    /\ appOps' = appOps - 1
    /\ pool' \in PoolLists
    /\ solo' = Disturbed
    /\ UNCHANGED <<errorCount, status, target, ran, stray, executed, tried>>

\* refresh(), when its discovery ends.  A discovery that fails changes
\* nothing.  Calls in flight keep the gateway objects of the old list.
Refresh ==
    /\ Quiet
    /\ appOps > 0
    /\ appOps' = appOps - 1
    /\ pool' \in PoolLists
    /\ errorCount' = 0
    /\ solo' = Disturbed
    /\ UNCHANGED <<status, target, ran, stray, executed, tried>>

\* shift(), called by the application.
AppShift ==
    /\ appOps > 0
    /\ appOps' = appOps - 1
    /\ IF ShiftRefused(errorCount)
         THEN errorCount' = 0 /\ UNCHANGED pool
         ELSE pool' = Rotated(pool) /\ UNCHANGED errorCount
    /\ solo' = Disturbed
    /\ UNCHANGED <<status, target, ran, stray, executed, tried>>

\* The application is done with a call and will make another one.
Recycle(c) ==
    /\ c \in Reusable
    /\ status[c] \in Settled
    /\ status' = [status EXCEPT ![c] = "idle"]
    /\ target' = [target EXCEPT ![c] = NoGateway]
    /\ ran' = [ran EXCEPT ![c] = FALSE]
    /\ stray' = [stray EXCEPT ![c] = 0]
    /\ executed' = [executed EXCEPT ![c] = 0]
    /\ tried' = [tried EXCEPT ![c] = {}]
    /\ solo' = [solo EXCEPT ![c] = FALSE]
    /\ UNCHANGED <<pool, errorCount, appOps>>

\* Every call has settled and the application makes no more.
Finished ==
    /\ \A c \in Calls : status[c] \in Settled
    /\ UNCHANGED vars

CallNext(c) ==
    \/ Submit(c) \/ Retry(c)
    \/ Execute(c) \/ ExecuteLate(c)
    \/ Answer(c) \/ UpdateError(c) \/ TimeOut(c) \/ OtherError(c)
    \/ Recycle(c)

Next == Refresh \/ AppShift \/ Finished \/ \E c \in Calls : CallNext(c)

Spec == Init /\ [][Next]_vars

\* Microtasks run and timers fire; gateways and users promise nothing.
Fairness == \A c \in Calls : WF_vars(Retry(c)) /\ WF_vars(TimeOut(c))

FairSpec == Spec /\ Fairness

-----------------------------------------------------------------------------
(***************************************************************************)
(* Properties                                                              *)
(***************************************************************************)

\* The shared counter never reaches the length of the list nor passes
\* MAX_GW_POOL_SHIFT_COUNT, whoever incremented it and whichever list a
\* refresh installed in between: shift() is refused in time, and a direct
\* shift() by the application is never refused.
BudgetBounded == errorCount <= MaxShift /\ errorCount < Len(pool)

\* addClaimBulk and getRoot are not idempotent to the caller: however replies,
\* timers, shifts by other calls and late executions interleave, no such
\* request is executed twice.
OnceOnlyNotRepeated == \A c \in OnceOnlyCalls : executed[c] <= 1

\* shift() refuses c: "The operation cannot be completed".  Every gateway of
\* a list within the limit of the counter has failed c.
GivesUp(c) ==
    /\ status[c] # "exhausted"
    /\ status'[c] = "exhausted"
    /\ Len(pool) <= MaxShift + 1
TriedAll(c) == \A i \in DOMAIN pool : pool[i] \in tried'[c]

\* A call that began with the counter at zero and had the pool for itself
\* gives up only when it failed at every gateway of the list.
SoloTriesEveryGateway ==
    [][\A c \in Calls : GivesUp(c) /\ solo'[c] => TriedAll(c)]_vars

\* The same of any call: "Retry with a new one, if possible"
\* (gateway-pool.ts:128 and 151).
NeverGivesUpEarly == [][\A c \in Calls : GivesUp(c) => TriedAll(c)]_vars

\* Nor is such a call posted twice to one gateway, unless the list has it
\* twice: each rotation takes it to one that it has not failed at.
SoloNeverReturns ==
    [][\A c \in Calls :
          /\ status[c] # "awaiting"
          /\ status'[c] = "awaiting"
          /\ solo'[c]
          /\ \A i, j \in DOMAIN pool : pool[i] = pool[j] => i = j
          => target'[c] \notin tried[c]]_vars

\* What the caller sees of the promise of each call.
Outcome ==
    [c \in Calls |-> CASE status[c] \in Open -> "open"
                       [] status[c] \in {"idle", "answered"} -> status[c]
                       [] OTHER -> "failed"]

\* sendRequest keeps the promise of RequestDelivery: an answer only for an
\* executed request, final outcomes, once-only requests not repeated.
Delivery == INSTANCE RequestDelivery WITH OnceOnly <- OnceOnlyCalls,
                                          outcome <- Outcome
ImplementsDelivery == Delivery!DeliverySpec

\* Every call settles, whatever the gateways do: each wait ends in a reply or
\* a timeout, and the shared counter ends each chain of retries, once the
\* application makes no more calls.
NoMoreCalls == <>[][\A c \in Calls : ~Recycle(c)]_vars
EveryCallSettles ==
    NoMoreCalls =>
        \A c \in Calls : (status[c] \in Open) ~> (status[c] \in Settled)
=============================================================================
