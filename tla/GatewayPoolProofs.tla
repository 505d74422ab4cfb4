------------------------- MODULE GatewayPoolProofs -------------------------
(***************************************************************************)
(* Theorems about GatewayPool, for every number of gateways and calls,     *)
(* every list a discovery may return, every assignment of methods, and     *)
(* every bound.                                                            *)
(***************************************************************************)
EXTENDS GatewayPool, TLAPS

\* Rotating a list neither empties nor shortens it.
LEMMA RotatedList ==
    ASSUME NEW S, NEW list \in Seq(S), list # <<>>
    PROVE  /\ Rotated(list) \in Seq(S) \ {<<>>}
           /\ Len(Rotated(list)) = Len(list)
           /\ Head(list) \in S
<1>1. Len(list) > 0 /\ Tail(list) \in Seq(S) /\ Head(list) \in S
  OBVIOUS
<1>2. /\ Rotated(list) \in Seq(S)
      /\ Len(Rotated(list)) = Len(Tail(list)) + 1
      /\ Len(Tail(list)) = Len(list) - 1
  BY <1>1 DEF Rotated
<1>3. QED
  BY <1>1, <1>2

\* What a failover writes, and the bound that shift() keeps.
LEMMA FailoverStep ==
    ASSUME TypeOK, BudgetBounded, NEW c \in Calls, NEW g \in Gateways,
           Failover(c, g)
    PROVE  /\ pool' \in Seq(Gateways) \ {<<>>}
           /\ errorCount' \in Nat
           /\ BudgetBounded'
           /\ tried' \in [Calls -> SUBSET Gateways]
           /\ \E s \in {"exhausted", "retrying"} :
                 status' = [status EXCEPT ![c] = s]
<1>1. CASE ShiftRefused(errorCount + 1)
  BY <1>1, PoolAssumption
     DEF Failover, TypeOK, BudgetBounded, ShiftRefused
<1>2. CASE ~ShiftRefused(errorCount + 1)
  <2>1. /\ pool' = Rotated(pool)
        /\ errorCount' = errorCount + 1
        /\ status' = [status EXCEPT ![c] = "retrying"]
        /\ tried' = [tried EXCEPT ![c] = @ \cup {g}]
    BY <1>2 DEF Failover
  <2>2. pool' \in Seq(Gateways) \ {<<>>} /\ Len(pool') = Len(pool)
    BY <2>1, RotatedList DEF TypeOK
  <2>3. errorCount' <= MaxShift /\ errorCount' < Len(pool)
    BY <1>2, <2>1, PoolAssumption DEF TypeOK, ShiftRefused
  <2>4. QED
    BY <2>1, <2>2, <2>3 DEF TypeOK, BudgetBounded
<1>3. QED
  BY <1>1, <1>2

\* What an attempt writes.
LEMMA AttemptStep ==
    ASSUME TypeOK, BudgetBounded, NEW c \in Calls, Attempt(c)
    PROVE  /\ pool' \in Seq(Gateways) \ {<<>>}
           /\ errorCount' \in Nat
           /\ BudgetBounded'
           /\ tried' \in [Calls -> SUBSET Gateways]
           /\ target' \in [Calls -> Gateways \cup {NoGateway}]
           /\ ran' \in [Calls -> BOOLEAN]
           /\ \A d \in Calls \ {c} : ran'[d] = ran[d]
           /\ \/ \E s \in {"exhausted", "retrying"} :
                    status' = [status EXCEPT ![c] = s]
              \/ /\ status' = [status EXCEPT ![c] = "awaiting"]
                 /\ ran'[c] = FALSE
<1>0. Head(pool) \in Gateways
  BY RotatedList DEF TypeOK
<1>1. CASE ~ActiveSupports(c)
  <2>1. Failover(c, Head(pool)) /\ UNCHANGED <<target, ran>>
    BY <1>1 DEF Attempt
  <2>2. QED
    BY <1>0, <2>1, FailoverStep DEF TypeOK
<1>2. CASE ActiveSupports(c)
  BY <1>0, <1>2 DEF Attempt, TypeOK, BudgetBounded
<1>3. QED
  BY <1>1, <1>2

\* What an error of the update class writes.
LEMMA UpdateErrorStep ==
    ASSUME TypeOK, BudgetBounded, NEW c \in Calls, OnUpdateError(c),
           target[c] \in Gateways
    PROVE  /\ pool' \in Seq(Gateways) \ {<<>>}
           /\ errorCount' \in Nat
           /\ BudgetBounded'
           /\ tried' \in [Calls -> SUBSET Gateways]
           /\ \E s \in {"exhausted", "retrying", "rejected", "aborted"} :
                 /\ status' = [status EXCEPT ![c] = s]
                 /\ c \in OnceOnlyCalls => s \in {"rejected", "aborted"}
<1>1. CASE OnceOnlyFails(c)
  BY <1>1 DEF OnceOnlyFails, TypeOK, BudgetBounded
<1>2. CASE c \notin OnceOnlyCalls /\ Failover(c, target[c])
  BY <1>2, FailoverStep
<1>3. QED
  BY <1>1, <1>2 DEF OnUpdateError

-----------------------------------------------------------------------------
\* A call that waits was posted to a gateway.
TargetInv == \A c \in Calls : status[c] = "awaiting" => target[c] \in Gateways

\* The type invariant and the bound on the shared counter are inductive only
\* together: shift() keeps the counter below the length of the list because
\* the list never shrinks but in refresh(), which resets the counter.
BudgetInv == TypeOK /\ BudgetBounded /\ TargetInv

\* A discovered pool starts without errors.
LEMMA BudgetInit == Init => BudgetInv
<1> SUFFICES ASSUME Init PROVE BudgetInv
  OBVIOUS
<1>1. pool \in Seq(Gateways) \ {<<>>} /\ Len(pool) > 0
  BY PoolAssumption DEF Init
<1>2. TypeOK
  BY <1>1, PoolAssumption DEF Init, TypeOK
<1>3. BudgetBounded /\ TargetInv
  BY <1>1, PoolAssumption DEF Init, BudgetBounded, TargetInv
<1>4. QED
  BY <1>2, <1>3 DEF BudgetInv

\* Every step of sendRequest, of the gateways and of the application keeps
\* the budget: only a failover and a refresh write the list and the counter.
LEMMA BudgetStep == BudgetInv /\ [Next]_vars => BudgetInv'
<1> SUFFICES ASSUME BudgetInv, [Next]_vars PROVE BudgetInv'
  OBVIOUS
<1> USE DEF BudgetInv
<1>1. ASSUME NEW c \in Calls, Submit(c) PROVE BudgetInv'
  <2>1. Attempt(c)
    BY <1>1 DEF Submit
  <2>2. solo' \in [Calls -> BOOLEAN] /\ UNCHANGED <<stray, executed, appOps>>
    BY <1>1 DEF Submit, TypeOK
  <2>3. TypeOK' /\ BudgetBounded'
    BY <2>1, <2>2, AttemptStep DEF TypeOK, Open, Settled
  <2>4. TargetInv'
    BY <2>1, RotatedList
       DEF Attempt, Failover, TargetInv, TypeOK
  <2>5. QED
    BY <2>3, <2>4
<1>2. ASSUME NEW c \in Calls, Retry(c) PROVE BudgetInv'
  <2>1. Attempt(c) /\ UNCHANGED <<stray, executed, appOps, solo>>
    BY <1>2 DEF Retry
  <2>2. TypeOK' /\ BudgetBounded'
    BY <2>1, AttemptStep DEF TypeOK, Open, Settled
  <2>3. TargetInv'
    BY <2>1, RotatedList
       DEF Attempt, Failover, TargetInv, TypeOK
  <2>4. QED
    BY <2>2, <2>3
<1>3. ASSUME NEW c \in Calls, Execute(c) PROVE BudgetInv'
  BY <1>3 DEF Execute, OneMore, TypeOK, BudgetBounded, TargetInv
<1>4. ASSUME NEW c \in Calls, ExecuteLate(c) PROVE BudgetInv'
  BY <1>4, PoolAssumption
     DEF ExecuteLate, OneMore, TypeOK, BudgetBounded, TargetInv
<1>5. ASSUME NEW c \in Calls, Answer(c) PROVE BudgetInv'
  BY <1>5, PoolAssumption
     DEF Answer, TypeOK, BudgetBounded, TargetInv, Settled, Open
<1>6. ASSUME NEW c \in Calls, UpdateError(c) PROVE BudgetInv'
  <2>1. /\ OnUpdateError(c)
        /\ target[c] \in Gateways
        /\ UNCHANGED <<target, ran, stray, executed, appOps, solo>>
    BY <1>6 DEF UpdateError, TargetInv
  <2>2. QED
    BY <2>1, UpdateErrorStep DEF TypeOK, TargetInv, Open, Settled
<1>7. ASSUME NEW c \in Calls, TimeOut(c) PROVE BudgetInv'
  <2>1. /\ OnUpdateError(c)
        /\ target[c] \in Gateways
        /\ UNCHANGED <<target, ran, executed, appOps, solo>>
    BY <1>7 DEF TimeOut, TargetInv
  <2>2. stray' \in [Calls -> 0..MaxStray]
    BY <1>7, PoolAssumption DEF TimeOut, TypeOK
  <2>3. QED
    BY <2>1, <2>2, UpdateErrorStep DEF TypeOK, TargetInv, Open, Settled
<1>8. ASSUME NEW c \in Calls, OtherError(c) PROVE BudgetInv'
  BY <1>8 DEF OtherError, OnceOnlyFails, TypeOK, BudgetBounded, TargetInv,
              Settled, Open
<1>9. ASSUME NEW c \in Calls, Recycle(c) PROVE BudgetInv'
  BY <1>9, PoolAssumption DEF Recycle, TypeOK, BudgetBounded, TargetInv
<1>10. CASE Refresh
  <2>1. Len(pool') > 0 /\ pool' \in Seq(Gateways) \ {<<>>}
    BY <1>10, PoolAssumption DEF Refresh
  <2>2. QED
    BY <1>10, <2>1, PoolAssumption
       DEF Refresh, Disturbed, TypeOK, BudgetBounded, TargetInv
<1>11. CASE AppShift
  <2>1. ~ShiftRefused(errorCount)
    BY PoolAssumption DEF BudgetBounded, ShiftRefused, TypeOK
  <2>2. /\ pool' \in Seq(Gateways) \ {<<>>}
        /\ Len(pool') = Len(pool)
        /\ UNCHANGED errorCount
    BY <1>11, <2>1, RotatedList DEF AppShift, TypeOK
  <2>3. QED
    BY <1>11, <2>2, PoolAssumption
       DEF AppShift, Disturbed, TypeOK, BudgetBounded, TargetInv
<1>12. CASE Finished \/ UNCHANGED vars
  BY <1>12 DEF Finished, vars, TypeOK, BudgetBounded, TargetInv
<1>13. QED
  BY <1>1, <1>2, <1>3, <1>4, <1>5, <1>6, <1>7, <1>8, <1>9, <1>10, <1>11,
     <1>12 DEF Next, CallNext

\* Type correctness: the list is never empty, so that activeGateway never
\* throws, and every state variable has its type.
THEOREM PoolTypeCorrect == Spec => []TypeOK
<1>1. BudgetInv => TypeOK
  BY DEF BudgetInv
<1>2. QED
  BY <1>1, BudgetInit, BudgetStep, PTL DEF Spec

\* The error counter shared by all calls stays below the length of the
\* current list and within MAX_GW_POOL_SHIFT_COUNT.
THEOREM PoolBudgetBounded == Spec => []BudgetBounded
<1>1. BudgetInv => BudgetBounded
  BY DEF BudgetInv
<1>2. QED
  BY <1>1, BudgetInit, BudgetStep, PTL DEF Spec

-----------------------------------------------------------------------------
\* Why a once-only request is executed at most once: before it is posted it
\* has no copies; while it is awaited the awaited copy is the only one; and
\* after an error it is never posted again, so that at most one copy is left.
OnceInv ==
    \A c \in OnceOnlyCalls :
        /\ executed[c] + stray[c] <= 1
        /\ status[c] = "retrying" => executed[c] = 0 /\ stray[c] = 0
        /\ status[c] = "awaiting" => stray[c] = 0 /\ (~ran[c] => executed[c] = 0)

\* An idle call has no copies, and the copy that is answered was executed.
CopiesInv ==
    \A c \in Calls :
        /\ status[c] = "idle" => executed[c] = 0 /\ stray[c] = 0
        /\ status[c] = "awaiting" /\ ran[c] => executed[c] > 0
        /\ status[c] = "answered" => executed[c] > 0

DeliveryInv == BudgetInv /\ OnceInv /\ CopiesInv

\* No request has been executed, answered or left behind at the start.
LEMMA DeliveryInvInit == Init => DeliveryInv
<1> SUFFICES ASSUME Init PROVE OnceInv /\ CopiesInv
  BY BudgetInit DEF DeliveryInv
<1>1. QED
  BY DEF Init, OnceInv, CopiesInv, OnceOnlyCalls

\* Every step keeps the account of the copies of each request.
LEMMA DeliveryInvStep == DeliveryInv /\ [Next]_vars => DeliveryInv'
<1> SUFFICES ASSUME DeliveryInv, [Next]_vars PROVE OnceInv' /\ CopiesInv'
  BY BudgetStep DEF DeliveryInv
<1> USE DEF DeliveryInv, BudgetInv
<1>0. OnceOnlyCalls \subseteq Calls
  BY DEF OnceOnlyCalls
<1>1. ASSUME NEW c \in Calls, Submit(c) PROVE OnceInv' /\ CopiesInv'
  <2>1. /\ Attempt(c)
        /\ status[c] = "idle"
        /\ UNCHANGED <<stray, executed>>
    BY <1>1 DEF Submit
  <2>2. QED
    BY <1>0, <2>1, AttemptStep DEF OnceInv, CopiesInv, TypeOK
<1>2. ASSUME NEW c \in Calls, Retry(c) PROVE OnceInv' /\ CopiesInv'
  <2>1. /\ Attempt(c)
        /\ status[c] = "retrying"
        /\ UNCHANGED <<stray, executed>>
    BY <1>2 DEF Retry
  <2>2. QED
    BY <1>0, <2>1, AttemptStep DEF OnceInv, CopiesInv, TypeOK
<1>3. ASSUME NEW c \in Calls, Execute(c) PROVE OnceInv' /\ CopiesInv'
  BY <1>0, <1>3 DEF Execute, OneMore, OnceInv, CopiesInv, TypeOK
<1>4. ASSUME NEW c \in Calls, ExecuteLate(c) PROVE OnceInv' /\ CopiesInv'
  <2>1. \A d \in Calls : executed[d] \in 0..2 /\ stray[d] \in Nat
    BY PoolAssumption DEF TypeOK
  <2>2. /\ stray[c] > 0
        /\ executed' = [executed EXCEPT ![c] = OneMore(@)]
        /\ stray' = [stray EXCEPT ![c] = @ - 1]
        /\ UNCHANGED <<status, ran>>
    BY <1>4 DEF ExecuteLate
  <2>3. /\ \A d \in Calls \ {c} : stray'[d] = stray[d] /\ executed'[d] = executed[d]
        /\ stray'[c] = stray[c] - 1
        /\ executed'[c] > 0
        /\ executed'[c] <= executed[c] + 1
    <3>1. /\ \A d \in Calls \ {c} : stray'[d] = stray[d] /\ executed'[d] = executed[d]
          /\ stray'[c] = stray[c] - 1
          /\ executed'[c] = OneMore(executed[c])
      BY <2>2 DEF TypeOK
    <3>2. \A n \in 0..2 : OneMore(n) > 0 /\ OneMore(n) <= n + 1
      BY DEF OneMore
    <3>3. QED
      BY <2>1, <3>1, <3>2
  <2>4. OnceInv'
    <3> SUFFICES ASSUME NEW d \in OnceOnlyCalls
                 PROVE  /\ executed'[d] + stray'[d] <= 1
                        /\ d = c => status[d] \notin {"retrying", "awaiting"}
      BY <1>0, <2>2, <2>3 DEF OnceInv
    <3>1. executed'[d] \in 0..2
      BY <1>0, <2>1, <2>2 DEF OneMore, TypeOK
    <3>2. CASE d = c
      BY <1>0, <2>1, <2>2, <2>3, <3>1, <3>2 DEF OnceInv
    <3>3. CASE d # c
      BY <1>0, <2>3, <3>3 DEF OnceInv
    <3>4. QED
      BY <3>2, <3>3
  <2>5. CopiesInv'
    BY <2>1, <2>2, <2>3 DEF CopiesInv
  <2>6. QED
    BY <2>4, <2>5
<1>5. ASSUME NEW c \in Calls, Answer(c) PROVE OnceInv' /\ CopiesInv'
  BY <1>0, <1>5 DEF Answer, OnceInv, CopiesInv, TypeOK
<1>6. ASSUME NEW c \in Calls, UpdateError(c) PROVE OnceInv' /\ CopiesInv'
  <2>1. /\ OnUpdateError(c)
        /\ status[c] = "awaiting"
        /\ target[c] \in Gateways
        /\ UNCHANGED <<ran, stray, executed>>
    BY <1>6 DEF UpdateError, TargetInv
  <2>2. QED
    BY <1>0, <2>1, UpdateErrorStep DEF OnceInv, CopiesInv, TypeOK
<1>7. ASSUME NEW c \in Calls, TimeOut(c) PROVE OnceInv' /\ CopiesInv'
  <2>1. /\ OnUpdateError(c)
        /\ status[c] = "awaiting"
        /\ target[c] \in Gateways
        /\ stray' = [stray EXCEPT
                       ![c] = IF ran[c] \/ @ = MaxStray THEN @ ELSE @ + 1]
        /\ UNCHANGED <<ran, executed>>
    BY <1>7 DEF TimeOut, TargetInv
  <2>2. \A d \in Calls : executed[d] \in 0..2 /\ stray[d] \in Nat
    BY PoolAssumption DEF TypeOK
  <2>3. PICK s \in {"exhausted", "retrying", "rejected", "aborted"} :
           /\ status' = [status EXCEPT ![c] = s]
           /\ c \in OnceOnlyCalls => s \in {"rejected", "aborted"}
    BY <2>1, UpdateErrorStep
  <2>4. QED
    BY <1>0, <2>1, <2>2, <2>3 DEF OnceInv, CopiesInv, TypeOK
<1>8. ASSUME NEW c \in Calls, OtherError(c) PROVE OnceInv' /\ CopiesInv'
  BY <1>0, <1>8 DEF OtherError, OnceOnlyFails, OnceInv, CopiesInv, TypeOK
<1>9. ASSUME NEW c \in Calls, Recycle(c) PROVE OnceInv' /\ CopiesInv'
  BY <1>0, <1>9 DEF Recycle, OnceInv, CopiesInv, TypeOK
<1>10. CASE Refresh \/ AppShift
  BY <1>10 DEF Refresh, AppShift, OnceInv, CopiesInv
<1>11. CASE Finished \/ UNCHANGED vars
  BY <1>11 DEF Finished, vars, OnceInv, CopiesInv
<1>12. QED
  BY <1>1, <1>2, <1>3, <1>4, <1>5, <1>6, <1>7, <1>8, <1>9, <1>10, <1>11
     DEF Next, CallNext

\* DeliveryInv is inductive.
LEMMA DeliveryInvariant == Spec => []DeliveryInv
<1>1. QED
  BY DeliveryInvInit, DeliveryInvStep, PTL DEF Spec

\* A request of addClaimBulk or getRoot is executed at most once, whatever
\* other calls, refreshes and late executions do.
THEOREM PoolOnceOnlyNotRepeated == Spec => []OnceOnlyNotRepeated
<1>1. DeliveryInv => OnceOnlyNotRepeated
  <2> SUFFICES ASSUME DeliveryInv, NEW c \in OnceOnlyCalls
               PROVE  executed[c] <= 1
    BY DEF OnceOnlyNotRepeated
  <2>1. executed[c] \in 0..2 /\ stray[c] \in Nat /\ executed[c] + stray[c] <= 1
    BY PoolAssumption
       DEF DeliveryInv, BudgetInv, OnceInv, TypeOK, OnceOnlyCalls
  <2>2. QED
    BY <2>1
<1>2. QED
  BY <1>1, DeliveryInvariant, PTL

-----------------------------------------------------------------------------
\* A step of the pool that changes the status of one call to `s`, and with it
\* what the caller sees.
LEMMA OutcomeOfStep ==
    ASSUME TypeOK, NEW c \in Calls, NEW s,
           status' = [status EXCEPT ![c] = s]
    PROVE  /\ s \in Open => Outcome' = [Outcome EXCEPT ![c] = "open"]
           /\ s \in {"idle", "answered"} => Outcome' = [Outcome EXCEPT ![c] = s]
           /\ s \in Settled \ {"answered"} =>
                 Outcome' = [Outcome EXCEPT ![c] = "failed"]
  BY DEF Outcome, Open, Settled, TypeOK

\* What the caller of sendRequest sees, from the status of the call.
LEMMA OutcomeOfCall ==
    ASSUME TypeOK, NEW c \in Calls
    PROVE  /\ status[c] \in Open => Outcome[c] = "open"
           /\ status[c] \in {"idle", "answered"} => Outcome[c] = status[c]
           /\ status[c] \in Settled \ {"answered"} => Outcome[c] = "failed"
           /\ status[c] # "idle" => Outcome[c] # "idle"
  BY DEF Outcome, Open, Settled, TypeOK

\* A step that leaves every status alone is not seen by any caller.
LEMMA UnchangedOutcome ==
    ASSUME UNCHANGED status PROVE UNCHANGED Outcome
  BY DEF Outcome

\* Each step of the pool is a step of the delivery promise, or a stutter.
LEMMA DeliveryMapping ==
    DeliveryInv /\ [Next]_vars => [Delivery!DeliveryNext]_<<Outcome, executed>>
<1> SUFFICES ASSUME DeliveryInv, [Next]_vars
             PROVE  Delivery!DeliveryNext \/ UNCHANGED <<Outcome, executed>>
  OBVIOUS
<1> USE DEF DeliveryInv, BudgetInv
<1>1. ASSUME NEW c \in Calls, Submit(c) PROVE Delivery!Open(c)
  <2>1. /\ Attempt(c)
        /\ status[c] = "idle"
        /\ UNCHANGED executed
    BY <1>1 DEF Submit
  <2>2. PICK s \in {"exhausted", "retrying", "awaiting"} :
           status' = [status EXCEPT ![c] = s]
    BY <2>1, AttemptStep
  <2>3. Outcome' \in {[Outcome EXCEPT ![c] = o] : o \in {"open", "failed"}}
    BY <2>2, OutcomeOfStep DEF Open, Settled
  <2>4. QED
    BY <2>1, <2>3, OutcomeOfCall DEF Delivery!Open
<1>2. ASSUME NEW c \in Calls, Retry(c)
      PROVE  Delivery!Reject(c) \/ UNCHANGED <<Outcome, executed>>
  <2>1. /\ Attempt(c)
        /\ Outcome[c] = "open"
        /\ UNCHANGED executed
    BY <1>2, OutcomeOfCall DEF Retry, Open
  <2>2. PICK s \in {"exhausted", "retrying", "awaiting"} :
           status' = [status EXCEPT ![c] = s]
    BY <2>1, AttemptStep
  <2>3. \/ Outcome' = [Outcome EXCEPT ![c] = "open"]
        \/ Outcome' = [Outcome EXCEPT ![c] = "failed"]
    BY <2>2, OutcomeOfStep DEF Open, Settled
  <2>4. QED
    BY <2>1, <2>3 DEF Delivery!Reject, Outcome
<1>3. ASSUME NEW c \in Calls, Execute(c) PROVE Delivery!Perform(c)
  <2>1. UNCHANGED Outcome /\ Outcome[c] = "open"
    BY <1>3, UnchangedOutcome, OutcomeOfCall DEF Execute, Open
  <2>2. c \in OnceOnlyCalls => executed[c] = 0
    BY <1>3 DEF Execute, OnceInv
  <2>3. QED
    BY <1>3, <2>1, <2>2
       DEF Execute, OneMore, Delivery!Perform, Delivery!OneMore
<1>4. ASSUME NEW c \in Calls, ExecuteLate(c) PROVE Delivery!Perform(c)
  <2>1. executed[c] \in 0..2 /\ stray[c] \in Nat /\ stray[c] > 0
    BY <1>4, PoolAssumption DEF ExecuteLate, TypeOK
  <2>2. UNCHANGED Outcome /\ Outcome[c] # "idle"
    BY <1>4, <2>1, UnchangedOutcome, OutcomeOfCall DEF ExecuteLate, CopiesInv
  <2>3. c \in OnceOnlyCalls => executed[c] = 0
    BY <2>1 DEF OnceInv
  <2>4. QED
    BY <1>4, <2>2, <2>3
       DEF ExecuteLate, OneMore, Delivery!Perform, Delivery!OneMore
<1>5. ASSUME NEW c \in Calls, Answer(c) PROVE Delivery!Resolve(c)
  <2>1. Outcome' = [Outcome EXCEPT ![c] = "answered"]
    BY <1>5, OutcomeOfStep DEF Answer
  <2>2. Outcome[c] = "open" /\ executed[c] > 0 /\ UNCHANGED executed
    BY <1>5, OutcomeOfCall DEF Answer, Open, CopiesInv
  <2>3. QED
    BY <2>1, <2>2 DEF Delivery!Resolve
<1>6. ASSUME NEW c \in Calls, UpdateError(c) \/ TimeOut(c)
      PROVE  Delivery!Reject(c) \/ UNCHANGED <<Outcome, executed>>
  <2>1. /\ OnUpdateError(c)
        /\ target[c] \in Gateways
        /\ Outcome[c] = "open"
        /\ UNCHANGED executed
    BY <1>6, OutcomeOfCall DEF UpdateError, TimeOut, TargetInv, Open
  <2>2. PICK s \in {"exhausted", "retrying", "rejected", "aborted"} :
           status' = [status EXCEPT ![c] = s]
    BY <2>1, UpdateErrorStep
  <2>3. \/ Outcome' = [Outcome EXCEPT ![c] = "open"]
        \/ Outcome' = [Outcome EXCEPT ![c] = "failed"]
    BY <2>2, OutcomeOfStep DEF Open, Settled
  <2>4. QED
    BY <2>1, <2>3 DEF Delivery!Reject, Outcome
<1>7. ASSUME NEW c \in Calls, OtherError(c) PROVE Delivery!Reject(c)
  <2>1. \E s \in {"rejected", "aborted"} : status' = [status EXCEPT ![c] = s]
    BY <1>7 DEF OtherError, OnceOnlyFails
  <2>2. Outcome' = [Outcome EXCEPT ![c] = "failed"]
    BY <2>1, OutcomeOfStep DEF Settled
  <2>3. Outcome[c] = "open" /\ UNCHANGED executed
    BY <1>7, OutcomeOfCall DEF OtherError, Open
  <2>4. QED
    BY <2>2, <2>3 DEF Delivery!Reject
<1>8. ASSUME NEW c \in Calls, Recycle(c) PROVE Delivery!Reuse(c)
  <2>1. Outcome' = [Outcome EXCEPT ![c] = "idle"]
    BY <1>8, OutcomeOfStep DEF Recycle
  <2>2. Outcome[c] \in {"answered", "failed"}
    BY <1>8, OutcomeOfCall DEF Recycle, Settled
  <2>3. QED
    BY <1>8, <2>1, <2>2 DEF Recycle, Delivery!Reuse
<1>9. CASE Refresh \/ AppShift \/ Finished \/ UNCHANGED vars
  BY <1>9, UnchangedOutcome DEF Refresh, AppShift, Finished, vars
<1>10. QED
  BY <1>1, <1>2, <1>3, <1>4, <1>5, <1>6, <1>7, <1>8, <1>9
     DEF Next, CallNext, Delivery!DeliveryNext

\* sendRequest over the shared pool implements the delivery promise: initial
\* states map to initial states, and every step of the pool is a step of the
\* promise or changes nothing of it.
THEOREM PoolImplementsDelivery == Spec => ImplementsDelivery
<1>1. Init => Delivery!DeliveryInit
  BY DEF Init, Delivery!DeliveryInit, Outcome, Open
<1>2. QED
  BY <1>1, DeliveryMapping, DeliveryInvariant, PTL
     DEF Spec, ImplementsDelivery, Delivery!DeliverySpec,
         Delivery!deliveryVars

-----------------------------------------------------------------------------
(***************************************************************************)
(* A call that has the pool for itself goes round the list exactly once.   *)
(***************************************************************************)
\* The last errorCount entries of the list: those rotated to its end.
Passed == {pool[i] : i \in {j \in DOMAIN pool : j > Len(pool) - errorCount}}

\* A call that began with the counter at zero and was not disturbed is the
\* only one open, has failed at the gateways that were rotated to the end and
\* at no other, and waits for the head of the list.
SoloInv ==
    \A c \in Calls :
        /\ status[c] = "idle" => tried[c] = {}
        /\ solo[c] /\ status[c] \in Open =>
              /\ \A d \in Calls : status[d] \in Open => d = c
              /\ tried[c] = Passed
              /\ status[c] = "awaiting" => target[c] = Head(pool)

RoundInv == BudgetInv /\ SoloInv

\* The entries of a rotated list.
LEMMA RotatedEntries ==
    ASSUME NEW S, NEW list \in Seq(S), list # <<>>
    PROVE  /\ DOMAIN Rotated(list) = DOMAIN list
           /\ DOMAIN list = 1..Len(list)
           /\ \A i \in 1..(Len(list) - 1) : Rotated(list)[i] = list[i + 1]
           /\ Rotated(list)[Len(list)] = Head(list)
           /\ Head(list) = list[1]
<1>1. /\ Len(list) \in Nat \ {0}
      /\ DOMAIN list = 1..Len(list)
      /\ Tail(list) \in Seq(S)
      /\ Len(Tail(list)) = Len(list) - 1
      /\ \A i \in 1..Len(Tail(list)) : Tail(list)[i] = list[i + 1]
      /\ Head(list) = list[1]
  OBVIOUS
<1>2. Head(list) \in S
  BY <1>1
<1>3. /\ DOMAIN Rotated(list) = 1..(Len(Tail(list)) + 1)
      /\ \A i \in 1..Len(Tail(list)) : Rotated(list)[i] = Tail(list)[i]
      /\ Rotated(list)[Len(Tail(list)) + 1] = Head(list)
  BY <1>1, <1>2 DEF Rotated
<1>4. QED
  BY <1>1, <1>3

\* An increment and a rotation add the head of the list to those passed.
LEMMA PassedGrows ==
    ASSUME TypeOK, BudgetBounded,
           pool' = Rotated(pool), errorCount' = errorCount + 1
    PROVE  Passed' = Passed \cup {Head(pool)}
<1> DEFINE n == Len(pool)
           k == errorCount
<1>1. /\ n \in Nat \ {0} /\ k \in Nat /\ k < n
      /\ DOMAIN pool = 1..n /\ DOMAIN pool' = 1..n
      /\ Len(pool') = n
      /\ \A i \in 1..(n - 1) : pool'[i] = pool[i + 1]
      /\ pool'[n] = Head(pool)
  BY RotatedList, RotatedEntries DEF TypeOK, BudgetBounded
<1> HIDE DEF n, k
<1>2. Passed = {pool[i] : i \in (n - k + 1)..n}
  <2>1. {j \in DOMAIN pool : j > n - k} = (n - k + 1)..n
    BY <1>1
  <2>2. QED
    BY <2>1 DEF Passed, n, k
<1>3. Passed' = {pool'[i] : i \in (n - k)..n}
  <2>1. {j \in DOMAIN pool' : j > Len(pool') - errorCount'} = (n - k)..n
    BY <1>1 DEF k
  <2>2. QED
    BY <2>1 DEF Passed
<1>4. ASSUME NEW g \in Passed PROVE g \in Passed'
  <2>1. PICK i \in (n - k + 1)..n : g = pool[i]
    BY <1>2, <1>4
  <2>2. i - 1 \in (n - k)..n /\ i - 1 \in 1..(n - 1) /\ (i - 1) + 1 = i
    BY <1>1, <2>1
  <2>3. QED
    BY <1>1, <1>3, <2>1, <2>2
<1>5. Head(pool) \in Passed'
  <2>1. n \in (n - k)..n
    BY <1>1
  <2>2. QED
    BY <1>1, <1>3, <2>1
<1>6. ASSUME NEW g \in Passed' PROVE g \in Passed \/ g = Head(pool)
  <2>1. PICK i \in (n - k)..n : g = pool'[i]
    BY <1>3, <1>6
  <2>2. CASE i = n
    BY <1>1, <2>1, <2>2
  <2>3. CASE i # n
    <3>1. i \in 1..(n - 1) /\ i + 1 \in (n - k + 1)..n
      BY <1>1, <2>1, <2>3
    <3>2. QED
      BY <1>1, <1>2, <2>1, <3>1
  <2>4. QED
    BY <2>2, <2>3
<1>7. QED
  BY <1>4, <1>5, <1>6

\* A failover at the head of the list keeps the account of a call that is
\* alone.
LEMMA SoloFailover ==
    ASSUME TypeOK, BudgetBounded, NEW c \in Calls, Failover(c, Head(pool)),
           tried[c] = Passed, status'[c] \in Open
    PROVE  tried'[c] = Passed' /\ status'[c] = "retrying"
<1>1. ~ShiftRefused(errorCount + 1)
  BY DEF Failover, Open, TypeOK
<1>2. /\ pool' = Rotated(pool)
      /\ errorCount' = errorCount + 1
      /\ status'[c] = "retrying"
      /\ tried'[c] = tried[c] \cup {Head(pool)}
  BY <1>1 DEF Failover, TypeOK
<1>3. QED
  BY <1>2, PassedGrows

\* So does an attempt: it fails over at the head of the list, or is posted
\* there.
LEMMA SoloAttempt ==
    ASSUME TypeOK, BudgetBounded, NEW c \in Calls, Attempt(c),
           tried[c] = Passed, status'[c] \in Open
    PROVE  /\ tried'[c] = Passed'
           /\ status'[c] = "awaiting" => target'[c] = Head(pool')
<1>1. CASE ~ActiveSupports(c)
  BY <1>1, SoloFailover DEF Attempt
<1>2. CASE ActiveSupports(c)
  BY <1>2 DEF Attempt, TypeOK, Passed
<1>3. QED
  BY <1>1, <1>2

\* Before the first error, no entry of the list was passed.
LEMMA NonePassed ==
    ASSUME TypeOK, errorCount = 0
    PROVE  Passed = {}
<1>1. Len(pool) \in Nat /\ DOMAIN pool = 1..Len(pool)
  BY DEF TypeOK
<1>2. {j \in DOMAIN pool : j > Len(pool) - errorCount} = {}
  BY <1>1
<1>3. QED
  BY <1>2 DEF Passed

-----------------------------------------------------------------------------
\* An attempt concerns one call, which is then no longer idle.
LEMMA AttemptOthers ==
    ASSUME TypeOK, NEW c \in Calls, Attempt(c)
    PROVE  /\ \A d \in Calls \ {c} : /\ status'[d] = status[d]
                                     /\ tried'[d] = tried[d]
                                     /\ target'[d] = target[d]
           /\ status'[c] # "idle"
  BY DEF Attempt, Failover, TypeOK

\* So does an error of the update class.
LEMMA UpdateErrorOthers ==
    ASSUME TypeOK, NEW c \in Calls, OnUpdateError(c)
    PROVE  /\ \A d \in Calls \ {c} : /\ status'[d] = status[d]
                                     /\ tried'[d] = tried[d]
           /\ status'[c] \notin {"idle", "awaiting"}
  BY DEF OnUpdateError, OnceOnlyFails, Failover, TypeOK

\* A step that ends call c, or leaves it idle, and concerns no other call.
LEMMA SoloEnds ==
    ASSUME SoloInv, NEW c \in Calls, status[c] \in Open,
           status'[c] \notin Open, status'[c] # "idle",
           \A d \in Calls \ {c} : /\ status'[d] = status[d]
                                 /\ tried'[d] = tried[d]
                                 /\ solo'[d] = solo[d]
    PROVE  SoloInv'
<1> SUFFICES ASSUME NEW d \in Calls
             PROVE  /\ status'[d] = "idle" => tried'[d] = {}
                    /\ ~(solo'[d] /\ status'[d] \in Open)
  BY DEF SoloInv
<1>1. CASE d = c
  BY <1>1
<1>2. CASE d # c
  BY <1>2 DEF SoloInv
<1>3. QED
  BY <1>1, <1>2

\* A step that keeps call c open, and with it the account if c is alone.
LEMMA SoloGoesOn ==
    ASSUME SoloInv, NEW c \in Calls, status[c] \in Open,
           status'[c] \in Open,
           \A d \in Calls \ {c} : /\ status'[d] = status[d]
                                 /\ tried'[d] = tried[d],
           solo' = solo,
           solo[c] => /\ tried'[c] = Passed'
                      /\ status'[c] = "awaiting" => target'[c] = Head(pool')
    PROVE  SoloInv'
<1> SUFFICES ASSUME NEW d \in Calls
             PROVE  /\ status'[d] = "idle" => tried'[d] = {}
                    /\ solo'[d] /\ status'[d] \in Open =>
                         /\ \A e \in Calls : status'[e] \in Open => e = d
                         /\ tried'[d] = Passed'
                         /\ status'[d] = "awaiting" => target'[d] = Head(pool')
  BY DEF SoloInv
<1>1. CASE d = c
  BY <1>1 DEF SoloInv, Open
<1>2. CASE d # c
  BY <1>2 DEF SoloInv
<1>3. QED
  BY <1>1, <1>2

\* A step of the application that disturbs every open call.
LEMMA SoloDisturbed ==
    ASSUME SoloInv, solo' = Disturbed, UNCHANGED <<status, tried>>
    PROVE  SoloInv'
  BY DEF SoloInv, Disturbed

\* Nothing was tried before the first call.
LEMMA RoundInit == Init => RoundInv
<1> SUFFICES ASSUME Init PROVE SoloInv
  BY BudgetInit DEF RoundInv
<1>1. QED
  BY DEF Init, SoloInv, Open

\* Every step keeps the account of a call that is alone.
LEMMA RoundStep == RoundInv /\ [Next]_vars => RoundInv'
<1> SUFFICES ASSUME RoundInv, [Next]_vars PROVE SoloInv'
  BY BudgetStep DEF RoundInv
<1> USE DEF RoundInv, BudgetInv
<1>1. ASSUME NEW c \in Calls, Submit(c) PROVE SoloInv'
  <2>1. /\ Attempt(c)
        /\ status[c] = "idle" /\ tried[c] = {}
        /\ solo'[c] => errorCount = 0 /\ \A d \in Calls : status[d] \notin Open
        /\ \A d \in Calls \ {c} : solo'[d] => status[d] \notin Open
    BY <1>1 DEF Submit, SoloInv, OpenCalls
  <2> SUFFICES ASSUME NEW d \in Calls
               PROVE  /\ status'[d] = "idle" => tried'[d] = {}
                      /\ solo'[d] /\ status'[d] \in Open =>
                           /\ \A e \in Calls : status'[e] \in Open => e = d
                           /\ tried'[d] = Passed'
                           /\ status'[d] = "awaiting" => target'[d] = Head(pool')
    BY DEF SoloInv
  <2>2. CASE d = c
    <3>1. ASSUME solo'[c], status'[c] \in Open
          PROVE  /\ tried'[c] = Passed'
                 /\ status'[c] = "awaiting" => target'[c] = Head(pool')
      BY <2>1, <3>1, NonePassed, SoloAttempt
    <3>2. QED
      BY <2>1, <2>2, <3>1, AttemptOthers
  <2>3. CASE d # c
    BY <2>1, <2>3, AttemptOthers DEF SoloInv
  <2>4. QED
    BY <2>2, <2>3
<1>2. ASSUME NEW c \in Calls, Retry(c) PROVE SoloInv'
  <2>1. /\ Attempt(c)
        /\ status[c] \in Open
        /\ solo' = solo
        /\ solo[c] => tried[c] = Passed
    BY <1>2 DEF Retry, SoloInv, Open
  <2>2. CASE status'[c] \in Open
    BY <2>1, <2>2, AttemptOthers, SoloAttempt, SoloGoesOn
  <2>3. CASE status'[c] \notin Open
    BY <2>1, <2>3, AttemptOthers, SoloEnds
  <2>4. QED
    BY <2>2, <2>3
<1>3. ASSUME NEW c \in Calls, Execute(c) \/ ExecuteLate(c) PROVE SoloInv'
  BY <1>3 DEF Execute, ExecuteLate, SoloInv, Passed
<1>4. ASSUME NEW c \in Calls, Answer(c) PROVE SoloInv'
  <2>1. /\ status[c] \in Open
        /\ status'[c] = "answered"
        /\ \A d \in Calls \ {c} : status'[d] = status[d]
        /\ UNCHANGED <<tried, solo>>
    BY <1>4 DEF Answer, Open, TypeOK
  <2>2. QED
    BY <2>1, SoloEnds DEF Open
<1>5. ASSUME NEW c \in Calls, UpdateError(c) \/ TimeOut(c) PROVE SoloInv'
  <2>1. /\ OnUpdateError(c)
        /\ status[c] \in Open
        /\ solo' = solo
        /\ solo[c] => tried[c] = Passed /\ target[c] = Head(pool)
    BY <1>5 DEF UpdateError, TimeOut, SoloInv, Open
  <2>2. CASE status'[c] \in Open
    <3>1. Failover(c, target[c])
      BY <2>1, <2>2 DEF OnUpdateError, OnceOnlyFails, TypeOK, Open
    <3>2. solo[c] => tried'[c] = Passed'
      BY <2>1, <2>2, <3>1, SoloFailover
    <3>3. QED
      BY <2>1, <2>2, <3>2, UpdateErrorOthers, SoloGoesOn
  <2>3. CASE status'[c] \notin Open
    BY <2>1, <2>3, UpdateErrorOthers, SoloEnds
  <2>4. QED
    BY <2>2, <2>3
<1>6. ASSUME NEW c \in Calls, OtherError(c) PROVE SoloInv'
  <2>1. /\ status[c] \in Open
        /\ status'[c] \in {"rejected", "aborted"}
        /\ \A d \in Calls \ {c} : status'[d] = status[d]
        /\ UNCHANGED <<tried, solo>>
    BY <1>6 DEF OtherError, OnceOnlyFails, Open, TypeOK
  <2>2. QED
    BY <2>1, SoloEnds DEF Open
<1>7. ASSUME NEW c \in Calls, Recycle(c) PROVE SoloInv'
  BY <1>7 DEF Recycle, SoloInv, Passed, Open, Settled, TypeOK
<1>8. CASE Refresh \/ AppShift
  BY <1>8, SoloDisturbed DEF Refresh, AppShift
<1>9. CASE Finished \/ UNCHANGED vars
  BY <1>9 DEF Finished, vars, SoloInv, Passed
<1>10. QED
  BY <1>1, <1>2, <1>3, <1>4, <1>5, <1>6, <1>7, <1>8, <1>9 DEF Next, CallNext

\* RoundInv is inductive.
LEMMA RoundInvariant == Spec => []RoundInv
<1>1. QED
  BY RoundInit, RoundStep, PTL DEF Spec

-----------------------------------------------------------------------------
\* Only a step of the call itself posts it or gives it up.
LEMMA OwnStep ==
    ASSUME TypeOK, NEW c \in Calls, [Next]_vars,
           status'[c] # status[c], status'[c] \in {"awaiting", "exhausted"}
    PROVE  Submit(c) \/ Retry(c) \/ UpdateError(c) \/ TimeOut(c)
<1>1. ASSUME NEW d \in Calls, CallNext(d)
      PROVE  Submit(c) \/ Retry(c) \/ UpdateError(c) \/ TimeOut(c)
  <2>1. CASE Submit(d) \/ Retry(d)
    <3>1. Attempt(d)
      BY <2>1 DEF Submit, Retry
    <3>2. QED
      BY <2>1, <3>1, AttemptOthers
  <2>2. CASE UpdateError(d) \/ TimeOut(d)
    <3>1. OnUpdateError(d)
      BY <2>2 DEF UpdateError, TimeOut
    <3>2. QED
      BY <2>2, <3>1, UpdateErrorOthers
  <2>3. CASE Execute(d) \/ ExecuteLate(d)
    BY <2>3 DEF Execute, ExecuteLate
  <2>4. CASE Answer(d) \/ OtherError(d) \/ Recycle(d)
    <3>1. \E s \in {"answered", "rejected", "aborted", "idle"} :
             status' = [status EXCEPT ![d] = s]
      BY <2>4 DEF Answer, OtherError, OnceOnlyFails, Recycle
    <3>2. QED
      BY <3>1 DEF TypeOK
  <2>5. QED
    BY <1>1, <2>1, <2>2, <2>3, <2>4 DEF CallNext
<1>2. CASE Refresh \/ AppShift \/ Finished \/ UNCHANGED vars
  BY <1>2 DEF Refresh, AppShift, Finished, vars
<1>3. QED
  BY <1>1, <1>2 DEF Next

\* A call that attempts or fails and is alone has failed at the gateways passed
\* and at no other; and a failover concerns the head of the list.
LEMMA OwnAccount ==
    ASSUME RoundInv, NEW c \in Calls, solo'[c],
           Submit(c) \/ Retry(c) \/ UpdateError(c) \/ TimeOut(c)
    PROVE  /\ tried[c] = Passed
           /\ UpdateError(c) \/ TimeOut(c) => target[c] = Head(pool)
<1> USE DEF RoundInv, BudgetInv
<1>1. CASE Submit(c)
  <2>1. errorCount = 0 /\ status[c] = "idle"
    BY <1>1 DEF Submit, TypeOK
  <2>2. tried[c] = Passed
    BY <2>1, NonePassed DEF SoloInv
  <2>3. ~UpdateError(c) /\ ~TimeOut(c)
    BY <2>1 DEF UpdateError, TimeOut
  <2>4. QED
    BY <2>2, <2>3
<1>2. CASE Retry(c)
  BY <1>2 DEF Retry, UpdateError, TimeOut, SoloInv, Open
<1>3. CASE UpdateError(c) \/ TimeOut(c)
  BY <1>3 DEF UpdateError, TimeOut, SoloInv, Open
<1>4. QED
  BY <1>1, <1>2, <1>3

\* A failover that is refused comes when all but the head were passed.
LEMMA LastFailover ==
    ASSUME TypeOK, BudgetBounded, NEW c \in Calls, Failover(c, Head(pool)),
           tried[c] = Passed, GivesUp(c)
    PROVE  TriedAll(c)
<1>1. /\ Len(pool) \in Nat \ {0} /\ errorCount \in Nat /\ MaxShift \in Nat
      /\ DOMAIN pool = 1..Len(pool) /\ Head(pool) = pool[1]
  BY PoolAssumption, RotatedEntries DEF TypeOK
<1>2. ShiftRefused(errorCount + 1) /\ tried'[c] = Passed \cup {Head(pool)}
  BY DEF Failover, GivesUp, TypeOK
<1>3. errorCount + 1 >= Len(pool)
  BY <1>1, <1>2 DEF ShiftRefused, GivesUp
<1>4. ASSUME NEW i \in DOMAIN pool PROVE pool[i] \in tried'[c]
  <2>1. CASE i = 1
    BY <1>1, <1>2, <2>1
  <2>2. CASE i # 1
    <3>1. i > Len(pool) - errorCount
      BY <1>1, <1>3, <2>2
    <3>2. pool[i] \in Passed
      BY <3>1 DEF Passed
    <3>3. QED
      BY <1>2, <3>2
  <2>3. QED
    BY <2>1, <2>2
<1>5. QED
  BY <1>4 DEF TriedAll

\* A call that is alone gives up only after it failed at every gateway of the
\* list: sendRequest tries each of them once.
THEOREM PoolSoloTriesEveryGateway == Spec => SoloTriesEveryGateway
<1>1. ASSUME RoundInv, [Next]_vars, NEW c \in Calls, GivesUp(c), solo'[c]
      PROVE  TriedAll(c)
  <2> USE DEF RoundInv, BudgetInv
  <2>1. Submit(c) \/ Retry(c) \/ UpdateError(c) \/ TimeOut(c)
    BY <1>1, OwnStep DEF GivesUp
  <2>2. /\ tried[c] = Passed
        /\ UpdateError(c) \/ TimeOut(c) => target[c] = Head(pool)
    BY <1>1, <2>1, OwnAccount
  <2>3. Failover(c, Head(pool))
    <3>1. CASE Submit(c) \/ Retry(c)
      <4>1. Attempt(c)
        BY <3>1 DEF Submit, Retry
      <4>2. QED
        BY <1>1, <4>1 DEF Attempt, GivesUp, TypeOK
    <3>2. CASE UpdateError(c) \/ TimeOut(c)
      <4>1. OnUpdateError(c)
        BY <3>2 DEF UpdateError, TimeOut
      <4>2. QED
        BY <1>1, <2>2, <3>2, <4>1
           DEF OnUpdateError, OnceOnlyFails, GivesUp, TypeOK
    <3>3. QED
      BY <2>1, <3>1, <3>2
  <2>4. QED
    BY <1>1, <2>2, <2>3, LastFailover
<1>2. RoundInv /\ [Next]_vars =>
         [\A c \in Calls : GivesUp(c) /\ solo'[c] => TriedAll(c)]_vars
  BY <1>1
<1>3. QED
  BY <1>2, RoundInvariant, PTL DEF Spec, SoloTriesEveryGateway

\* A call that is alone is not posted twice to a gateway that the list has
\* once.
THEOREM PoolSoloNeverReturns == Spec => SoloNeverReturns
<1>1. ASSUME RoundInv, [Next]_vars, NEW c \in Calls,
             status[c] # "awaiting", status'[c] = "awaiting", solo'[c],
             \A i, j \in DOMAIN pool : pool[i] = pool[j] => i = j
      PROVE  target'[c] \notin tried[c]
  <2> USE DEF RoundInv, BudgetInv
  <2>1. Submit(c) \/ Retry(c)
    <3>1. ~UpdateError(c) /\ ~TimeOut(c)
      BY <1>1 DEF UpdateError, TimeOut
    <3>2. QED
      BY <1>1, <3>1, OwnStep
  <2>2. tried[c] = Passed
    BY <1>1, <2>1, OwnAccount
  <2>3. target'[c] = Head(pool)
    <3>1. Attempt(c)
      BY <2>1 DEF Submit, Retry
    <3>2. QED
      BY <1>1, <3>1 DEF Attempt, Failover, TypeOK
  <2>4. /\ Len(pool) \in Nat \ {0} /\ errorCount < Len(pool)
        /\ errorCount \in Nat
        /\ DOMAIN pool = 1..Len(pool) /\ Head(pool) = pool[1]
    BY RotatedEntries, <1>1 DEF TypeOK, BudgetBounded
  <2>5. Head(pool) \notin Passed
    <3> SUFFICES ASSUME NEW i \in DOMAIN pool, i > Len(pool) - errorCount,
                        pool[i] = Head(pool)
                 PROVE  FALSE
      BY DEF Passed
    <3>1. i = 1
      BY <1>1, <2>4
    <3>2. QED
      BY <2>4, <3>1
  <2>6. QED
    BY <2>2, <2>3, <2>5
<1>2. RoundInv /\ [Next]_vars =>
         [\A c \in Calls :
             /\ status[c] # "awaiting"
             /\ status'[c] = "awaiting"
             /\ solo'[c]
             /\ \A i, j \in DOMAIN pool : pool[i] = pool[j] => i = j
             => target'[c] \notin tried[c]]_vars
  BY <1>1
<1>3. QED
  BY <1>2, RoundInvariant, PTL DEF Spec, SoloNeverReturns
=============================================================================
