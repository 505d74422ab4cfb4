---------------------------- MODULE WaiterProofs ----------------------------
(***************************************************************************)
(* The waiters keep the promise of BlockWait, for any gateways, any lag    *)
(* between them and any arguments of the calls.                            *)
(*                                                                         *)
(* The height that a call waits for is turned into a number of blocks with *)
(* the height of one gateway and back with that of another.  The invariant *)
(* follows it through both: what is missing suffices seen from every       *)
(* gateway but for the lag, the target suffices but for the lag, and no    *)
(* answer is ahead of all gateways, however late it arrives.               *)
(*                                                                         *)
(* The second part is about the estimates of BlockTimes.  A fraction with  *)
(* six windows grows if it grows within each of them and the values at the *)
(* bounds between them agree; so much is shown of both estimates, whose    *)
(* bounds are wide enough for averages that are close to each other.       *)
(***************************************************************************)
EXTENDS Waiter, BlockTimes, FiniteSetTheorems, TLAPS

MissingSuffices ==
    phase = "measuring" => \A g \in Gateways : missing + view[g] + MaxLag >= goal
TargetSuffices == phase = "polling" => target + MaxLag >= goal
AnswersAreOld == \A h \in answers : \E g \in Gateways : h <= view[g]

WaiterInv ==
    /\ TypeOK
    /\ WithinLag(view)
    /\ MissingSuffices
    /\ TargetSuffices
    /\ AnswersAreOld

\* What the assumption says of the bounds.
LEMMA BoundsAreNaturals == MaxLag \in Nat /\ MaxHeight \in Nat
<1>1. MaxLag \in {MaxLag, MaxHeight} /\ MaxHeight \in {MaxLag, MaxHeight}
  OBVIOUS
<1> QED BY <1>1, WaiterAssumption DEF WaiterAssumption

\* A height that a gateway has got is not lost, whoever gets a block.
LEMMA ViewsGrow ==
    ASSUME TypeOK, NEW g \in Gateways, Advance(g)
    PROVE  /\ view' \in [Gateways -> Heights]
           /\ \A h \in Gateways : view[h] <= view'[h]
BY BoundsAreNaturals DEF Advance, TypeOK, Heights

\* The sum of two heights is a height, and is cut at the bound only.
LEMMA PlusIsHeight ==
    ASSUME NEW a \in Nat, NEW b \in Nat
    PROVE  /\ Plus(a, b) \in Heights
           /\ Plus(a, b) <= a + b
           /\ Plus(a, b) < MaxHeight => Plus(a, b) = a + b
BY BoundsAreNaturals DEF Plus, Heights

LEMMA WaiterInit == Init => WaiterInv
<1> SUFFICES ASSUME Init PROVE WaiterInv
  OBVIOUS
<1>1. view \in [Gateways -> Heights] /\ WithinLag(view)
  BY DEF Init, WithinLag
<1>2. 0 \in Heights
  BY BoundsAreNaturals DEF Heights
<1>3. TypeOK
  BY <1>1, <1>2 DEF Init, TypeOK
<1>4. MissingSuffices /\ TargetSuffices /\ AnswersAreOld
  BY DEF Init, MissingSuffices, TargetSuffices, AnswersAreOld
<1> QED BY <1>1, <1>3, <1>4 DEF WaiterInv

LEMMA WaiterStep == WaiterInv /\ [Next]_vars => WaiterInv'
<1> SUFFICES ASSUME WaiterInv, [Next]_vars PROVE WaiterInv'
  OBVIOUS
<1> USE WaiterAssumption, BoundsAreNaturals DEF WaiterAssumption
<1>1. ASSUME NEW g \in Gateways, Advance(g) PROVE WaiterInv'
  <2>1. /\ view' \in [Gateways -> Heights]
        /\ \A h \in Gateways : view[h] <= view'[h]
    BY <1>1, ViewsGrow DEF WaiterInv
  <2>2. TypeOK' /\ WithinLag(view')
    BY <1>1, <2>1 DEF WaiterInv, TypeOK, Advance
  <2>3. MissingSuffices'
    BY <1>1, <2>1 DEF WaiterInv, TypeOK, Heights, Advance, MissingSuffices
  <2>4. TargetSuffices'
    BY <1>1 DEF WaiterInv, Advance, TargetSuffices
  <2>5. AnswersAreOld'
    <3> SUFFICES ASSUME NEW h \in answers
                 PROVE  \E k \in Gateways : h <= view'[k]
      BY <1>1 DEF Advance, AnswersAreOld
    <3>1. PICK k \in Gateways : h <= view[k]
      BY DEF WaiterInv, AnswersAreOld
    <3>2. h <= view'[k]
      BY <2>1, <3>1 DEF WaiterInv, TypeOK, Heights
    <3> QED BY <3>2
  <2> QED BY <2>2, <2>3, <2>4, <2>5 DEF WaiterInv
<1>2. ASSUME NEW n \in WaitCounts, CallWait(n) PROVE WaiterInv'
  <2>1. PICK g \in Gateways : /\ \A h \in Gateways : view[h] <= view[g]
                              /\ goal' = Plus(view[g], n)
    BY <1>2 DEF CallWait
  <2>2. n \in Nat /\ n \in Heights /\ view[g] \in Nat
    BY DEF WaiterInv, TypeOK, Heights
  <2>3. goal' \in Heights /\ goal' <= view[g] + n
    BY <2>1, <2>2, PlusIsHeight
  <2>4. TypeOK'
    BY <1>2, <2>2, <2>3 DEF WaiterInv, TypeOK, CallWait, Waiting
  <2>5. MissingSuffices'
    <3> SUFFICES ASSUME NEW h \in Gateways
                 PROVE  missing' + view'[h] + MaxLag >= goal'
      BY DEF MissingSuffices
    <3>1. view[g] <= view[h] + MaxLag /\ view[h] \in Nat
      BY DEF WaiterInv, TypeOK, Heights, WithinLag
    <3>2. missing' = n /\ view' = view
      BY <1>2 DEF CallWait
    <3> QED BY <2>2, <2>3, <3>1, <3>2 DEF Heights
  <2> QED
    BY <1>2, <2>4, <2>5
       DEF WaiterInv, CallWait, WithinLag, TargetSuffices, AnswersAreOld
<1>3. ASSUME NEW h \in UntilHeights, CallWaitUntil(h) PROVE WaiterInv'
  <2>1. h \in Heights
    BY DEF Heights
  <2> QED
    BY <1>3, <2>1
       DEF WaiterInv, TypeOK, Waiting, CallWaitUntil, WithinLag,
           MissingSuffices, TargetSuffices, AnswersAreOld
<1>4. ASSUME NEW g \in Gateways, CompareReply(g) PROVE WaiterInv'
  <2>1. view[g] \in Heights /\ goal \in Heights
    BY DEF WaiterInv, TypeOK
  <2>2. TypeOK'
    BY <1>4, <2>1 DEF WaiterInv, TypeOK, Waiting, CompareReply, Heights
  <2>3. MissingSuffices'
    <3> SUFFICES ASSUME phase' = "measuring", NEW h \in Gateways
                 PROVE  missing' + view[h] + MaxLag >= goal
      BY <1>4 DEF CompareReply, MissingSuffices
    <3>1. missing' = goal - view[g]
      BY <1>4 DEF CompareReply
    <3>2. view[g] <= view[h] + MaxLag /\ view[h] \in Nat
      BY DEF WaiterInv, TypeOK, Heights, WithinLag
    <3> QED BY <2>1, <3>1, <3>2 DEF Heights
  <2> QED
    BY <1>4, <2>2, <2>3
       DEF WaiterInv, CompareReply, WithinLag, TargetSuffices, AnswersAreOld
<1>5. ASSUME NEW g \in Gateways, MeasureReply(g) PROVE WaiterInv'
  <2>1. missing \in Nat /\ view[g] \in Nat /\ goal \in Heights
    BY DEF WaiterInv, TypeOK, Heights
  <2>2. target' = Plus(missing, view[g]) /\ target' \in Heights
    BY <1>5, <2>1, PlusIsHeight DEF MeasureReply
  <2>3. TypeOK'
    BY <1>5, <2>2 DEF WaiterInv, TypeOK, Waiting, MeasureReply
  <2>4. target' + MaxLag >= goal
    <3>1. missing + view[g] + MaxLag >= goal
      BY <1>5 DEF WaiterInv, MeasureReply, MissingSuffices
    <3>2. CASE target' < MaxHeight
      <4>1. target' = missing + view[g]
        BY <2>1, <2>2, <3>2, PlusIsHeight
      <4> QED BY <3>1, <4>1
    <3>3. CASE ~(target' < MaxHeight)
      BY <2>1, <2>2, <3>3 DEF Heights
    <3> QED BY <3>2, <3>3
  <2> QED
    BY <1>5, <2>3, <2>4
       DEF WaiterInv, MeasureReply, WithinLag, MissingSuffices, TargetSuffices,
           AnswersAreOld
<1>6. ASSUME NEW g \in Gateways, Poll(g) PROVE WaiterInv'
  <2>1. TypeOK'
    BY <1>6 DEF WaiterInv, TypeOK, Poll
  <2>2. AnswersAreOld'
    <3>1. view[g] <= view[g]
      BY DEF WaiterInv, TypeOK, Heights
    <3> QED BY <1>6, <3>1 DEF WaiterInv, Poll, AnswersAreOld
  <2> QED
    BY <1>6, <2>1, <2>2
       DEF WaiterInv, Poll, WithinLag, MissingSuffices, TargetSuffices
<1>7. ASSUME NEW h \in Heights, Arrive(h) PROVE WaiterInv'
  <2>1. TypeOK' /\ AnswersAreOld'
    BY <1>7 DEF WaiterInv, TypeOK, Arrive, AnswersAreOld
  <2>2. MissingSuffices' /\ TargetSuffices'
    BY <1>7 DEF WaiterInv, Arrive, MissingSuffices, TargetSuffices
  <2> QED BY <1>7, <2>1, <2>2 DEF WaiterInv, Arrive, WithinLag
<1>8. CASE Fail
  BY <1>8
     DEF WaiterInv, TypeOK, Fail, WithinLag, MissingSuffices, TargetSuffices,
         AnswersAreOld
<1>9. CASE UNCHANGED vars
  BY <1>9
     DEF WaiterInv, TypeOK, vars, WithinLag, MissingSuffices, TargetSuffices,
         AnswersAreOld
<1> QED
  BY <1>1, <1>2, <1>3, <1>4, <1>5, <1>6, <1>7, <1>8, <1>9 DEF Next, Finished

-----------------------------------------------------------------------------

\* A call that resolves does so when some gateway, but for the lag, has the
\* block: it compared that height, or got it in an answer.
LEMMA ResolvedIsReached ==
    ASSUME WaiterInv,
           \/ \E g \in Gateways : CompareReply(g) /\ phase' = "resolved"
           \/ \E h \in Heights : Arrive(h) /\ h >= target /\ phase = "polling"
    PROVE  Promise!Reached
<1> USE WaiterAssumption, BoundsAreNaturals DEF WaiterAssumption
<1>1. ASSUME NEW g \in Gateways, CompareReply(g), phase' = "resolved"
      PROVE  Promise!Reached
  BY <1>1 DEF WaiterInv, TypeOK, Heights, CompareReply, Promise!Reached
<1>2. ASSUME NEW h \in Heights, Arrive(h), h >= target, phase = "polling"
      PROVE  Promise!Reached
  <2>1. PICK g \in Gateways : h <= view[g]
    BY <1>2 DEF WaiterInv, Arrive, AnswersAreOld
  <2>2. target + MaxLag >= goal
    BY <1>2 DEF WaiterInv, TargetSuffices
  <2>3. view[g] + MaxLag >= goal
    BY <1>2, <2>1, <2>2 DEF WaiterInv, TypeOK, Heights
  <2> QED BY <2>3 DEF Promise!Reached
<1> QED BY <1>1, <1>2

\* Every step of a waiter is a step of the promise, or one that the caller
\* does not see.
LEMMA WaiterStepIsPromised ==
    WaiterInv /\ [Next]_vars => [Promise!WaitNext]_Promise!waitVars
<1> SUFFICES ASSUME WaiterInv, [Next]_vars
             PROVE  [Promise!WaitNext]_Promise!waitVars
  OBVIOUS
<1> USE WaiterAssumption, BoundsAreNaturals DEF WaiterAssumption, Promise!waitVars, Waiting
<1>1. ASSUME NEW g \in Gateways, Advance(g) PROVE Promise!WaitNext
  <2>1. Promise!NewBlock(g)
    BY <1>1 DEF Advance, Promise!NewBlock, WithinLag, Promise!WithinLag
  <2> QED BY <2>1 DEF Promise!WaitNext
<1>2. ASSUME NEW n \in WaitCounts, CallWait(n) PROVE Promise!WaitNext
  <2>1. PICK g \in Gateways : goal' = Plus(view[g], n)
    BY <1>2 DEF CallWait
  <2>2. n \in Nat /\ view[g] \in Nat
    BY DEF WaiterInv, TypeOK, Heights
  <2>3. goal' \in Heights
    BY <2>1, <2>2, PlusIsHeight
  <2>4. Promise!Begin(goal')
    BY <1>2 DEF CallWait, Promise!Begin
  <2> QED BY <2>3, <2>4 DEF Promise!WaitNext, Promise!Heights, Heights
<1>3. ASSUME NEW h \in UntilHeights, CallWaitUntil(h) PROVE Promise!WaitNext
  <2>1. Promise!Begin(h)
    BY <1>3 DEF CallWaitUntil, Promise!Begin
  <2> QED BY <2>1 DEF Promise!WaitNext, Promise!Heights
<1>4. ASSUME NEW g \in Gateways, CompareReply(g)
      PROVE  [Promise!WaitNext]_Promise!waitVars
  <2>1. CASE phase' = "measuring"
    BY <1>4, <2>1 DEF CompareReply
  <2>2. CASE phase' = "resolved"
    <3>1. Promise!Reached
      BY <1>4, <2>2, ResolvedIsReached
    <3>2. Promise!Resolve
      BY <1>4, <2>2, <3>1 DEF CompareReply, Promise!Resolve
    <3> QED BY <3>2 DEF Promise!WaitNext
  <2> QED BY <1>4, <2>1, <2>2 DEF CompareReply
<1>5. ASSUME NEW g \in Gateways, MeasureReply(g)
      PROVE  UNCHANGED Promise!waitVars
  BY <1>5 DEF MeasureReply
<1>6. ASSUME NEW g \in Gateways, Poll(g) PROVE UNCHANGED Promise!waitVars
  BY <1>6 DEF Poll
<1>7. ASSUME NEW h \in Heights, Arrive(h)
      PROVE  [Promise!WaitNext]_Promise!waitVars
  <2>1. CASE h >= target /\ phase = "polling"
    <3>1. Promise!Reached
      BY <1>7, <2>1, ResolvedIsReached
    <3>2. Promise!Resolve
      BY <1>7, <2>1, <3>1 DEF Arrive, Promise!Resolve
    <3> QED BY <3>2 DEF Promise!WaitNext
  <2>2. CASE ~(h >= target /\ phase = "polling")
    BY <1>7, <2>2 DEF Arrive
  <2> QED BY <2>1, <2>2
<1>8. CASE Fail
  <2>1. Promise!Reject
    BY <1>8 DEF Fail, Promise!Reject
  <2> QED BY <2>1 DEF Promise!WaitNext
<1>9. CASE UNCHANGED vars
  BY <1>9 DEF vars
<1> QED
  BY <1>1, <1>2, <1>3, <1>4, <1>5, <1>6, <1>7, <1>8, <1>9 DEF Next, Finished

-----------------------------------------------------------------------------
\* The state of the waiters keeps its type, whatever is asked of them.
THEOREM WaiterTypeCorrect == Spec => []TypeOK
<1>1. WaiterInv => TypeOK
  BY DEF WaiterInv
<1> QED BY <1>1, WaiterInit, WaiterStep, PTL DEF Spec

\* wait and waitUntil implement BlockWait: no promise resolves early by more
\* than two gateways differ, with answers in any order and from any gateway.
THEOREM WaiterImplementsBlockWait == Spec => ImplementsBlockWait
<1>1. Init => Promise!WaitInit
  BY WaiterAssumption
     DEF WaiterAssumption, Init, Promise!WaitInit, Waiting, Heights, Promise!Heights, WithinLag,
         Promise!WithinLag
<1> QED
  BY <1>1, WaiterInit, WaiterStep, WaiterStepIsPromised, PTL
     DEF Spec, ImplementsBlockWait, Promise!WaitSpec

-----------------------------------------------------------------------------
\* The sum that weighs the averages a and b in the window from B to B + W.
Interpolated(B, W, a, b, x) == (W - (x - B)) * a + (x - B) * b

\* Fractions in order have integer parts in order.
LEMMA FloorInOrder ==
    ASSUME NEW p \in Int, NEW q \in Int, NEW r \in Nat \ {0}, NEW s \in Nat \ {0},
           p * s <= q * r
    PROVE  p \div r <= q \div s
<1> DEFINE m == p \div r
           n == q \div s
<1>1. /\ m \in Int /\ n \in Int
      /\ m * r <= p /\ q < (n + 1) * s
  OBVIOUS
<1> HIDE DEF m, n
<1>2. m * r * s <= p * s
  BY <1>1
<1>3. q * r < (n + 1) * s * r
  BY <1>1
<1>4. m * (r * s) < (n + 1) * (r * s) /\ r * s \in Nat \ {0}
  BY <1>1, <1>2, <1>3
<1>5. m < n + 1
  BY <1>1, <1>4
<1> QED BY <1>1, <1>5 DEF m, n

\* A product divided by its factor.
LEMMA ExactDivision ==
    ASSUME NEW p \in Int, NEW d \in Nat \ {0}
    PROVE  (p * d) \div d = p /\ (p * d) % d = 0
<1> DEFINE n == p * d
           q == n \div d
           m == n % d
<1>1. n \in Int /\ q \in Int /\ m \in 0..(d - 1) /\ n = q * d + m
  OBVIOUS
<1> HIDE DEF q, m
<1>2. (p - q) * d = m
  BY <1>1
<1>3. p - q < 1
  BY <1>1, <1>2
<1>4. p - q > -1
  BY <1>1, <1>2
<1>5. p = q
  BY <1>1, <1>3, <1>4
<1> QED BY <1>1, <1>2, <1>5 DEF q, m

\* The fraction n / d is at most m / e.
AtMost(n, d, m, e) == n * e <= m * d

LEMMA FractionsTransitive ==
    ASSUME NEW p \in Int, NEW q \in Int, NEW v \in Int,
           NEW r \in Nat \ {0}, NEW s \in Nat \ {0}, NEW u \in Nat \ {0},
           AtMost(p, r, q, s), AtMost(q, s, v, u)
    PROVE  AtMost(p, r, v, u)
<1>1. p * s <= q * r /\ q * u <= v * s
  BY DEF AtMost
<1>2. (p * s) * u <= (q * r) * u /\ (q * u) * r <= (v * s) * r
  BY <1>1
<1>3. (p * u) * s <= (v * r) * s
  BY <1>2
<1> QED BY <1>3 DEF AtMost

\* If the first of them is less, so is the whole.
LEMMA FractionsLess ==
    ASSUME NEW p \in Int, NEW q \in Int, NEW v \in Int,
           NEW r \in Nat \ {0}, NEW s \in Nat \ {0}, NEW u \in Nat \ {0},
           p * s < q * r, AtMost(q, s, v, u)
    PROVE  p * u < v * r
<1>1. q * u <= v * s
  BY DEF AtMost
<1>2. (p * s) * u < (q * r) * u /\ (q * u) * r <= (v * s) * r
  BY <1>1
<1>3. (p * u) * s < (v * r) * s
  BY <1>2
<1> QED BY <1>3

\* Within a window the number of blocks, x / average, grows with the time x if
\* the window begins no later than at twice its width ...
LEMMA QuotientsInOrder ==
    ASSUME NEW B \in Nat, NEW W \in Nat, NEW a \in Nat, NEW b \in Nat, B <= 2 * W,
           2 * b <= 3 * a, NEW x \in B..(B + W), NEW y \in B..(B + W), x <= y
    PROVE  x * Interpolated(B, W, a, b, y) <= y * Interpolated(B, W, a, b, x)
<1>1. y * Interpolated(B, W, a, b, x) - x * Interpolated(B, W, a, b, y)
        = (y - x) * ((W + B) * a - B * b)
  BY DEF Interpolated
<1>2. B * (2 * b) <= B * (3 * a) /\ B * a <= 2 * W * a
  OBVIOUS
<1>3. (W + B) * a - B * b >= 0
  BY <1>2
<1>4. (y - x) * ((W + B) * a - B * b) >= 0
  BY <1>3
<1> QED BY <1>1, <1>4 DEF Interpolated

\* ... strictly, if it begins no later than at its width ...
LEMMA QuotientsGrow ==
    ASSUME NEW B \in Nat, NEW W \in Nat \ {0}, NEW a \in Nat \ {0}, NEW b \in Nat,
           B <= W, 2 * b <= 3 * a,
           NEW x \in B..(B + W), NEW y \in B..(B + W), x < y
    PROVE  x * Interpolated(B, W, a, b, y) < y * Interpolated(B, W, a, b, x)
<1>1. y * Interpolated(B, W, a, b, x) - x * Interpolated(B, W, a, b, y)
        = (y - x) * ((W + B) * a - B * b)
  BY DEF Interpolated
<1>2. B * (2 * b) <= B * (3 * a) /\ B * a <= W * a /\ W * a > 0
  OBVIOUS
<1>3. (W + B) * a - B * b > 0
  BY <1>2
<1>4. (y - x) * ((W + B) * a - B * b) > 0
  BY <1>3
<1> QED BY <1>1, <1>4 DEF Interpolated

\* ... and the time, x * average, with the number of blocks x, if the window is
\* as wide as what lies below it.
LEMMA ProductsInOrder ==
    ASSUME NEW B \in Nat, NEW W \in Nat, NEW a \in Nat, NEW b \in Nat, B <= W,
           2 * a <= 3 * b, NEW x \in B..(B + W), NEW y \in B..(B + W), x <= y
    PROVE  x * Interpolated(B, W, a, b, x) <= y * Interpolated(B, W, a, b, y)
<1> DEFINE k == B + (x - B) + (y - B)
<1>1. y * Interpolated(B, W, a, b, y) - x * Interpolated(B, W, a, b, x)
        = (y - x) * (W * a + k * (b - a))
  BY DEF Interpolated
<1>2. k \in Nat /\ k <= 3 * W
  OBVIOUS
<1> HIDE DEF k
<1>3. 3 * (b - a) >= - a
  OBVIOUS
<1>4. W * a + k * (b - a) >= 0
  <2>1. CASE b >= a
    BY <1>2, <2>1
  <2>2. CASE b < a
    <3>1. a - b \in Nat
      BY <2>2
    <3>2. k * (a - b) <= 3 * W * (a - b)
      BY <1>2, <3>1
    <3>3. W * (3 * (a - b)) <= W * a
      BY <1>3
    <3> QED BY <1>2, <3>2, <3>3
  <2> QED BY <2>1, <2>2
<1>5. (y - x) * (W * a + k * (b - a)) >= 0
  BY <1>2, <1>4
<1> QED BY <1>1, <1>2, <1>5 DEF Interpolated

\* The average at the lower bound of a window.
Rate(w) == Known(IF w = 0 THEN 1 ELSE w)

\* The number of the bounds passed is the number of the last bound passed.
LEMMA CountUpTo ==
    ASSUME NEW S \in SUBSET (1..5), \A i \in S, j \in 1..5 : j <= i => j \in S
    PROVE  Cardinality(S) \in 0..5 /\ \A i \in 1..5 : i \in S <=> i <= Cardinality(S)
<1>1. ASSUME NEW k \in 0..5 PROVE Cardinality(1..k) = k
  <2>1. Cardinality(1..k) = IF 1 > k THEN 0 ELSE k - 1 + 1
    BY FS_Interval
  <2> QED BY <2>1
<1>2. \E k \in 0..5 : S = 1..k
  <2>1. ASSUME NEW k \in 0..5, k = 0 \/ k \in S, k = 5 \/ k + 1 \notin S
        PROVE  S = 1..k
    <3>1. \A i \in S : i \in 1..5 /\ i <= k
      BY <2>1
    <3>2. \A i \in 1..5 : i <= k => i \in S
      BY <2>1
    <3>3. \A i \in S : i \in 1..k
      BY <3>1
    <3>4. \A i \in 1..k : i \in S
      BY <3>2
    <3> QED BY <3>3, <3>4
  <2>2. \E k \in 0..5 : (k = 0 \/ k \in S) /\ (k = 5 \/ k + 1 \notin S)
    <3>1. (1 \notin S) \/ (1 \in S /\ 2 \notin S) \/ (2 \in S /\ 3 \notin S)
            \/ (3 \in S /\ 4 \notin S) \/ (4 \in S /\ 5 \notin S) \/ 5 \in S
      OBVIOUS
    <3>2. 0 + 1 = 1 /\ 1 + 1 = 2 /\ 2 + 1 = 3 /\ 3 + 1 = 4 /\ 4 + 1 = 5
      OBVIOUS
    <3> QED BY <3>1, <3>2
  <2> QED BY <2>1, <2>2
<1>3. PICK k \in 0..5 : S = 1..k
  BY <1>2
<1>4. Cardinality(S) = k
  BY <1>1, <1>3
<1> QED BY <1>3, <1>4

\* An unknown average is that of the window before, the first the default.
LEMMA KnownIs ==
    ASSUME NEW w \in 1..5, \A i \in 1..5 : blockTimes[i] \in Nat
    PROVE  /\ blockTimes[w] > 0 => Known(w) = blockTimes[w]
           /\ blockTimes[w] = 0 => Known(w) = IF w = 1 THEN 6 ELSE Known(w - 1)
<1> DEFINE K(v) == {i \in 1..v : blockTimes[i] > 0}
<1>1. ASSUME NEW v \in 0..5 PROVE
        Known(v) = IF K(v) = {} THEN 6
                   ELSE blockTimes[CHOOSE i \in K(v) : \A j \in K(v) : j <= i]
  BY DEF Known, DefaultTime
<1>2. CASE blockTimes[w] > 0
  <2>1. w \in K(w) /\ \A j \in K(w) : j \in Int /\ j <= w
    BY <1>2
  <2> HIDE DEF K
  <2>2. (CHOOSE i \in K(w) : \A j \in K(w) : j <= i) = w
    BY <2>1
  <2> QED BY <1>1, <1>2, <2>1, <2>2
<1>3. CASE blockTimes[w] = 0
  <2>1. K(w) = K(w - 1)
    BY <1>3
  <2>2. w = 1 => K(w) = {}
    BY <1>3
  <2> HIDE DEF K
  <2>3. w \in 0..5 /\ w - 1 \in 0..5
    OBVIOUS
  <2>4. CASE w = 1
    BY <1>1, <1>3, <2>2, <2>4
  <2>5. CASE w # 1
    <3>1. Known(w) = IF K(w) = {} THEN 6
                     ELSE blockTimes[CHOOSE i \in K(w) : \A j \in K(w) : j <= i]
      BY <1>1, <2>3
    <3>2. Known(w - 1) = IF K(w - 1) = {} THEN 6
                         ELSE blockTimes[CHOOSE i \in K(w - 1) : \A j \in K(w - 1) : j <= i]
      BY <1>1, <2>3
    <3>3. Known(w) = Known(w - 1)
      BY <2>1, <3>1, <3>2
    <3> QED BY <1>3, <2>5, <3>3
  <2> QED BY <2>4, <2>5
<1> QED BY <1>2, <1>3

\* On a steady chain no average exceeds another by more than half, and where one
\* of two is unknown they are the same.
LEMMA RatesAreClose ==
    ASSUME Steady, \A i \in 1..5 : blockTimes[i] \in Nat
    PROVE  /\ \A w \in 0..5 : Rate(w) \in Nat \ {0}
           /\ \A v, w \in 0..5 : 2 * Rate(v) <= 3 * Rate(w)
           /\ Rate(0) = Rate(1)
           /\ \A w \in 1..4 : ~(blockTimes[w] > 0 /\ blockTimes[w + 1] > 0) =>
                                 Rate(w + 1) = Rate(w)
           /\ \A w \in 1..5 : blockTimes[w] > 0 => Rate(w) = blockTimes[w]
<1>1. \A w \in 1..5 : Rate(w) = Known(w)
  BY DEF Rate
<1>2. Rate(0) = Rate(1)
  BY DEF Rate
<1>3. \A i, j \in 1..5 : i < j /\ blockTimes[i] = 0 => blockTimes[j] = 0
  BY DEF Steady, Windows
<1>4. \A i, j \in 1..5 : blockTimes[i] > 0 => 2 * blockTimes[j] <= 3 * blockTimes[i]
  BY DEF Steady, Windows
<1>5. \A w \in 1..5 : blockTimes[w] > 0 => Rate(w) = blockTimes[w]
  BY <1>1, KnownIs
<1>6. ASSUME NEW w \in 1..4, ~(blockTimes[w] > 0 /\ blockTimes[w + 1] > 0)
      PROVE  Rate(w + 1) = Rate(w)
  <2>1. blockTimes[w + 1] = 0 /\ w + 1 \in 1..5 /\ w + 1 # 1 /\ (w + 1) - 1 = w
    BY <1>3, <1>6
  <2>2. Known(w + 1) = Known(w)
    BY <2>1, KnownIs
  <2> QED BY <1>1, <2>1, <2>2
<1>7. CASE blockTimes[1] = 0
  <2>1. Rate(1) = 6
    BY <1>1, <1>7, KnownIs
  <2>2. \A w \in 1..4 : Rate(w + 1) = Rate(w)
    BY <1>3, <1>6, <1>7
  <2>3. Rate(2) = 6 /\ Rate(3) = 6 /\ Rate(4) = 6 /\ Rate(5) = 6
    <3>1. Rate(1 + 1) = Rate(1) /\ Rate(2 + 1) = Rate(2) /\ Rate(3 + 1) = Rate(3)
          /\ Rate(4 + 1) = Rate(4)
      BY <2>2
    <3>2. 1 + 1 = 2 /\ 2 + 1 = 3 /\ 3 + 1 = 4 /\ 4 + 1 = 5
      OBVIOUS
    <3> QED BY <2>1, <3>1, <3>2
  <2>4. \A w \in 0..5 : w = 0 \/ w = 1 \/ w = 2 \/ w = 3 \/ w = 4 \/ w = 5
    OBVIOUS
  <2>5. \A w \in 0..5 : Rate(w) = 6
    BY <1>2, <2>1, <2>3, <2>4
  <2> QED BY <1>2, <1>5, <1>6, <2>5
<1>8. CASE blockTimes[1] > 0
  <2> DEFINE P(w) == \E i \in 1..5 : blockTimes[i] > 0 /\ Rate(w) = blockTimes[i]
  <2>1. P(1) /\ P(0)
    BY <1>2, <1>5, <1>8
  <2>2. ASSUME NEW w \in 1..4, P(w) PROVE P(w + 1)
    BY <1>5, <1>6, <2>2
  <2> HIDE DEF P
  <2>3. P(2) /\ P(3) /\ P(4) /\ P(5)
    <3>1. P(1 + 1)
      BY <2>1, <2>2
    <3>2. P(2 + 1)
      BY <3>1, <2>2
    <3>3. P(3 + 1)
      BY <3>2, <2>2
    <3>4. P(4 + 1)
      BY <3>3, <2>2
    <3> QED BY <3>1, <3>2, <3>3, <3>4
  <2>4. ASSUME NEW w \in 0..5 PROVE P(w)
    BY <2>1, <2>3
  <2>5. \A v, w \in 0..5 : 2 * Rate(v) <= 3 * Rate(w)
    BY <1>4, <2>4 DEF P
  <2>6. \A w \in 0..5 : Rate(w) \in Nat \ {0}
    BY <2>4 DEF P
  <2> QED BY <1>2, <1>5, <1>6, <2>5, <2>6
<1> QED BY <1>7, <1>8

\* Fractions with six windows, and values at the five bounds between them: the
\* fractions grow within each window, from below and up to the next bound.
Typed(window, num, den, numAt, denAt) ==
    /\ \A x \in Nat : window[x] \in 0..5 /\ num[x] \in Nat /\ den[x] \in Nat \ {0}
    /\ \A k \in 1..5 : numAt[k] \in Nat /\ denAt[k] \in Nat \ {0}
WindowsGrow(window) == \A x, y \in Nat : x <= y => window[x] <= window[y]
GrowsWithin(window, num, den) ==
    \A x, y \in Nat :
        x <= y /\ window[x] = window[y] => AtMost(num[x], den[x], num[y], den[y])
AboveLower(window, num, den, numAt, denAt) ==
    \A x \in Nat, k \in 1..5 : window[x] = k => AtMost(numAt[k], denAt[k], num[x], den[x])
BelowUpper(window, num, den, numAt, denAt) ==
    \A x \in Nat, k \in 1..5 :
        window[x] = k - 1 => AtMost(num[x], den[x], numAt[k], denAt[k])
BoundsGrow(numAt, denAt) ==
    \A k \in 1..4 : AtMost(numAt[k], denAt[k], numAt[k + 1], denAt[k + 1])

\* Such fractions grow from window to window.
LEMMA ChainInOrder ==
    ASSUME NEW window, NEW num, NEW den, NEW numAt, NEW denAt,
           Typed(window, num, den, numAt, denAt), WindowsGrow(window),
           GrowsWithin(window, num, den), AboveLower(window, num, den, numAt, denAt),
           BelowUpper(window, num, den, numAt, denAt), BoundsGrow(numAt, denAt)
    PROVE  \A x, y \in Nat : x <= y => AtMost(num[x], den[x], num[y], den[y])
<1> DEFINE Below(k) == \A x \in Nat :
                          window[x] < k => AtMost(num[x], den[x], numAt[k], denAt[k])
<1>0. /\ \A x \in Nat : num[x] \in Int /\ den[x] \in Nat \ {0} /\ window[x] \in 0..5
      /\ \A k \in 1..5 : numAt[k] \in Int /\ denAt[k] \in Nat \ {0}
  BY DEF Typed
<1>1. Below(1)
  <2> SUFFICES ASSUME NEW x \in Nat, window[x] < 1
               PROVE  AtMost(num[x], den[x], numAt[1], denAt[1])
    OBVIOUS
  <2>1. window[x] = 1 - 1 /\ 1 \in 1..5
    BY <1>0
  <2> QED BY <2>1 DEF BelowUpper
<1>2. ASSUME NEW k \in 1..4, Below(k) PROVE Below(k + 1)
  <2> SUFFICES ASSUME NEW x \in Nat, window[x] < k + 1
               PROVE  AtMost(num[x], den[x], numAt[k + 1], denAt[k + 1])
    OBVIOUS
  <2>1. k \in 1..5 /\ k + 1 \in 1..5 /\ (k + 1) - 1 = k
    OBVIOUS
  <2>2. CASE window[x] = k
    <3>1. window[x] = (k + 1) - 1
      BY <2>1, <2>2
    <3> QED BY <2>1, <3>1 DEF BelowUpper
  <2>3. CASE window[x] < k
    <3>1. AtMost(num[x], den[x], numAt[k], denAt[k])
      BY <1>2, <2>3
    <3>2. AtMost(numAt[k], denAt[k], numAt[k + 1], denAt[k + 1])
      BY DEF BoundsGrow
    <3>3. /\ num[x] \in Int /\ numAt[k] \in Int /\ numAt[k + 1] \in Int
          /\ den[x] \in Nat \ {0} /\ denAt[k] \in Nat \ {0} /\ denAt[k + 1] \in Nat \ {0}
      BY <1>0, <2>1
    <3> DEFINE N == numAt[k + 1]
               D == denAt[k + 1]
    <3>4. AtMost(numAt[k], denAt[k], N, D) /\ N \in Int /\ D \in Nat \ {0}
      BY <3>2, <3>3
    <3> HIDE DEF N, D, Below
    <3>5. AtMost(num[x], den[x], N, D)
      BY <3>1, <3>3, <3>4, FractionsTransitive
    <3> QED BY <3>5 DEF N, D
  <2>4. window[x] \in Int /\ k \in Int
    BY <1>0
  <2> QED BY <2>2, <2>3, <2>4
<1> HIDE DEF Below
<1>3. ASSUME NEW k \in 1..5 PROVE Below(k)
  <2>1. Below(1 + 1)
    BY <1>1, <1>2
  <2>2. Below(2 + 1)
    BY <1>2, <2>1
  <2>3. Below(3 + 1)
    BY <1>2, <2>2
  <2>4. Below(4 + 1)
    BY <1>2, <2>3
  <2>5. k = 1 \/ k = 1 + 1 \/ k = 2 + 1 \/ k = 3 + 1 \/ k = 4 + 1
    OBVIOUS
  <2> QED BY <1>1, <2>1, <2>2, <2>3, <2>4, <2>5
<1> SUFFICES ASSUME NEW x \in Nat, NEW y \in Nat, x <= y
             PROVE  AtMost(num[x], den[x], num[y], den[y])
  OBVIOUS
<1>4. CASE window[x] = window[y]
  BY <1>4 DEF GrowsWithin
<1>5. CASE window[x] < window[y]
  <2>1. PICK k \in 1..5 : window[y] = k /\ window[x] < k
    BY <1>0, <1>5
  <2>2. AtMost(num[x], den[x], numAt[k], denAt[k])
    BY <1>3, <2>1 DEF Below
  <2>3. AtMost(numAt[k], denAt[k], num[y], den[y])
    BY <2>1 DEF AboveLower
  <2>4. /\ num[x] \in Int /\ numAt[k] \in Int /\ num[y] \in Int
        /\ den[x] \in Nat \ {0} /\ denAt[k] \in Nat \ {0} /\ den[y] \in Nat \ {0}
    BY <1>0
  <2> QED BY <2>2, <2>3, <2>4, FractionsTransitive
<1>6. window[x] <= window[y] /\ window[x] \in Int /\ window[y] \in Int
  BY <1>0 DEF WindowsGrow
<1> QED BY <1>4, <1>5, <1>6

\* Bounds of windows, each of which is as wide as what lies below it.
Widening(bounds) ==
    /\ \A i \in 1..5 : bounds[i] \in Nat \ {0}
    /\ \A i \in 1..4 : 2 * bounds[i] <= bounds[i + 1]
Within(x, w, bounds) ==
    /\ w > 0 => bounds[w] <= x
    /\ w < 5 => x <= bounds[w + 1]

Num(x, w, bounds) == Average(x, w, bounds).num
Den(x, w, bounds) == Average(x, w, bounds).den

\* Both cases of Average in terms of the averages at the bounds.
LEMMA AverageIs ==
    ASSUME Steady, \A i \in 1..5 : blockTimes[i] \in Nat,
           NEW bounds, Widening(bounds), NEW x \in Nat, NEW w \in 0..5
    PROVE  /\ Weighed(w) =>
                /\ Num(x, w, bounds) = Interpolated(bounds[w], bounds[w + 1] - bounds[w],
                                                    Rate(w), Rate(w + 1), x)
                /\ Den(x, w, bounds) = bounds[w + 1] - bounds[w]
           /\ ~Weighed(w) => /\ Num(x, w, bounds) = Rate(w) /\ Den(x, w, bounds) = 1
                             /\ w < 5 => Rate(w + 1) = Rate(w)
<1>1. CASE Weighed(w)
  <2>1. w \in 1..5 /\ w + 1 \in 1..5
    BY <1>1 DEF Weighed
  <2>2. Rate(w) = blockTimes[w] /\ Rate(w + 1) = blockTimes[w + 1]
    BY <1>1, <2>1, RatesAreClose DEF Weighed
  <2> QED BY <1>1, <2>2 DEF Weighed, Num, Den, Average, Interpolated
<1>2. CASE ~Weighed(w)
  <2>1. Num(x, w, bounds) = Rate(w) /\ Den(x, w, bounds) = 1
    BY <1>2 DEF Weighed, Num, Den, Average, Rate
  <2>2. ASSUME w < 5 PROVE Rate(w + 1) = Rate(w)
    <3>1. CASE w = 0
      BY <3>1, RatesAreClose
    <3>2. CASE w # 0
      <4>1. w \in 1..4
        BY <2>2, <3>2
      <4> QED BY <1>2, <4>1, RatesAreClose DEF Weighed
    <3> QED BY <3>1, <3>2
  <2> QED BY <1>2, <2>1, <2>2
<1> QED BY <1>1, <1>2

\* At the ends of a window one average counts, between them the sum is positive.
LEMMA InterpolatedEnds ==
    ASSUME NEW B \in Nat, NEW W \in Nat \ {0}, NEW a \in Nat \ {0}, NEW b \in Nat \ {0}
    PROVE  /\ Interpolated(B, W, a, b, B) = W * a
           /\ Interpolated(B, W, a, b, B + W) = W * b
           /\ \A x \in B..(B + W) : Interpolated(B, W, a, b, x) \in Nat \ {0}
<1>1. ASSUME NEW x \in B..(B + W) PROVE Interpolated(B, W, a, b, x) \in Nat \ {0}
  <2>1. W - (x - B) \in Nat /\ x - B \in Nat
    OBVIOUS
  <2>2. (W - (x - B)) * a \in Nat /\ (x - B) * b \in Nat
    BY <2>1
  <2>3. W - (x - B) > 0 => (W - (x - B)) * a > 0
    BY <2>1
  <2>4. x - B > 0 => (x - B) * b > 0
    BY <2>1
  <2> QED BY <2>1, <2>2, <2>3, <2>4 DEF Interpolated
<1>2. Interpolated(B, W, a, b, B) = W * a /\ Interpolated(B, W, a, b, B + W) = W * b
  BY DEF Interpolated
<1> QED BY <1>1, <1>2

\* What ChainInOrder asks of one window, for x / average and x * average.
LEMMA AverageInWindow ==
    ASSUME Steady, \A i \in 1..5 : blockTimes[i] \in Nat,
           NEW bounds, Widening(bounds),
           NEW x \in Nat, NEW w \in 0..5, Within(x, w, bounds)
    PROVE  /\ Num(x, w, bounds) \in Nat \ {0} /\ Den(x, w, bounds) \in Nat \ {0}
           /\ w > 0 =>
                /\ bounds[w] * Num(x, w, bounds) <= (x * Den(x, w, bounds)) * Rate(w)
                /\ (bounds[w] * Rate(w)) * Den(x, w, bounds) <= x * Num(x, w, bounds)
           /\ w < 5 =>
                /\ (x * Den(x, w, bounds)) * Rate(w + 1) <= bounds[w + 1] * Num(x, w, bounds)
                /\ x * Num(x, w, bounds) <= (bounds[w + 1] * Rate(w + 1)) * Den(x, w, bounds)
           /\ \A y \in Nat : Within(y, w, bounds) /\ x <= y =>
                /\ (x * Den(x, w, bounds)) * Num(y, w, bounds)
                     <= (y * Den(y, w, bounds)) * Num(x, w, bounds)
                /\ (x * Num(x, w, bounds)) * Den(y, w, bounds)
                     <= (y * Num(y, w, bounds)) * Den(x, w, bounds)
<1>1. Rate(w) \in Nat \ {0} /\ (w > 0 => bounds[w] \in Nat \ {0})
      /\ (w < 5 => bounds[w + 1] \in Nat \ {0} /\ Rate(w + 1) \in Nat \ {0})
  BY RatesAreClose DEF Widening
<1>2. CASE Weighed(w)
  <2> DEFINE B == bounds[w]
             W == bounds[w + 1] - bounds[w]
             a == Rate(w)
             b == Rate(w + 1)
             I(y) == Interpolated(B, W, a, b, y)
  <2>1. w \in 1..4 /\ w + 1 \in 0..5
    BY <1>2 DEF Weighed
  <2>2. /\ B \in Nat \ {0} /\ W \in Nat \ {0} /\ B <= W /\ bounds[w + 1] = B + W
    BY <1>1, <2>1 DEF Widening
  <2>3. /\ a \in Nat \ {0} /\ b \in Nat \ {0} /\ 2 * b <= 3 * a /\ 2 * a <= 3 * b
    BY <1>1, <2>1, RatesAreClose
  <2>4. ASSUME NEW y \in Nat, Within(y, w, bounds)
        PROVE  /\ Num(y, w, bounds) = I(y) /\ Den(y, w, bounds) = W /\ y \in B..(B + W)
               /\ I(y) \in Nat \ {0}
    <3>1. y \in B..(B + W)
      BY <2>1, <2>2, <2>4 DEF Within
    <3>2. Num(y, w, bounds) = I(y) /\ Den(y, w, bounds) = W
      BY <1>2, AverageIs
    <3>3. I(y) \in Nat \ {0}
      BY <2>2, <2>3, <3>1, InterpolatedEnds
    <3> QED BY <3>1, <3>2, <3>3
  <2>5. I(B) = W * a /\ I(B + W) = W * b
    <3>1. B \in Nat
      BY <2>2
    <3> HIDE DEF B, W, a, b
    <3>2. W \in Nat \ {0} /\ a \in Nat \ {0} /\ b \in Nat \ {0}
      BY <2>2, <2>3
    <3>3. Interpolated(B, W, a, b, B) = W * a
      BY <3>1, <3>2, InterpolatedEnds
    <3>4. Interpolated(B, W, a, b, B + W) = W * b
      BY <3>1, <3>2, InterpolatedEnds
    <3> QED BY <3>3, <3>4
  <2>6. ASSUME NEW y \in B..(B + W), NEW z \in B..(B + W), y <= z
        PROVE  y * I(z) <= z * I(y) /\ y * I(y) <= z * I(z)
    <3>1. B \in Nat /\ W \in Nat /\ a \in Nat /\ b \in Nat /\ B <= 2 * W
      BY <2>2, <2>3
    <3> QED BY <2>2, <2>3, <2>6, <3>1, QuotientsInOrder, ProductsInOrder
  <2>7. B \in B..(B + W) /\ B + W \in B..(B + W)
    BY <2>2
  <2>8. x \in B..(B + W) /\ B <= x /\ x <= B + W
    BY <2>2, <2>4
  <2>9. B * I(x) <= x * (W * a) /\ B * (W * a) <= x * I(x)
    BY <2>5, <2>6, <2>7, <2>8
  <2>10. x * (W * b) <= (B + W) * I(x) /\ x * I(x) <= (B + W) * (W * b)
    BY <2>5, <2>6, <2>7, <2>8
  <2> HIDE DEF B, W, a, b, I
  <2>11. B * I(x) <= (x * W) * a /\ (B * a) * W <= x * I(x)
    BY <2>2, <2>3, <2>9
  <2>12. (x * W) * b <= (B + W) * I(x) /\ x * I(x) <= ((B + W) * b) * W
    BY <2>2, <2>3, <2>10
  <2>13. ASSUME NEW y \in Nat, Within(y, w, bounds), x <= y
         PROVE  (x * W) * I(y) <= (y * W) * I(x) /\ (x * I(x)) * W <= (y * I(y)) * W
    <3>1. x * I(y) <= y * I(x) /\ x * I(x) <= y * I(y) /\ I(x) \in Nat /\ I(y) \in Nat
      BY <2>4, <2>6, <2>13
    <3>2. W * (x * I(y)) <= W * (y * I(x)) /\ W * (x * I(x)) <= W * (y * I(y))
      BY <2>2, <3>1
    <3> QED BY <2>2, <3>1, <3>2
  <2> QED BY <2>2, <2>4, <2>11, <2>12, <2>13 DEF B, a, b
<1>3. CASE ~Weighed(w)
  <2>1. \A y \in Nat : Num(y, w, bounds) = Rate(w) /\ Den(y, w, bounds) = 1
    BY <1>3, AverageIs
  <2>2. w < 5 => Rate(w + 1) = Rate(w)
    BY <1>3, AverageIs
  <2> DEFINE c == Rate(w)
  <2>3. \A y, z \in Nat : y <= z => y * c <= z * c /\ (y * 1) * c = y * c /\ (y * c) * 1 = y * c
                                    /\ (z * 1) * c = z * c /\ (z * c) * 1 = z * c
    <3>1. c \in Nat
      BY <1>1
    <3> HIDE DEF c
    <3> QED BY <3>1
  <2>4. w > 0 => bounds[w] \in Nat /\ bounds[w] <= x
    BY <1>1 DEF Within
  <2>5. w < 5 => bounds[w + 1] \in Nat /\ x <= bounds[w + 1]
    BY <1>1 DEF Within
  <2> QED BY <1>1, <2>1, <2>2, <2>3, <2>4, <2>5
<1> QED BY <1>2, <1>3

\* Within a window the number of blocks grows strictly, and so it does up to the
\* upper bound.
LEMMA QuotientsGrowInWindow ==
    ASSUME Steady, \A i \in 1..5 : blockTimes[i] \in Nat,
           NEW bounds, Widening(bounds), NEW w \in 0..5,
           NEW x \in Nat, Within(x, w, bounds)
    PROVE  /\ \A y \in Nat : Within(y, w, bounds) /\ x < y =>
                (x * Den(x, w, bounds)) * Num(y, w, bounds)
                  < (y * Den(y, w, bounds)) * Num(x, w, bounds)
           /\ w < 5 /\ x < bounds[w + 1] =>
                (x * Den(x, w, bounds)) * Rate(w + 1) < bounds[w + 1] * Num(x, w, bounds)
<1>1. Rate(w) \in Nat \ {0} /\ (w > 0 => bounds[w] \in Nat \ {0})
      /\ (w < 5 => bounds[w + 1] \in Nat \ {0} /\ Rate(w + 1) \in Nat \ {0})
  BY RatesAreClose DEF Widening
<1>2. CASE Weighed(w)
  <2> DEFINE B == bounds[w]
             W == bounds[w + 1] - bounds[w]
             a == Rate(w)
             b == Rate(w + 1)
             I(y) == Interpolated(B, W, a, b, y)
  <2>1. w \in 1..4 /\ w + 1 \in 0..5
    BY <1>2 DEF Weighed
  <2>2. B \in Nat \ {0} /\ W \in Nat \ {0} /\ B <= W /\ bounds[w + 1] = B + W
    BY <1>1, <2>1 DEF Widening
  <2>3. a \in Nat \ {0} /\ b \in Nat \ {0} /\ 2 * b <= 3 * a
    BY <1>1, <2>1, RatesAreClose
  <2>4. ASSUME NEW y \in Nat, Within(y, w, bounds)
        PROVE  /\ Num(y, w, bounds) = I(y) /\ Den(y, w, bounds) = W /\ y \in B..(B + W)
               /\ I(y) \in Nat \ {0}
    <3>1. y \in B..(B + W)
      BY <2>1, <2>2, <2>4 DEF Within
    <3>2. Num(y, w, bounds) = I(y) /\ Den(y, w, bounds) = W
      BY <1>2, AverageIs
    <3>3. I(y) \in Nat \ {0}
      BY <2>2, <2>3, <3>1, InterpolatedEnds
    <3> QED BY <3>1, <3>2, <3>3
  <2>5. ASSUME NEW y \in B..(B + W), x < y PROVE x * I(y) < y * I(x)
    <3>1. B \in Nat /\ b \in Nat /\ x \in B..(B + W)
      BY <2>2, <2>3, <2>4
    <3> HIDE DEF B, W, a, b
    <3> QED BY <2>2, <2>3, <2>5, <3>1, QuotientsGrow
  <2>6. I(B + W) = W * b
    <3>1. B \in Nat
      BY <2>2
    <3> HIDE DEF B, W, a, b
    <3> QED BY <2>2, <2>3, <3>1, InterpolatedEnds
  <2>7. B + W \in B..(B + W)
    BY <2>2
  <2>8. x < B + W => x * (W * b) < (B + W) * I(x)
    BY <2>5, <2>6, <2>7
  <2>9. Num(x, w, bounds) = I(x) /\ Den(x, w, bounds) = W
    BY <2>4
  <2> HIDE DEF B, W, a, b, I
  <2>10. x < B + W => (x * W) * b < (B + W) * I(x)
    BY <2>2, <2>3, <2>8
  <2>11. ASSUME NEW y \in Nat, Within(y, w, bounds), x < y
         PROVE  (x * W) * I(y) < (y * W) * I(x)
    <3>1. x * I(y) < y * I(x) /\ I(x) \in Nat /\ I(y) \in Nat
      BY <2>4, <2>5, <2>11
    <3>2. W * (x * I(y)) < W * (y * I(x))
      BY <2>2, <3>1
    <3> QED BY <2>2, <3>1, <3>2
  <2>12. ASSUME NEW y \in Nat, Within(y, w, bounds), x < y
         PROVE  (x * Den(x, w, bounds)) * Num(y, w, bounds)
                  < (y * Den(y, w, bounds)) * Num(x, w, bounds)
    BY <2>4, <2>9, <2>11, <2>12
  <2>13. x < bounds[w + 1] =>
           (x * Den(x, w, bounds)) * Rate(w + 1) < bounds[w + 1] * Num(x, w, bounds)
    BY <2>2, <2>9, <2>10 DEF b
  <2> QED BY <2>12, <2>13
<1>3. CASE ~Weighed(w)
  <2>1. \A y \in Nat : Num(y, w, bounds) = Rate(w) /\ Den(y, w, bounds) = 1
    BY <1>3, AverageIs
  <2>2. w < 5 => Rate(w + 1) = Rate(w)
    BY <1>3, AverageIs
  <2> DEFINE c == Rate(w)
  <2>3. \A y \in Nat : x < y => (x * 1) * c < (y * 1) * c /\ (x * 1) * c < y * c
    <3>1. c \in Nat \ {0}
      BY <1>1
    <3> HIDE DEF c
    <3> QED BY <3>1
  <2> QED BY <1>1, <2>1, <2>2, <2>3
<1> QED BY <1>2, <1>3

\* The bounds of the code are such bounds.
LEMMA BoundsWiden == Widening(DateBounds) /\ Widening(BlockBounds)
BY DEF Widening, DateBounds, BlockBounds

\* The window of a difference tells on which side of each bound it lies.
LEMMA DateWindows ==
    ASSUME NEW x \in Int
    PROVE  /\ DateWindow(x) \in 0..5
           /\ \A i \in 1..5 : DateBounds[i] <= x <=> i <= DateWindow(x)
<1> DEFINE S == {i \in 1..5 : x >= DateBounds[i]}
<1>1. /\ DateBounds[1] = 30 /\ DateBounds[2] = 300 /\ DateBounds[3] = 1800
      /\ DateBounds[4] = 10800 /\ DateBounds[5] = 43200
  BY DEF DateBounds
<1>2. \A i, j \in 1..5 : j <= i => DateBounds[j] <= DateBounds[i]
  BY <1>1
<1>3. \A i \in 1..5 : DateBounds[i] \in Int
  BY <1>1
<1>4. S \in SUBSET (1..5) /\ \A i \in S, j \in 1..5 : j <= i => j \in S
  BY <1>2, <1>3
<1>5. \A i \in 1..5 : DateBounds[i] <= x <=> i \in S
  BY <1>3
<1>6. DateWindow(x) = Cardinality(S)
  BY DEF DateWindow, Windows
<1> HIDE DEF S
<1> QED BY <1>4, <1>5, <1>6, CountUpTo

LEMMA BlockWindows ==
    ASSUME NEW x \in Int
    PROVE  /\ BlockWindow(x) \in 0..5
           /\ \A i \in 1..5 : BlockBounds[i] < x <=> i <= BlockWindow(x)
<1> DEFINE S == {i \in 1..5 : x > BlockBounds[i]}
<1>1. /\ BlockBounds[1] = 5 /\ BlockBounds[2] = 50 /\ BlockBounds[3] = 300
      /\ BlockBounds[4] = 1800 /\ BlockBounds[5] = 7200
  BY DEF BlockBounds
<1>2. \A i, j \in 1..5 : j <= i => BlockBounds[j] <= BlockBounds[i]
  BY <1>1
<1>3. \A i \in 1..5 : BlockBounds[i] \in Int
  BY <1>1
<1>4. S \in SUBSET (1..5) /\ \A i \in S, j \in 1..5 : j <= i => j \in S
  BY <1>2, <1>3
<1>5. \A i \in 1..5 : BlockBounds[i] < x <=> i \in S
  BY <1>3
<1>6. BlockWindow(x) = Cardinality(S)
  BY DEF BlockWindow, Windows
<1> HIDE DEF S
<1> QED BY <1>4, <1>5, <1>6, CountUpTo

\* A bound begins its window.
LEMMA WindowOfBound == \A i \in 1..5 : DateWindow(DateBounds[i]) = i
<1> SUFFICES ASSUME NEW i \in 1..5 PROVE DateWindow(DateBounds[i]) = i
  OBVIOUS
<1>1. /\ DateBounds[1] = 30 /\ DateBounds[2] = 300 /\ DateBounds[3] = 1800
      /\ DateBounds[4] = 10800 /\ DateBounds[5] = 43200
  BY DEF DateBounds
<1>2. DateBounds[i] \in Int
  BY <1>1
<1> DEFINE w == DateWindow(DateBounds[i])
<1>3. w \in 0..5 /\ \A j \in 1..5 : DateBounds[j] <= DateBounds[i] <=> j <= w
  BY <1>2, DateWindows
<1> HIDE DEF w
<1>4. i <= w
  BY <1>2, <1>3
<1>5. \A j \in 1..5 : i < j => DateBounds[i] < DateBounds[j]
  BY <1>1
<1>6. \A j \in 1..5 : j <= w => j <= i
  BY <1>1, <1>3, <1>5
<1>7. w <= i
  BY <1>3, <1>4, <1>6
<1> QED BY <1>3, <1>4, <1>7 DEF w

\* The windows that a difference fills, and the bounds around it.
Fits(window, bounds) ==
    /\ \A x \in Nat : window[x] \in 0..5 /\ Within(x, window[x], bounds)
    /\ WindowsGrow(window)

DateWindowOf == [x \in Nat |-> DateWindow(x)]
BlockWindowOf == [x \in Nat |-> BlockWindow(x)]

\* The windows of both estimates lie between their bounds.
LEMMA DateWindowsFit == Fits(DateWindowOf, DateBounds)
<1>1. \A x \in Nat : DateWindowOf[x] = DateWindow(x)
  BY DEF DateWindowOf
<1>2. \A i \in 1..5 : DateBounds[i] \in Nat
  BY BoundsWiden DEF Widening
<1>3. ASSUME NEW x \in Nat PROVE DateWindow(x) \in 0..5 /\ Within(x, DateWindow(x), DateBounds)
  <2> DEFINE w == DateWindow(x)
  <2>1. w \in 0..5 /\ \A i \in 1..5 : DateBounds[i] <= x <=> i <= w
    BY DateWindows
  <2> HIDE DEF w
  <2>2. w > 0 => DateBounds[w] <= x
    BY <2>1
  <2>3. w < 5 => x <= DateBounds[w + 1]
    BY <1>2, <2>1
  <2> QED BY <2>1, <2>2, <2>3 DEF w, Within
<1>4. ASSUME NEW x \in Nat, NEW y \in Nat, x <= y PROVE DateWindow(x) <= DateWindow(y)
  <2> DEFINE v == DateWindow(x)
             w == DateWindow(y)
  <2>1. v \in 0..5 /\ \A i \in 1..5 : DateBounds[i] <= x <=> i <= v
    BY DateWindows
  <2>2. w \in 0..5 /\ \A i \in 1..5 : DateBounds[i] <= y <=> i <= w
    BY DateWindows
  <2> HIDE DEF v, w
  <2>3. v <= w
    BY <1>2, <1>4, <2>1, <2>2
  <2> QED BY <2>3 DEF v, w
<1> QED BY <1>1, <1>3, <1>4 DEF Fits, WindowsGrow

LEMMA BlockWindowsFit == Fits(BlockWindowOf, BlockBounds)
<1>1. \A x \in Nat : BlockWindowOf[x] = BlockWindow(x)
  BY DEF BlockWindowOf
<1>2. \A i \in 1..5 : BlockBounds[i] \in Nat
  BY BoundsWiden DEF Widening
<1>3. ASSUME NEW x \in Nat PROVE BlockWindow(x) \in 0..5 /\ Within(x, BlockWindow(x), BlockBounds)
  <2> DEFINE w == BlockWindow(x)
  <2>1. w \in 0..5 /\ \A i \in 1..5 : BlockBounds[i] < x <=> i <= w
    BY BlockWindows
  <2> HIDE DEF w
  <2>2. w > 0 => BlockBounds[w] <= x
    BY <1>2, <2>1
  <2>3. w < 5 => x <= BlockBounds[w + 1]
    BY <1>2, <2>1
  <2> QED BY <2>1, <2>2, <2>3 DEF w, Within
<1>4. ASSUME NEW x \in Nat, NEW y \in Nat, x <= y PROVE BlockWindow(x) <= BlockWindow(y)
  <2> DEFINE v == BlockWindow(x)
             w == BlockWindow(y)
  <2>1. v \in 0..5 /\ \A i \in 1..5 : BlockBounds[i] < x <=> i <= v
    BY BlockWindows
  <2>2. w \in 0..5 /\ \A i \in 1..5 : BlockBounds[i] < y <=> i <= w
    BY BlockWindows
  <2> HIDE DEF v, w
  <2>3. v <= w
    BY <1>2, <1>4, <2>1, <2>2
  <2> QED BY <2>3 DEF v, w
<1> QED BY <1>1, <1>3, <1>4 DEF Fits, WindowsGrow

\* For every bounds and windows that fit: quotients and products grow.
LEMMA AveragesInOrder ==
    ASSUME Steady, \A i \in 1..5 : blockTimes[i] \in Nat,
           NEW bounds, Widening(bounds), NEW window, Fits(window, bounds)
    PROVE  \A x, y \in Nat : x <= y =>
              /\ AtMost(x * Den(x, window[x], bounds), Num(x, window[x], bounds),
                        y * Den(y, window[y], bounds), Num(y, window[y], bounds))
              /\ AtMost(x * Num(x, window[x], bounds), Den(x, window[x], bounds),
                        y * Num(y, window[y], bounds), Den(y, window[y], bounds))
<1> DEFINE num == [x \in Nat |-> Num(x, window[x], bounds)]
           den == [x \in Nat |-> Den(x, window[x], bounds)]
           full == [x \in Nat |-> x * den[x]]
           long == [x \in Nat |-> x * num[x]]
           rate == [k \in 1..5 |-> Rate(k)]
           edge == [k \in 1..5 |-> bounds[k]]
           time == [k \in 1..5 |-> bounds[k] * Rate(k)]
           one == [k \in 1..5 |-> 1]
<1>1. \A x \in Nat : /\ num[x] = Num(x, window[x], bounds)
                     /\ den[x] = Den(x, window[x], bounds)
                     /\ full[x] = x * den[x] /\ long[x] = x * num[x]
  OBVIOUS
<1>2. \A k \in 1..5 : /\ rate[k] = Rate(k) /\ edge[k] = bounds[k]
                      /\ time[k] = bounds[k] * Rate(k) /\ one[k] = 1
  OBVIOUS
<1> HIDE DEF num, den, full, long, rate, edge, time, one
<1>3. \A x \in Nat : window[x] \in 0..5 /\ Within(x, window[x], bounds)
  BY DEF Fits
<1>4. \A x \in Nat : num[x] \in Nat \ {0} /\ den[x] \in Nat \ {0}
  BY <1>1, <1>3, AverageInWindow
<1>5. \A x \in Nat : full[x] \in Nat /\ long[x] \in Nat
  BY <1>1, <1>4
<1>6. \A k \in 1..5 : rate[k] \in Nat \ {0} /\ edge[k] \in Nat \ {0}
  BY <1>2, RatesAreClose DEF Widening
<1>7. \A k \in 1..5 : time[k] \in Nat /\ one[k] \in Nat \ {0}
  BY <1>2, <1>6
<1>8. Typed(window, full, num, edge, rate) /\ Typed(window, long, den, time, one)
  BY <1>3, <1>4, <1>5, <1>6, <1>7 DEF Typed
<1>9. GrowsWithin(window, full, num) /\ GrowsWithin(window, long, den)
  <2> SUFFICES ASSUME NEW x \in Nat, NEW y \in Nat, x <= y, window[x] = window[y]
               PROVE  /\ AtMost(full[x], num[x], full[y], num[y])
                      /\ AtMost(long[x], den[x], long[y], den[y])
    BY DEF GrowsWithin
  <2>1. window[x] \in 0..5 /\ Within(x, window[x], bounds) /\ Within(y, window[x], bounds)
    BY <1>3
  <2>2. /\ (x * Den(x, window[x], bounds)) * Num(y, window[x], bounds)
              <= (y * Den(y, window[x], bounds)) * Num(x, window[x], bounds)
        /\ (x * Num(x, window[x], bounds)) * Den(y, window[x], bounds)
              <= (y * Num(y, window[x], bounds)) * Den(x, window[x], bounds)
    BY <2>1, AverageInWindow
  <2>3. full[x] * num[y] <= full[y] * num[x] /\ long[x] * den[y] <= long[y] * den[x]
    BY <1>1, <2>2
  <2> QED BY <2>3 DEF AtMost
<1>10. AboveLower(window, full, num, edge, rate) /\ AboveLower(window, long, den, time, one)
  <2> SUFFICES ASSUME NEW x \in Nat, NEW k \in 1..5, window[x] = k
               PROVE  /\ AtMost(edge[k], rate[k], full[x], num[x])
                      /\ AtMost(time[k], one[k], long[x], den[x])
    BY DEF AboveLower
  <2>1. k \in 0..5 /\ k > 0 /\ Within(x, k, bounds)
    BY <1>3
  <2>2. /\ bounds[k] * Num(x, k, bounds) <= (x * Den(x, k, bounds)) * Rate(k)
        /\ (bounds[k] * Rate(k)) * Den(x, k, bounds) <= x * Num(x, k, bounds)
    BY <2>1, AverageInWindow
  <2>3. edge[k] * num[x] <= full[x] * rate[k] /\ time[k] * den[x] <= long[x]
    BY <1>1, <1>2, <2>2
  <2>4. long[x] * one[k] = long[x]
    BY <1>2, <1>5
  <2> QED BY <2>3, <2>4 DEF AtMost
<1>11. BelowUpper(window, full, num, edge, rate) /\ BelowUpper(window, long, den, time, one)
  <2> SUFFICES ASSUME NEW x \in Nat, NEW k \in 1..5, window[x] = k - 1
               PROVE  /\ AtMost(full[x], num[x], edge[k], rate[k])
                      /\ AtMost(long[x], den[x], time[k], one[k])
    BY DEF BelowUpper
  <2> DEFINE w == k - 1
  <2>1. w \in 0..5 /\ w < 5 /\ w + 1 = k /\ Within(x, w, bounds) /\ window[x] = w
    BY <1>3
  <2> HIDE DEF w
  <2>2. /\ (x * Den(x, w, bounds)) * Rate(w + 1) <= bounds[w + 1] * Num(x, w, bounds)
        /\ x * Num(x, w, bounds) <= (bounds[w + 1] * Rate(w + 1)) * Den(x, w, bounds)
    BY <2>1, AverageInWindow
  <2>3. full[x] * rate[k] <= edge[k] * num[x] /\ long[x] <= time[k] * den[x]
    BY <1>1, <1>2, <2>1, <2>2
  <2>4. long[x] * one[k] = long[x]
    BY <1>2, <1>5
  <2> QED BY <2>3, <2>4 DEF AtMost
<1>12. BoundsGrow(edge, rate) /\ BoundsGrow(time, one)
  <2> SUFFICES ASSUME NEW k \in 1..4
               PROVE  /\ AtMost(edge[k], rate[k], edge[k + 1], rate[k + 1])
                      /\ AtMost(time[k], one[k], time[k + 1], one[k + 1])
    BY DEF BoundsGrow
  <2> DEFINE B == bounds[k]
             C == bounds[k + 1]
             a == Rate(k)
             b == Rate(k + 1)
  <2>1. k \in 1..5 /\ k + 1 \in 1..5 /\ k \in 0..5 /\ k + 1 \in 0..5
    OBVIOUS
  <2>2. B \in Nat /\ C \in Nat /\ 2 * B <= C
    BY <2>1 DEF Widening
  <2>3. a \in Nat /\ b \in Nat /\ 2 * a <= 3 * b /\ 2 * b <= 3 * a
    BY <2>1, RatesAreClose
  <2>4. /\ edge[k] = B /\ edge[k + 1] = C /\ rate[k] = a /\ rate[k + 1] = b
        /\ time[k] = B * a /\ time[k + 1] = C * b /\ one[k] = 1 /\ one[k + 1] = 1
    BY <1>2, <2>1
  <2> HIDE DEF B, C, a, b
  <2>5. B * b <= C * a /\ B * a <= C * b
    <3>1. B * (2 * b) <= B * (3 * a) /\ B * (2 * a) <= B * (3 * b)
      BY <2>2, <2>3
    <3>2. (2 * B) * a <= C * a /\ (2 * B) * b <= C * b
      BY <2>2, <2>3
    <3>3. B * a \in Nat /\ B * b \in Nat /\ C * a \in Nat /\ C * b \in Nat
      BY <2>2, <2>3
    <3>4. 2 * (B * b) <= 3 * (B * a) /\ 2 * (B * a) <= 3 * (B * b)
          /\ 2 * (B * a) <= C * a /\ 2 * (B * b) <= C * b
      BY <2>2, <2>3, <3>1, <3>2
    <3> QED BY <3>3, <3>4
  <2>6. (B * a) * 1 = B * a /\ (C * b) * 1 = C * b
    BY <2>2, <2>3
  <2> QED BY <2>4, <2>5, <2>6 DEF AtMost
<1>13. WindowsGrow(window)
  BY DEF Fits
<1>14. \A x, y \in Nat : x <= y => AtMost(full[x], num[x], full[y], num[y])
  BY <1>8, <1>9, <1>10, <1>11, <1>12, <1>13, ChainInOrder
<1>15. \A x, y \in Nat : x <= y => AtMost(long[x], den[x], long[y], den[y])
  BY <1>8, <1>9, <1>10, <1>11, <1>12, <1>13, ChainInOrder
<1> QED BY <1>1, <1>14, <1>15

DateNum(x) == Num(x, DateWindow(x), DateBounds)
DateDen(x) == Den(x, DateWindow(x), DateBounds)
BlockNum(x) == Num(x, BlockWindow(x), BlockBounds)
BlockDen(x) == Den(x, BlockWindow(x), BlockBounds)

\* The same of the windows of the code.
LEMMA DateAverages ==
    ASSUME Steady, \A i \in 1..5 : blockTimes[i] \in Nat
    PROVE  /\ \A x \in Nat : DateNum(x) \in Nat \ {0} /\ DateDen(x) \in Nat \ {0}
           /\ \A x, y \in Nat : x <= y =>
                 (x * DateDen(x)) * DateNum(y) <= (y * DateDen(y)) * DateNum(x)
           /\ \A x, y \in Nat : x < y =>
                 (x * DateDen(x)) * DateNum(y) < (y * DateDen(y)) * DateNum(x)
<1>1. \A x \in Nat : DateWindowOf[x] = DateWindow(x)
  BY DEF DateWindowOf
<1>2. \A x \in Nat : DateWindow(x) \in 0..5 /\ Within(x, DateWindow(x), DateBounds)
  BY <1>1, DateWindowsFit DEF Fits
<1>3. Widening(DateBounds)
  BY BoundsWiden
<1>4. \A x \in Nat : DateNum(x) \in Nat \ {0} /\ DateDen(x) \in Nat \ {0}
  BY <1>2, <1>3, AverageInWindow DEF DateNum, DateDen
<1>5. \A x, y \in Nat : x <= y =>
        AtMost(x * Den(x, DateWindowOf[x], DateBounds), Num(x, DateWindowOf[x], DateBounds),
               y * Den(y, DateWindowOf[y], DateBounds), Num(y, DateWindowOf[y], DateBounds))
  BY <1>3, DateWindowsFit, AveragesInOrder
<1>6. \A x, y \in Nat : x <= y =>
        AtMost(x * DateDen(x), DateNum(x), y * DateDen(y), DateNum(y))
  BY <1>1, <1>5 DEF DateNum, DateDen
<1>7. ASSUME NEW x \in Nat, NEW y \in Nat, x < y
      PROVE  (x * DateDen(x)) * DateNum(y) < (y * DateDen(y)) * DateNum(x)
  <2> DEFINE w == DateWindow(x)
             c == DateBounds[w + 1]
  <2>1. w \in 0..5 /\ Within(x, w, DateBounds)
    BY <1>2
  <2>2. CASE DateWindow(y) = w
    <3>1. Within(y, w, DateBounds)
      BY <1>2, <2>2
    <3> QED BY <1>3, <1>7, <2>1, <2>2, <3>1, QuotientsGrowInWindow DEF DateNum, DateDen
  <2>3. CASE DateWindow(y) # w
    <3>1. DateWindow(y) \in 0..5 /\ w < DateWindow(y)
      BY <1>1, <1>2, <1>7, <2>3, DateWindowsFit DEF Fits, WindowsGrow
    <3>2. w \in 0..4 /\ w + 1 \in 1..5 /\ w + 1 \in 0..5 /\ w + 1 <= DateWindow(y)
      BY <2>1, <3>1
    <3>3. c \in Nat \ {0}
      BY <1>3, <3>2 DEF Widening
    <3>4. x < c /\ c <= y
      <4>1. c <= x <=> w + 1 <= w
        BY <3>2, DateWindows
      <4>2. c <= y <=> w + 1 <= DateWindow(y)
        BY <3>2, DateWindows
      <4> QED BY <2>1, <3>2, <3>3, <4>1, <4>2
    <3>5. DateWindow(c) = w + 1
      BY <3>2, <3>3, WindowOfBound
    <3>6. (x * DateDen(x)) * Rate(w + 1) < c * DateNum(x)
      BY <1>3, <2>1, <3>2, <3>4, QuotientsGrowInWindow DEF DateNum, DateDen
    <3>7. AtMost(c, Rate(w + 1), c * DateDen(c), DateNum(c))
      <4>1. Within(c, w + 1, DateBounds)
        BY <1>2, <3>3, <3>5
      <4>2. c * Num(c, w + 1, DateBounds) <= (c * Den(c, w + 1, DateBounds)) * Rate(w + 1)
        BY <1>3, <3>2, <3>3, <4>1, AverageInWindow
      <4> QED BY <3>5, <4>2 DEF AtMost, DateNum, DateDen
    <3>8. AtMost(c * DateDen(c), DateNum(c), y * DateDen(y), DateNum(y))
      BY <1>6, <3>3, <3>4
    <3>9. /\ DateNum(x) \in Nat \ {0} /\ DateNum(y) \in Nat \ {0} /\ DateNum(c) \in Nat \ {0}
          /\ DateDen(x) \in Nat \ {0} /\ DateDen(y) \in Nat \ {0} /\ DateDen(c) \in Nat \ {0}
          /\ Rate(w + 1) \in Nat \ {0}
      BY <1>4, <3>2, <3>3, RatesAreClose
    <3> HIDE DEF w, c
    <3>10. x * DateDen(x) \in Int /\ y * DateDen(y) \in Int /\ c * DateDen(c) \in Int /\ c \in Int
      BY <3>3, <3>9
    <3>11. AtMost(c, Rate(w + 1), y * DateDen(y), DateNum(y))
      BY <3>7, <3>8, <3>9, <3>10, FractionsTransitive
    <3> QED BY <3>6, <3>9, <3>10, <3>11, FractionsLess
  <2> QED BY <2>2, <2>3
<1> QED BY <1>4, <1>6, <1>7 DEF AtMost

LEMMA BlockAverages ==
    ASSUME Steady, \A i \in 1..5 : blockTimes[i] \in Nat
    PROVE  /\ \A x \in Nat : BlockNum(x) \in Nat \ {0} /\ BlockDen(x) \in Nat \ {0}
           /\ \A x, y \in Nat : x <= y =>
                 (x * BlockNum(x)) * BlockDen(y) <= (y * BlockNum(y)) * BlockDen(x)
<1>1. \A x \in Nat : BlockWindowOf[x] = BlockWindow(x)
  BY DEF BlockWindowOf
<1>2. \A x \in Nat : BlockWindow(x) \in 0..5 /\ Within(x, BlockWindow(x), BlockBounds)
  BY <1>1, BlockWindowsFit DEF Fits
<1>3. Widening(BlockBounds)
  BY BoundsWiden
<1>4. \A x \in Nat : BlockNum(x) \in Nat \ {0} /\ BlockDen(x) \in Nat \ {0}
  BY <1>2, <1>3, AverageInWindow DEF BlockNum, BlockDen
<1>5. \A x, y \in Nat : x <= y =>
        AtMost(x * Num(x, BlockWindowOf[x], BlockBounds), Den(x, BlockWindowOf[x], BlockBounds),
               y * Num(y, BlockWindowOf[y], BlockBounds), Den(y, BlockWindowOf[y], BlockBounds))
  BY <1>3, BlockWindowsFit, AveragesInOrder
<1>6. \A x, y \in Nat : x <= y =>
        AtMost(x * BlockNum(x), BlockDen(x), y * BlockNum(y), BlockDen(y))
  BY <1>1, <1>5 DEF BlockNum, BlockDen
<1> QED BY <1>4, <1>6 DEF AtMost

\* A difference with its sign, and the fraction that belongs to it.
Signed(d, n) == IF d < 0 THEN -n ELSE n

LEMMA MagnitudeIs ==
    ASSUME NEW d \in Int
    PROVE  Magnitude(d) \in Nat /\ Signed(d, Magnitude(d)) = d
           /\ (d < 0 => Magnitude(d) = -d) /\ (d >= 0 => Magnitude(d) = d)
BY DEF Magnitude, Signed

\* A block that is found is at least 0.
Clipped(n) == IF n < 0 THEN 0 ELSE n

\* The rounding of past differences is a floor too, that of the signed fraction.
\* Only a whole number of blocks may come out as the one before.
LEMMA EstimateBlocksAre ==
    ASSUME NEW d \in Int, NEW h \in Nat,
           NEW n \in Nat, n = Magnitude(d) * DateDen(Magnitude(d)),
           NEW r \in Nat \ {0}, r = DateNum(Magnitude(d)),
           NEW m \in EstimateBlocks(d, h)
    PROVE  \E k \in {0, 1} : /\ m = Clipped(h + (Signed(d, n) \div r) - k)
                             /\ k = 1 => n % r = 0
<1> DEFINE w == DateWindow(Magnitude(d))
           floor == n \div r
           ceil == -((-n) \div r)
           block == IF d < 0 THEN h - ceil ELSE h + floor
           slips == IF Weighed(w) /\ n % r = 0 THEN {0, 1} ELSE {0}
<1>1. EstimateBlocks(d, h) = { Clipped(block - slip) : slip \in slips }
  BY DEF EstimateBlocks, DateDen, DateNum, Den, Num, Clipped
<1>2. PICK k \in slips : m = Clipped(block - k)
  <2> HIDE DEF slips, block
  <2> QED BY <1>1
<1>3. floor \in Int /\ (-n) \div r \in Int
  OBVIOUS
<1>4. block = h + (Signed(d, n) \div r)
  BY <1>3 DEF Signed
<1>5. k \in {0, 1} /\ (k = 1 => n % r = 0)
  OBVIOUS
<1> HIDE DEF block, slips
<1>6. m = Clipped(h + (Signed(d, n) \div r) - k)
  <2> DEFINE z == Signed(d, n) \div r
  <2>1. z \in Int
    BY DEF Signed
  <2>2. block = h + z /\ m = Clipped(block - k)
    BY <1>2, <1>4
  <2> HIDE DEF z
  <2>3. block - k = h + z - k
    BY <1>5, <2>1, <2>2
  <2> QED BY <2>2, <2>3 DEF z
<1> QED BY <1>5, <1>6

\* The order of the magnitudes is the order of the dates, or its reverse.
LEMMA SignedInOrder ==
    ASSUME NEW d \in Int, NEW e \in Int, d <= e,
           NEW p \in Nat, NEW q \in Nat, NEW r \in Nat \ {0}, NEW s \in Nat \ {0},
           Magnitude(d) <= Magnitude(e) => p * s <= q * r,
           Magnitude(e) <= Magnitude(d) => q * r <= p * s
    PROVE  Signed(d, p) \div r <= Signed(e, q) \div s
<1>1. Signed(d, p) * s <= Signed(e, q) * r
  <2>1. p * s \in Nat /\ q * r \in Nat /\ (-p) * s = -(p * s) /\ (-q) * r = -(q * r)
    OBVIOUS
  <2>2. CASE d < 0 /\ e < 0
    <3>1. Magnitude(e) <= Magnitude(d)
      BY <2>2, MagnitudeIs
    <3> QED BY <2>1, <2>2, <3>1 DEF Signed
  <2>3. CASE d < 0 /\ e >= 0
    BY <2>1, <2>3 DEF Signed
  <2>4. CASE d >= 0
    <3>1. Magnitude(d) <= Magnitude(e) /\ e >= 0
      BY <2>4, MagnitudeIs
    <3> QED BY <2>1, <2>4, <3>1 DEF Signed
  <2> QED BY <2>2, <2>3, <2>4
<1>2. Signed(d, p) \in Int /\ Signed(e, q) \in Int
  BY DEF Signed
<1> HIDE DEF Signed
<1> QED BY <1>1, <1>2, FloorInOrder

\* Later dates have greater fractions, and a whole number before which there is
\* a fraction is greater than its integer part.
LEMMA SignedGrows ==
    ASSUME NEW d \in Int, NEW e \in Int, d < e,
           NEW p \in Nat, NEW q \in Nat, NEW r \in Nat \ {0}, NEW s \in Nat \ {0},
           d # 0 => p > 0,
           Magnitude(d) < Magnitude(e) => p * s < q * r,
           Magnitude(e) < Magnitude(d) => q * r < p * s
    PROVE  /\ Signed(d, p) \div r <= Signed(e, q) \div s
           /\ q % s = 0 => Signed(d, p) \div r < Signed(e, q) \div s
<1>1. Signed(d, p) * s < Signed(e, q) * r
  <2>1. p * s \in Nat /\ q * r \in Nat /\ (-p) * s = -(p * s) /\ (-q) * r = -(q * r)
    OBVIOUS
  <2>2. CASE d < 0 /\ e < 0
    <3>1. Magnitude(e) < Magnitude(d)
      BY <2>2, MagnitudeIs
    <3> QED BY <2>1, <2>2, <3>1 DEF Signed
  <2>3. CASE d < 0 /\ e >= 0
    <3>1. p * s > 0
      BY <2>3
    <3> QED BY <2>1, <2>3, <3>1 DEF Signed
  <2>4. CASE d >= 0
    <3>1. Magnitude(d) < Magnitude(e) /\ e >= 0
      BY <2>4, MagnitudeIs
    <3> QED BY <2>1, <2>4, <3>1 DEF Signed
  <2> QED BY <2>2, <2>3, <2>4
<1>2. Signed(d, p) \in Int /\ Signed(e, q) \in Int
  BY DEF Signed
<1>3. ASSUME q % s = 0
      PROVE  Signed(e, q) = (Signed(e, q) \div s) * s /\ Signed(e, q) \div s \in Int
  <2>1. q = (q \div s) * s /\ q \div s \in Int
    BY <1>3
  <2> DEFINE z == q \div s
  <2>2. ((-z) * s) \div s = -z
    <3>1. -z \in Int
      BY <2>1
    <3> HIDE DEF z
    <3> QED BY <3>1, ExactDivision
  <2>3. -q = (-z) * s
    BY <2>1
  <2>4. (-q) \div s = -z
    BY <2>2, <2>3
  <2>5. -z \in Int
    BY <2>1
  <2>6. CASE e < 0
    <3>1. Signed(e, q) = -q
      BY <2>6 DEF Signed
    <3> HIDE DEF z
    <3> QED BY <2>3, <2>4, <2>5, <3>1
  <2>7. CASE ~(e < 0)
    BY <2>1, <2>7 DEF Signed
  <2> QED BY <2>6, <2>7
<1> HIDE DEF Signed
<1>4. Signed(d, p) \div r <= Signed(e, q) \div s
  BY <1>1, <1>2, FloorInOrder
<1>5. ASSUME q % s = 0
      PROVE  Signed(d, p) \div r < Signed(e, q) \div s
  <2> DEFINE u == Signed(d, p)
             z == Signed(e, q) \div s
             v == u \div r
  <2>1. z \in Int /\ u * s < (z * s) * r
    BY <1>1, <1>3, <1>5
  <2>2. u \in Int /\ v \in Int /\ v * r <= u
    BY <1>2
  <2> HIDE DEF u, z, v
  <2>3. (v * r) * s <= u * s
    BY <2>2
  <2>4. v * (r * s) < z * (r * s) /\ r * s \in Nat \ {0}
    BY <2>1, <2>2, <2>3
  <2>5. v < z
    BY <2>1, <2>2, <2>4
  <2> QED BY <2>5 DEF u, z, v
<1> QED BY <1>4, <1>5

\* Two dates, and two blocks, with the averages of a steady chain.
LEMMA StatusEstimatesInOrder ==
    ASSUME blockTimes \in [Windows -> Nat]
    PROVE  EstimatesInOrder
<1> USE TimesAssumption DEF TimesAssumption
<1> SUFFICES ASSUME Steady, NEW h \in LastBlocks
             PROVE  /\ \A d, e \in Dates :
                          d < e => \A m \in EstimateBlocks(d, h),
                                      n \in EstimateBlocks(e, h) : m <= n
                    /\ \A a, b \in Blocks \ {0} :
                          LET s == EstimateDate(a, h)
                              t == EstimateDate(b, h)
                          IN  a <= b => s.num \div s.den <= t.num \div t.den
  BY DEF EstimatesInOrder
<1>1. \A i \in 1..5 : blockTimes[i] \in Nat
  BY DEF Windows
<1>2. h \in Nat
  OBVIOUS
<1>3. ASSUME NEW d \in Dates, NEW e \in Dates, d < e,
             NEW m \in EstimateBlocks(d, h), NEW n \in EstimateBlocks(e, h)
      PROVE  m <= n
  <2> DEFINE x == Magnitude(d)
             y == Magnitude(e)
             p == x * DateDen(x)
             q == y * DateDen(y)
             r == DateNum(x)
             s == DateNum(y)
             v == Signed(d, p) \div r
             w == Signed(e, q) \div s
  <2>1. d \in Int /\ e \in Int
    OBVIOUS
  <2>2. x \in Nat /\ y \in Nat /\ (d # 0 => x > 0)
    BY <2>1, MagnitudeIs
  <2> HIDE DEF x, y
  <2>3. /\ r \in Nat \ {0} /\ s \in Nat \ {0}
        /\ DateDen(x) \in Nat \ {0} /\ DateDen(y) \in Nat \ {0}
    BY <1>1, <2>2, DateAverages
  <2>4. p \in Nat /\ q \in Nat /\ (d # 0 => p > 0)
    BY <2>2, <2>3
  <2>5. (x < y => p * s < q * r) /\ (y < x => q * r < p * s)
    BY <1>1, <2>2, DateAverages
  <2>6. p = Magnitude(d) * DateDen(Magnitude(d)) /\ r = DateNum(Magnitude(d))
        /\ q = Magnitude(e) * DateDen(Magnitude(e)) /\ s = DateNum(Magnitude(e))
    BY DEF x, y
  <2>7. (Magnitude(d) < Magnitude(e) => p * s < q * r)
        /\ (Magnitude(e) < Magnitude(d) => q * r < p * s)
    BY <2>5 DEF x, y
  <2> HIDE DEF p, q, r, s
  <2>8. v <= w /\ (q % s = 0 => v < w)
    BY <1>3, <2>1, <2>3, <2>4, <2>7, SignedGrows
  <2>9. PICK k \in {0, 1} : m = Clipped(h + v - k)
    BY <1>2, <2>1, <2>3, <2>4, <2>6, EstimateBlocksAre
  <2>10. PICK l \in {0, 1} : n = Clipped(h + w - l) /\ (l = 1 => q % s = 0)
    BY <1>2, <2>1, <2>3, <2>4, <2>6, EstimateBlocksAre
  <2>11. v \in Int /\ w \in Int
    BY <2>3, <2>4 DEF Signed
  <2> HIDE DEF v, w
  <2>12. v - k <= w - l
    BY <2>8, <2>10, <2>11
  <2> QED BY <1>2, <2>9, <2>10, <2>11, <2>12 DEF Clipped
<1>4. ASSUME NEW a \in Blocks \ {0}, NEW b \in Blocks \ {0}, a <= b
      PROVE  EstimateDate(a, h).num \div EstimateDate(a, h).den
                <= EstimateDate(b, h).num \div EstimateDate(b, h).den
  <2> DEFINE d == a - h
             e == b - h
             x == Magnitude(d)
             y == Magnitude(e)
             p == x * BlockNum(x)
             q == y * BlockNum(y)
             r == BlockDen(x)
             s == BlockDen(y)
  <2>1. d \in Int /\ e \in Int /\ d <= e
    BY <1>2, <1>4
  <2>2. /\ EstimateDate(a, h).num = d * BlockNum(x) /\ EstimateDate(a, h).den = r
        /\ EstimateDate(b, h).num = e * BlockNum(y) /\ EstimateDate(b, h).den = s
    BY DEF EstimateDate, BlockNum, BlockDen, Num, Den
  <2> HIDE DEF d, e
  <2>3. /\ x \in Nat /\ Signed(d, x) = d /\ y \in Nat /\ Signed(e, y) = e
    BY <2>1, MagnitudeIs
  <2>4. (Magnitude(d) <= Magnitude(e) => p * s <= q * r)
        /\ (Magnitude(e) <= Magnitude(d) => q * r <= p * s)
    BY <1>1, <2>3, BlockAverages
  <2> HIDE DEF x, y
  <2>5. r \in Nat \ {0} /\ s \in Nat \ {0} /\ BlockNum(x) \in Nat /\ BlockNum(y) \in Nat
    BY <1>1, <2>3, BlockAverages
  <2>6. p \in Nat /\ q \in Nat
    BY <2>3, <2>5
  <2>7. d * BlockNum(x) = Signed(d, p) /\ e * BlockNum(y) = Signed(e, q)
    BY <2>3, <2>5 DEF Signed
  <2> HIDE DEF p, q, r, s
  <2>8. Signed(d, p) \div r <= Signed(e, q) \div s
    BY <2>1, <2>4, <2>5, <2>6, SignedInOrder
  <2> QED BY <2>2, <2>7, <2>8
<1> QED BY <1>3, <1>4

\* One average for all windows is steady, and the average at every bound ...
LEMMA OneRate ==
    ASSUME \A i, j \in Windows : blockTimes[i] = blockTimes[j],
           \A i \in 1..5 : blockTimes[i] \in Nat
    PROVE  /\ Steady
           /\ \A w \in 0..5 : Rate(w) = Rate(1)
<1>1. Steady
  BY DEF Steady, Windows
<1>2. Rate(0) = Rate(1)
  BY <1>1, RatesAreClose
<1>3. CASE blockTimes[1] > 0
  <2>1. \A i \in 1..5 : blockTimes[i] > 0 /\ blockTimes[i] = blockTimes[1]
    BY <1>3 DEF Windows
  <2>2. \A i \in 1..5 : Rate(i) = blockTimes[i]
    BY <1>1, <2>1, RatesAreClose
  <2>3. \A w \in 1..5 : Rate(w) = Rate(1)
    BY <2>1, <2>2
  <2> QED BY <1>1, <1>2, <2>3
<1>4. CASE blockTimes[1] = 0
  <2>1. \A i \in 1..5 : ~(blockTimes[i] > 0)
    BY <1>4 DEF Windows
  <2>2. \A w \in 1..4 : Rate(w + 1) = Rate(w)
    BY <1>1, <2>1, RatesAreClose
  <2>3. Rate(1 + 1) = Rate(1) /\ Rate(2 + 1) = Rate(2) /\ Rate(3 + 1) = Rate(3)
        /\ Rate(4 + 1) = Rate(4)
    BY <2>2
  <2>4. 1 + 1 = 2 /\ 2 + 1 = 3 /\ 3 + 1 = 4 /\ 4 + 1 = 5
    OBVIOUS
  <2>5. \A w \in 0..5 : w = 0 \/ w = 1 \/ w = 2 \/ w = 3 \/ w = 4 \/ w = 5
    OBVIOUS
  <2> QED BY <1>1, <1>2, <2>3, <2>4, <2>5
<1> QED BY <1>3, <1>4

\* ... and whatever is weighed.
LEMMA OneAverage ==
    ASSUME \A i, j \in Windows : blockTimes[i] = blockTimes[j],
           \A i \in 1..5 : blockTimes[i] \in Nat,
           NEW bounds, Widening(bounds), NEW x \in Nat, NEW w \in 0..5
    PROVE  /\ Den(x, w, bounds) \in Nat \ {0}
           /\ Num(x, w, bounds) = Rate(1) * Den(x, w, bounds)
<1>1. Steady /\ Rate(w) = Rate(1) /\ Rate(1) \in Nat
  BY OneRate, RatesAreClose
<1>2. CASE Weighed(w)
  <2> DEFINE B == bounds[w]
             W == bounds[w + 1] - bounds[w]
             c == Rate(1)
  <2>1. B \in Nat \ {0} /\ W \in Nat \ {0}
    BY <1>2 DEF Weighed, Widening
  <2>2. Rate(w + 1) = c
    BY <1>2, OneRate DEF Weighed
  <2>3. Num(x, w, bounds) = Interpolated(B, W, c, c, x) /\ Den(x, w, bounds) = W
    BY <1>1, <1>2, <2>2, AverageIs
  <2> HIDE DEF B, W, c
  <2>4. Interpolated(B, W, c, c, x) = c * W
    <3>1. c \in Nat
      BY <1>1 DEF c
    <3> QED BY <2>1, <3>1 DEF Interpolated
  <2> QED BY <2>1, <2>3, <2>4 DEF c
<1>3. CASE ~Weighed(w)
  <2>1. Num(x, w, bounds) = Rate(1) /\ Den(x, w, bounds) = 1
    BY <1>1, <1>3, AverageIs
  <2> QED BY <1>1, <2>1
<1> QED BY <1>2, <1>3

\* A block, its date and the block of that date.
LEMMA StatusEstimatesReturn ==
    ASSUME blockTimes \in [Windows -> Nat]
    PROVE  EstimatesRoundTrip
<1> USE TimesAssumption DEF TimesAssumption
<1> SUFFICES ASSUME \A i, j \in Windows : blockTimes[i] = blockTimes[j],
                    NEW b \in Blocks \ {0}, NEW h \in LastBlocks
             PROVE  LET date == EstimateDate(b, h)
                    IN  /\ date.num % date.den = 0
                        /\ EstimateBlocks(date.num \div date.den, h) \subseteq {b - 1, b}
  BY DEF EstimatesRoundTrip
<1> DEFINE k == b - h
           x == Magnitude(k)
           D == BlockDen(x)
           c == Rate(1)
           d == k * c
           y == Magnitude(d)
           E == DateDen(y)
<1>1. \A i \in 1..5 : blockTimes[i] \in Nat
  BY DEF Windows
<1>2. k \in Int /\ h \in Nat /\ b \in Nat /\ h + k = b
  OBVIOUS
<1>3. c \in Nat \ {0}
  <2>1. \A w \in 0..5 : Rate(w) \in Nat \ {0}
    BY <1>1, OneRate, RatesAreClose
  <2> QED BY <2>1
<1>4. EstimateDate(b, h).num = k * BlockNum(x) /\ EstimateDate(b, h).den = D
  BY DEF EstimateDate, BlockNum, BlockDen, Num, Den
<1> HIDE DEF k, c
<1>5. x \in Nat /\ d \in Int
  BY <1>2, <1>3, MagnitudeIs
<1> HIDE DEF d
<1>6. y \in Nat
  BY <1>5, MagnitudeIs
<1>7. D \in Nat \ {0} /\ BlockNum(x) = c * D
  <2>1. BlockWindow(x) \in 0..5 /\ Widening(BlockBounds)
    BY <1>5, BlockWindows, BoundsWiden
  <2> QED BY <1>1, <1>5, <2>1, OneAverage DEF BlockDen, BlockNum, c
<1>8. E \in Nat \ {0} /\ DateNum(y) = c * E
  <2>1. DateWindow(y) \in 0..5 /\ Widening(DateBounds)
    BY <1>6, DateWindows, BoundsWiden
  <2> QED BY <1>1, <1>6, <2>1, OneAverage DEF DateDen, DateNum, c
<1> HIDE DEF x, y, D, E
<1>9. EstimateDate(b, h).num = d * D
  <2>1. k * (c * D) = (k * c) * D
    BY <1>2, <1>3, <1>7
  <2> QED BY <1>4, <1>7, <2>1 DEF d
<1>10. EstimateDate(b, h).num % EstimateDate(b, h).den = 0
       /\ EstimateDate(b, h).num \div EstimateDate(b, h).den = d
  BY <1>4, <1>5, <1>7, <1>9, ExactDivision
<1>11. ASSUME NEW m \in EstimateBlocks(d, h) PROVE m \in {b - 1, b}
  <2> DEFINE n == y * E
             r == c * E
             z == Signed(d, n) \div r
  <2>1. n \in Nat /\ r \in Nat \ {0}
    BY <1>3, <1>6, <1>8
  <2>2. n = Magnitude(d) * DateDen(Magnitude(d)) /\ r = DateNum(Magnitude(d))
    BY <1>8 DEF y, E
  <2>3. Signed(d, n) = d * E
    <3>1. Signed(d, y) = d
      BY <1>5, MagnitudeIs DEF y
    <3> QED BY <1>5, <1>6, <1>8, <3>1 DEF Signed
  <2>4. d * E = k * r
    BY <1>2, <1>3, <1>8 DEF d
  <2>5. (k * r) \div r = k
    <3> HIDE DEF r
    <3> QED BY <1>2, <2>1, ExactDivision
  <2> HIDE DEF n, r
  <2>6. PICK l \in {0, 1} : m = Clipped(h + z - l)
    BY <1>2, <1>5, <2>1, <2>2, EstimateBlocksAre
  <2>7. z = k
    BY <2>3, <2>4, <2>5
  <2> HIDE DEF z
  <2>8. b > 0
    BY <1>2
  <2> QED BY <1>2, <2>6, <2>7, <2>8 DEF Clipped
<1> QED BY <1>10, <1>11

\* Every status that is reported has averages that are natural numbers.
LEMMA TimesStay ==
    /\ TimesInit => blockTimes \in [Windows -> Nat]
    /\ blockTimes \in [Windows -> Nat] /\ [StatusReply]_blockTimes
          => (blockTimes \in [Windows -> Nat])'
BY TimesAssumption DEF TimesAssumption, TimesInit, StatusReply, Status

\* On a steady chain a later date never gets an earlier block from
\* estimateBlockAtDateTimeSync, nor a later block an earlier date from
\* estimateDateAtBlockSync, for all averages, dates and blocks and whichever
\* way each quotient of doubles is rounded.
THEOREM EstimatesAlwaysInOrder == TimesSpec => []EstimatesInOrder
<1>1. blockTimes \in [Windows -> Nat] => EstimatesInOrder
  BY StatusEstimatesInOrder
<1> QED BY <1>1, TimesStay, PTL DEF TimesSpec

\* With one average for all windows the block that is found for the date of a
\* block is that block or the one before, for every average, block and height:
\* rounding costs no more, and never gives a later block.
THEOREM EstimatesAlwaysRoundTrip == TimesSpec => []EstimatesRoundTrip
<1>1. blockTimes \in [Windows -> Nat] => EstimatesRoundTrip
  BY StatusEstimatesReturn
<1> QED BY <1>1, TimesStay, PTL DEF TimesSpec

=============================================================================
