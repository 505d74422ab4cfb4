------------------------------- MODULE Waiter -------------------------------
(***************************************************************************)
(* VochainWaiter and EthWaiter of packages/voting/src/util/waiters.ts:     *)
(* wait(n) reads the block height, then asks for it every two seconds      *)
(* until it has grown by n; waitUntil(h) reads the height and waits for    *)
(* the blocks that are missing.  The interval does not wait for the answer *)
(* of one poll before it sends the next, so that answers overtake each     *)
(* other, and an error rejects the promise but leaves the interval set.    *)
(***************************************************************************)
EXTENDS Naturals

CONSTANTS
    Gateways,       \* gateways that may answer a request
    MaxLag,         \* blocks by which gateways may differ
    MaxHeight,      \* bound: heights from here on are not told apart
    WaitCounts,     \* arguments of wait()
    UntilHeights    \* arguments of waitUntil()

ASSUME WaiterAssumption ==
    /\ Gateways # {}
    /\ {MaxLag, MaxHeight} \subseteq Nat
    /\ WaitCounts \subseteq 0..MaxHeight
    /\ UntilHeights \subseteq 0..MaxHeight

VARIABLES
    view,       \* view[g]: block height that gateway g knows
    phase,      \* state of the promise of the call
    goal,       \* history: the height that the caller means to wait for
    missing,    \* blockCount
    target,     \* targetBlock
    interval,   \* the interval is set
    answers     \* heights in the answers to polls that have not arrived

vars == <<view, phase, goal, missing, target, interval, answers>>

Heights == 0..MaxHeight
Plus(a, b) == IF a + b < MaxHeight THEN a + b ELSE MaxHeight
WithinLag(v) == \A g, h \in Gateways : v[g] <= v[h] + MaxLag
Waiting == {"comparing", "measuring", "polling"}

TypeOK ==
    /\ view \in [Gateways -> Heights]
    /\ phase \in {"idle", "resolved", "rejected"} \cup Waiting
    /\ {goal, missing, target} \subseteq Heights
    /\ interval \in BOOLEAN
    /\ answers \subseteq Heights

Init ==
    /\ view \in {v \in [Gateways -> Heights] : WithinLag(v)}
    /\ phase = "idle"
    /\ goal = 0
    /\ missing = 0
    /\ target = 0
    /\ interval = FALSE
    /\ answers = {}

\* A gateway gets one more block.
Advance(g) ==
    /\ view[g] < MaxHeight
    /\ view' = [view EXCEPT ![g] = @ + 1]
    /\ WithinLag(view')
    /\ UNCHANGED <<phase, goal, missing, target, interval, answers>>

\* wait(n): n blocks more than any gateway has now.
CallWait(n) ==
    /\ phase = "idle"
    /\ phase' = "measuring"
    /\ missing' = n
    /\ \E g \in Gateways :
          /\ \A h \in Gateways : view[h] <= view[g]
          /\ goal' = Plus(view[g], n)
    /\ UNCHANGED <<view, target, interval, answers>>

\* waitUntil(h)
CallWaitUntil(h) ==
    /\ phase = "idle"
    /\ phase' = "comparing"
    /\ goal' = h
    /\ UNCHANGED <<view, missing, target, interval, answers>>

\* The first height of waitUntil: nothing to wait for, or wait(h - height).
CompareReply(g) ==
    /\ phase = "comparing"
    /\ \/ /\ view[g] >= goal
          /\ phase' = "resolved"
          /\ UNCHANGED missing
       \/ /\ view[g] < goal
          /\ phase' = "measuring"
          /\ missing' = goal - view[g]
    /\ UNCHANGED <<view, goal, target, interval, answers>>

\* Mutant of MeasureReply: one block less.
MeasureReplyShort(g) ==
    /\ phase = "measuring"
    /\ phase' = "polling"
    /\ target' = Plus(IF missing > 0 THEN missing - 1 ELSE 0, view[g])
    /\ interval' = TRUE
    /\ UNCHANGED <<view, goal, missing, answers>>

\* targetBlock = blockCount + height, and setInterval.
MeasureReply(g) ==
    /\ phase = "measuring"
    /\ phase' = "polling"
    /\ target' = Plus(missing, view[g])
    /\ interval' = TRUE
    /\ UNCHANGED <<view, goal, missing, answers>>

\* The interval fires, and a gateway answers the request.
Poll(g) ==
    /\ interval
    /\ answers' = answers \cup {view[g]}
    /\ UNCHANGED <<view, phase, goal, missing, target, interval>>

\* Mutant of Arrive: the interval is cleared by the call that it resolves.
ArriveClearsPolling(h) ==
    /\ h \in answers
    /\ answers' = answers \ {h}
    /\ IF h >= target /\ phase = "polling"
         THEN phase' = "resolved" /\ interval' = FALSE
         ELSE UNCHANGED <<phase, interval>>
    /\ UNCHANGED <<view, goal, missing, target>>

\* An answer arrives, in any order: resolve and clearInterval if it is high
\* enough.  To resolve a promise that was rejected does nothing.
Arrive(h) ==
    /\ h \in answers
    /\ answers' = answers \ {h}
    /\ IF h >= target
         THEN /\ interval' = FALSE
              /\ phase' = IF phase = "polling" THEN "resolved" ELSE phase
         ELSE UNCHANGED <<phase, interval>>
    /\ UNCHANGED <<view, goal, missing, target>>

\* A request fails or times out: the promise is rejected, and that is all.
Fail ==
    /\ phase \in Waiting
    /\ phase' = "rejected"
    /\ UNCHANGED <<view, goal, missing, target, interval, answers>>

Finished ==
    /\ phase \in {"resolved", "rejected"}
    /\ ~interval
    /\ UNCHANGED vars

Next ==
    \/ \E g \in Gateways :
          Advance(g) \/ CompareReply(g) \/ MeasureReply(g) \/ Poll(g)
    \/ \E n \in WaitCounts : CallWait(n)
    \/ \E h \in UntilHeights : CallWaitUntil(h)
    \/ \E h \in Heights : Arrive(h)
    \/ Fail
    \/ Finished

Spec == Init /\ [][Next]_vars

\* The chain grows, the interval fires and some gateway answers; requests that
\* fail are steps of Fail, or of no effect.
Fairness ==
    /\ \A g \in Gateways : WF_vars(Advance(g)) /\ WF_vars(Poll(g))
    /\ \A h \in Heights : WF_vars(Arrive(h))
FairSpec == Spec /\ Fairness

-----------------------------------------------------------------------------
(***************************************************************************)
(* Properties                                                              *)
(***************************************************************************)

\* The waiters implement what BlockWait promises, so that no promise resolves
\* early by more than two gateways differ, nor early at all if one gateway
\* answers all requests: waitUntil turns block h into a number of blocks with
\* the height of one gateway, and wait turns that back with the height of
\* another ("Waits until the given block number is reached on the Vochain",
\* waiters.ts:32).
Promise == INSTANCE BlockWait
    WITH phase <- IF phase \in Waiting THEN "waiting" ELSE phase
ImplementsBlockWait == Promise!WaitSpec

\* The polling stops: also after a rejection, once the chain gets there.
PollingStops == interval ~> ~interval
=============================================================================
