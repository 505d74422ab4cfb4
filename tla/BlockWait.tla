----------------------------- MODULE BlockWait -----------------------------
(***************************************************************************)
(* What VochainWaiter and EthWaiter promise (packages/voting/src/util/     *)
(* waiters.ts): a call resolves when the block it waits for has come, or   *)
(* early by no more than the blocks by which two gateways differ, because  *)
(* its requests may be answered by different gateways.  Module Waiter is   *)
(* how they do it.                                                         *)
(***************************************************************************)
EXTENDS Naturals

CONSTANTS
    Gateways,   \* gateways that may answer a request
    MaxLag,     \* blocks by which gateways may differ
    MaxHeight   \* bound: heights from here on are not told apart

ASSUME BlockWaitAssumption ==
    /\ Gateways # {}
    /\ MaxLag \in Nat
    /\ MaxHeight \in Nat

VARIABLES
    view,   \* view[g]: block height that gateway g knows
    phase,  \* state of the promise of the call
    goal    \* the height that the caller means to wait for

waitVars == <<view, phase, goal>>

Heights == 0..MaxHeight
Plus(a, b) == IF a + b < MaxHeight THEN a + b ELSE MaxHeight
WithinLag(v) == \A g, h \in Gateways : v[g] <= v[h] + MaxLag

WaitTypeOK ==
    /\ view \in [Gateways -> Heights]
    /\ phase \in {"idle", "waiting", "resolved", "rejected"}
    /\ goal \in Heights

WaitInit ==
    /\ view \in {v \in [Gateways -> Heights] : WithinLag(v)}
    /\ phase = "idle"
    /\ goal = 0

\* A gateway gets one more block.
NewBlock(g) ==
    /\ view[g] < MaxHeight
    /\ view' = [view EXCEPT ![g] = @ + 1]
    /\ WithinLag(view')
    /\ UNCHANGED <<phase, goal>>

Begin(h) ==
    /\ phase = "idle"
    /\ phase' = "waiting"
    /\ goal' = h
    /\ UNCHANGED view

Reached == \E g \in Gateways : view[g] + MaxLag >= goal

Resolve ==
    /\ phase = "waiting"
    /\ Reached
    /\ phase' = "resolved"
    /\ UNCHANGED <<view, goal>>

Reject ==
    /\ phase = "waiting"
    /\ phase' = "rejected"
    /\ UNCHANGED <<view, goal>>

WaitNext ==
    \/ \E g \in Gateways : NewBlock(g)
    \/ \E h \in Heights : Begin(h)
    \/ Resolve
    \/ Reject

WaitSpec == WaitInit /\ [][WaitNext]_waitVars
=============================================================================
