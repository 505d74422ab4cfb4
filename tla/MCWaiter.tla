------------------------------ MODULE MCWaiter ------------------------------
(***************************************************************************)
(* An instance of Waiter for TLC, and of the estimates of BlockTimes.      *)
(***************************************************************************)
EXTENDS Waiter, BlockTimes

CONSTANTS g1, g2

\* Every bound of the windows and its neighbours, and beyond all bounds.
Around(bounds, high) == UNION { {b - 1, b, b + 1} : b \in bounds } \cup {0, high}
MCDates == LET later == Around({30, 300, 1800, 10800, 43200}, 50000)
           IN  later \cup { -d : d \in later }
MCBlocks == LET diffs == Around({5, 50, 300, 1800, 7200}, 8000)
            IN  { 10000 + d : d \in diffs } \cup { 10000 - d : d \in diffs }

\* The status before an application waits: that of a chain which is not steady,
\* of which the properties of estimates say nothing again in each later state.
LastStatus == [i \in Windows |-> IF i = 5 THEN 4 ELSE 0]

\* An application asks for estimates, and then waits.
MCInit == Init /\ TimesInit
MCNext ==
    \/ blockTimes = LastStatus /\ Next /\ UNCHANGED blockTimes
    \/ /\ blockTimes # LastStatus
       /\ blockTimes' = LastStatus
       /\ StatusReply
       /\ UNCHANGED vars
MCSpec == MCInit /\ [][MCNext]_<<vars, blockTimes>> /\ Fairness
=============================================================================
