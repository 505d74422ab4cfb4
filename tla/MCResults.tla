----------------------------- MODULE MCResults -----------------------------
(***************************************************************************)
(* Instances of Results for TLC, and of the results that it returns, as    *)
(* Ballots packs and counts them.                                          *)
(***************************************************************************)
EXTENDS Results, Ballots

\* No keys, a single one, and more of them in ascending and in other orders.
MCKeyLists == {<<>>, <<3>>, <<1, 3>>, <<3, 1>>, <<3, 7, 1>>}

\* A poll is counted, and then the results are asked for.
MCInit == Init /\ PollInit
MCNext ==
    \/ poll = NoPoll /\ Next /\ UNCHANGED poll
    \/ PollCounted /\ UNCHANGED vars
MCSpec == MCInit /\ [][MCNext]_<<vars, poll>> /\ Fairness
=============================================================================
