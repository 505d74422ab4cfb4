--------------------------- MODULE MCVotingRound ---------------------------
(***************************************************************************)
(* Instances of VotingRound for TLC.                                       *)
(***************************************************************************)
EXTENDS VotingRound

CONSTANTS g1, g2
=============================================================================
