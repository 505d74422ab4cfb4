---------------------------- MODULE MCNewProcess ----------------------------
(***************************************************************************)
(* Instances of NewProcess for TLC.                                        *)
(***************************************************************************)
EXTENDS NewProcess

CONSTANTS c1, c2, c3, c4, token, stranger, w1, w2

\* Two calls of one wallet and one of another create processes for the same
\* token; a fourth one is for an entity without metadata.
OneToken ==
    [c \in Creators |-> IF c = c4 THEN stranger ELSE token]
TwoWallets == [c \in Creators |-> IF c \in {c1, c2} THEN w1 ELSE w2]
=============================================================================
