------------------------------ MODULE MCReads ------------------------------
(***************************************************************************)
(* Instances of Reads for TLC.                                             *)
(***************************************************************************)
EXTENDS Reads

CONSTANTS g1, g2, r1, r2

\* A metadata URI with a hash and with each kind of item, and a bare IPFS one.
SomeFiles == { [hashed |-> TRUE, ipfs |-> TRUE, https |-> 1],
               [hashed |-> FALSE, ipfs |-> TRUE, https |-> 0] }

=============================================================================
