----------------------------- MODULE MCWeb3Ens -----------------------------
(***************************************************************************)
(* Instances of Web3Ens for TLC.                                           *)
(***************************************************************************)
EXTENDS Web3Ens

CONSTANTS resolver, genesis, processes, e1, e2, e3, s1, s2

\* One getter of the resolver, two of a contract that only initEns resolves.
MCWants ==
    [g \in Getters |-> IF g = e1 THEN resolver ELSE processes]
=============================================================================
