------------------------- MODULE MCGatewayDiscovery -------------------------
(***************************************************************************)
(* Instances of GatewayDiscovery for TLC.                                  *)
(***************************************************************************)
EXTENDS GatewayDiscovery

CONSTANTS r1, r2, d1, d2, d3, d4, w1, w2

FourDvote == <<d1, d2, d3, d4>>
TwoDvote == <<d1, d2>>
TwoWeb3 == <<w1, w2>>

\* Two runs of an application: a production pool with an archive, and a
\* staging pool that resolves ENS names.
BothParams ==
    [r \in Runs |->
        IF r = r1
          THEN [env |-> "prod", min |-> 2, ens |-> FALSE, archive |-> "ipns"]
          ELSE [env |-> "stg", min |-> 1, ens |-> TRUE, archive |-> "none"]]
=============================================================================
