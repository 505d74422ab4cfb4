--------------------------- MODULE MCGatewayPool ---------------------------
(***************************************************************************)
(* Instances of GatewayPool for TLC.                                       *)
(***************************************************************************)
EXTENDS GatewayPool

CONSTANTS g1, g2, g3, c1, c2

\* The classes of methods that sendRequest tells apart.
MCMethods == {"submitRawTx", "addClaimBulk", "getRoot", "addClaim"}
MCSequential == {"addClaimBulk"}
MCErrorSkip == {"getRoot"}

\* A plain call, and calls of a sequential method.
MixedCalls ==
    [c \in Calls |-> IF c = c1 THEN "addClaim" ELSE "addClaimBulk"]
PlainCalls == [c \in Calls |-> "submitRawTx"]

\* Gateway g2 does not announce the API of the census methods.
PartialSupport ==
    (Gateways \X MCMethods)
        \ {<<g2, m>> : m \in {"addClaimBulk", "getRoot", "addClaim"}}
FullSupport == Gateways \X MCMethods

\* Lists that a discovery may return: of three gateways, of one, and with an
\* endpoint twice (createNodePairs fills the shorter kind at random).
MixedLists == {<<g1, g2, g3>>, <<g2>>, <<g1, g2, g1, g3>>}
TwoGateways == {<<g1, g2>>}
=============================================================================
