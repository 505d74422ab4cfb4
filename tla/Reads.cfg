\* Two calls of any kind while their process moves to the archive and the pool
\* of two gateways shifts and is refreshed.
SPECIFICATION FairSpec
CONSTANTS
    g1 = g1  g2 = g2
    r1 = r1  r2 = r2
    Gateways = {g1, g2}
    Readers = {r1, r2}
    Files <- SomeFiles
    MaxRefreshes = 1
INVARIANTS
    RejectedWithReason
    HashedIsVerified
PROPERTIES
    AsksEnsOnce
    ReadsAdvance
    ReadsSettle
