\* Every program with two voters, one per chunk of the census, over two
\* gateways of which one may lag behind by a block.
SPECIFICATION FairRound
CONSTANTS
    g1 = g1  g2 = g2
    Gateways = {g1, g2}
    MaxLag = 1
    MaxHeight = 5
    Voters = {1, 2}
    Kinds <- Programs
    Chunks = 2
    StopOnError = TRUE
    MaxReruns = 1
    StartDelay = 4
    Attempts = 1
    OracleBlocks = 2
INVARIANTS
    RoundTypeOK
    OneCopyIsComplete
    ReadyIsStored
    SealedIfKeysEarly
    OneRootIfEnrolledEarly
    EndedWithAllVotes
PROPERTIES
    DoneIsExact
    RoundEnds
