\* One run that wants two of each, over four DVote nodes and two Web3 nodes.
SPECIFICATION FairSpec
CONSTANTS
    r1 = r1  r2 = r2
    d1 = d1  d2 = d2  d3 = d3  d4 = d4  w1 = w1  w2 = w2
    Runs = {r1}
    NoRun = NoRun
    Params <- BothParams
    DvoteNodes <- FourDvote
    Web3Nodes <- TwoWeb3
    ListedDvote = {1, 4}
    Parallel = 2
    Rounds = 3
    MaxActive = 1
INVARIANTS
    PoolCoversFound
    NoOverCollect
    FailureIsExhaustive
PROPERTIES
    NoRecheck
    RunsAdvance
    RunEnds
