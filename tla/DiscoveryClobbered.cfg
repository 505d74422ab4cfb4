\* Two overlapping runs with different parameters.
SPECIFICATION Spec
CONSTANTS
    r1 = r1  r2 = r2
    d1 = d1  d2 = d2  d3 = d3  d4 = d4  w1 = w1  w2 = w2
    Runs = {r1, r2}
    NoRun = NoRun
    Params <- BothParams
    DvoteNodes <- TwoDvote
    Web3Nodes <- TwoWeb3
    ListedDvote = {1, 2}
    Parallel = 2
    Rounds = 1
    MaxActive = 2
INVARIANT
    ParametersRespected
