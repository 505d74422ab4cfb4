\* Every kind of process, with the retries and the wait of the code.
SPECIFICATION MCSpec
CONSTANTS
    StartBlock = 1
    EndBlock = 2
    MaxHeight = 4
    Retries = 3
    WaitBlocks = 2
    Voters = {1, 2}
    Questions = 2
    MaxValue = 2
    KeyLists <- MCKeyLists
    Weights = {0, 16, 300}
INVARIANTS
    AvailableIsReturned
    BallotsAreCounted
PROPERTIES
    PatientForKeys
    CallSettles
