\* A process that is archived while its keys are requested.
SPECIFICATION Spec
CONSTANTS
    StartBlock = 1
    EndBlock = 2
    MaxHeight = 4
    Retries = 3
    WaitBlocks = 2
INVARIANT
    ArchiveIsUsed
