\* Both waits, over two gateways of which one may lag behind by a block, and the
\* estimates around every bound of their windows.
SPECIFICATION MCSpec
CONSTANTS
    g1 = g1  g2 = g2
    Gateways = {g1, g2}
    MaxLag = 1
    MaxHeight = 6
    WaitCounts = {0, 1, 2}
    UntilHeights = {2, 4}
    Times = {0, 4, 6, 9}
    Dates <- MCDates
    Blocks <- MCBlocks
    LastBlocks = {100, 10000}
INVARIANTS
    EstimatesInOrder
    EstimatesRoundTrip
PROPERTIES
    ImplementsBlockWait
    PollingStops
