----------------------------- MODULE BlockTimes -----------------------------
(***************************************************************************)
(* The estimates that tell an application when a block will come and which *)
(* block a date will see: estimateBlockAtDateTimeSync and                  *)
(* estimateDateAtBlockSync of packages/voting/src/voting-calls.ts, from    *)
(* the average block times of the last minute, 10 minutes, hour, 6 hours   *)
(* and day that a gateway reports.  Times are counted in units of two      *)
(* seconds.  Averages are fractions here and doubles in the code: where    *)
(* the rounding of doubles can be seen, an estimate is a set of blocks.    *)
(***************************************************************************)
EXTENDS Integers, FiniteSets

CONSTANTS
    Times,      \* average block times that a gateway may report; 0: unknown
    Dates,      \* dates (integers), counted from the time of the last block
    Blocks,     \* numbers of blocks to estimate
    LastBlocks  \* numbers that the last block may have

\* getBlockStatus takes no negative averages and no negative height.
ASSUME TimesAssumption ==
    /\ Times \subseteq Nat
    /\ Dates \subseteq Int
    /\ Blocks \subseteq Nat
    /\ LastBlocks \subseteq Nat

VARIABLE blockTimes     \* of the status that a gateway reported

Windows == 1..5
DefaultTime == 6    \* VOCHAIN_BLOCK_TIME: 12 seconds

DateBounds == <<30, 300, 1800, 10800, 43200>>
BlockBounds == <<5, 50, 300, 1800, 7200>>

\* Fewer than five averages: the others are unknown.
Status == [Windows -> Times]

TimesInit == blockTimes \in Status

\* Any gateway may answer the next getBlockStatus, at any time.
StatusReply == blockTimes' \in Status

TimesSpec == TimesInit /\ [][StatusReply]_blockTimes

-----------------------------------------------------------------------------
Magnitude(n) == IF n < 0 THEN -n ELSE n

\* The number of windows that a difference fills.  At a bound itself the two
\* estimates disagree about this.
DateWindow(diff) == Cardinality({ i \in Windows : diff >= DateBounds[i] })
BlockWindow(diff) == Cardinality({ i \in Windows : diff > BlockBounds[i] })

\* Mutant of Known: the windows are tried from the shortest.
KnownShortest(window) ==
    LET known == { i \in 1..window : blockTimes[i] > 0 }
    IN  IF known = {} THEN DefaultTime
        ELSE blockTimes[CHOOSE i \in known : \A j \in known : i <= j]

\* The average of the longest known window up to this one, or the default.
Known(window) ==
    LET known == { i \in 1..window : blockTimes[i] > 0 }
    IN  IF known = {} THEN DefaultTime
        ELSE blockTimes[CHOOSE i \in known : \A j \in known : j <= i]

\* The average of this window and that of the next are weighed.
Weighed(window) ==
    window \in 1..4 /\ blockTimes[window] > 0 /\ blockTimes[window + 1] > 0

\* Mutant of Average: the weights are not counted from the lower bound.
AverageFromZero(diff, window, bounds) ==
    IF Weighed(window)
      THEN LET width == bounds[window + 1] - bounds[window]
           IN  [num |-> (width - diff) * blockTimes[window]
                            + diff * blockTimes[window + 1],
                den |-> width]
      ELSE [num |-> Known(IF window = 0 THEN 1 ELSE window), den |-> 1]

\* Between two windows the averages of both are weighed, if both are known.
Average(diff, window, bounds) ==
    IF Weighed(window)
      THEN LET width == bounds[window + 1] - bounds[window]
               pivot == diff - bounds[window]
           IN  [num |-> (width - pivot) * blockTimes[window]
                            + pivot * blockTimes[window + 1],
                den |-> width]
      ELSE [num |-> Known(IF window = 0 THEN 1 ELSE window), den |-> 1]

\* The blocks that may be found current at a date.  Past differences are rounded
\* up.  Where averages were weighed, their double may be a little too small or
\* too large (12000 and 12000 give 11999.999999999998), and so may the quotient:
\* if it should be a whole number it may go up or down by one, in the past and
\* in the future to the block before.  Other quotients of times in these units
\* are too far from whole numbers, and doubles divide by whole averages exactly.
EstimateBlocks(date, height) ==
    LET diff == Magnitude(date)
        window == DateWindow(diff)
        average == Average(diff, window, DateBounds)
        span == diff * average.den
        floor == span \div average.num
        ceil == -((-span) \div average.num)
        block == IF date < 0 THEN height - ceil ELSE height + floor
        slips == IF Weighed(window) /\ span % average.num = 0 THEN {0, 1} ELSE {0}
    IN  { IF block - slip < 0 THEN 0 ELSE block - slip : slip \in slips }

\* Mutant of EstimateDate: past blocks count as future ones.
EstimateDateAhead(block, height) ==
    LET diff == Magnitude(block - height)
        average == Average(diff, BlockWindow(diff), BlockBounds)
    IN  [num |-> diff * average.num, den |-> average.den]

\* The date of a block, a fraction; block 0 has none (`if (!blockNumber)`).  The
\* Date is cut to whole milliseconds.  A fraction that is a whole number comes
\* out as it: doubles are rounded more coarsely at today's timestamps (1/4096
\* of a millisecond) than the product may be wrong by.
EstimateDate(block, height) ==
    LET diff == Magnitude(block - height)
        average == Average(diff, BlockWindow(diff), BlockBounds)
    IN  [num |-> (block - height) * average.num, den |-> average.den]

-----------------------------------------------------------------------------
(***************************************************************************)
(* Properties                                                              *)
(***************************************************************************)

\* The averages of a chain that is steady (none is more than half again as
\* long as another; with twice as long, dates would run backwards), the long
\* ones missing if the chain is young.
Steady ==
    /\ \A i, j \in Windows : i < j /\ blockTimes[i] = 0 => blockTimes[j] = 0
    /\ \A i, j \in Windows :
          blockTimes[i] > 0 => 2 * blockTimes[j] <= 3 * blockTimes[i]

\* On such a chain a later date never gets an earlier block, nor a later block
\* an earlier date, though the average that counts changes with the
\* difference, the formula at each bound, and doubles are rounded.
EstimatesInOrder ==
    Steady => \A h \in LastBlocks :
        /\ \A d, e \in Dates :
              d < e => \A m \in EstimateBlocks(d, h), n \in EstimateBlocks(e, h) :
                          m <= n
        /\ \A a, b \in Blocks \ {0} :
              LET s == EstimateDate(a, h)
                  t == EstimateDate(b, h)
              IN  a <= b => s.num \div s.den <= t.num \div t.den

\* With one average for all windows the block that is found for the date of a
\* block is that block or, by the rounding of doubles, the one before: never a
\* later one, and none further off, though both functions cut the time into
\* windows at other places.
EstimatesRoundTrip ==
    (\A i, j \in Windows : blockTimes[i] = blockTimes[j]) =>
        \A b \in Blocks \ {0}, h \in LastBlocks :
            LET date == EstimateDate(b, h)
            IN  /\ date.num % date.den = 0
                /\ EstimateBlocks(date.num \div date.den, h) \subseteq {b - 1, b}
=============================================================================
