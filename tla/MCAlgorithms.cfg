SPECIFICATION Spec
CONSTANTS
    Step = 3
    Horizon = 13
    IntervalMs <- IntervalMsValue
    WindowMs = 2
    PruneIntervalMs = 1
    MaxSamples = 2
    MaxTickBuffer = 2
    SupportedSymbols = {"BTC"}
    MaxTicks = 3
    MaxNow = 4
    RetentionDays = 2
    MaxDays = 6
    ExpectedCandles = 3
    MaxRanges = 2
    BandMinutes = {1, 2, 3, 4, 5, 6, 7, 8, 720, 1430, 1432, 1433, 1434, 1435, 1436, 1437, 1438, 1439, 1440}
    BandSeconds = {0, 1, 30, 59}
    EventTimes = {10, 80, 86, 90}
    Ratios = {9899, 9989, 10000}
    MaxRange = 4
    ClockGaps <- ClocksApart
    RowTimes = {0, 3}
    Snapshots <- GrowingSnapshots
    MaxBatch = 3
    MaxNext = 1
    MaxMessages = 2
    MaxParams = 6
    IntDigits = {0, 1, 2}
    FracDigits = {0, 1}
    MaxDigits = 2
    BarCandles <- SevenBars
    MaxWidth = 3
    MaxLimit = 3
    Amounts = {1, 2, 4}
    Maxima = {3, 1500}
    Rolling = {2, 3}
    WindowBound = 3
    TradedCandles <- FiveTraded
    MarketTrades <- TwoTrades
    ReadTimes = {12, 13, 14}
    MaxWindow = 2
    DayCandles = 4
INVARIANTS GapsAreExact CoverageIsTrue ConsoleIsTrue RowsAreKept QueriesAreExact GaugeIsRecent PurgeKeepsRecent
