SPECIFICATION TradeSpec
CONSTANTS
    MaxTrades = 5
    MaxRows = 2
    HardCap = 3
    ChunkSize = 2
    MaxQueued = 2
    MaxFailures = 3
INVARIANTS TradesAreKept
PROPERTIES TradesSettle
CHECK_DEADLOCK FALSE
