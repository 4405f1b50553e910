SPECIFICATION Spec
CONSTANTS
    Start = 1
    Horizon = 4
    Lookback = 4
    Grace = 1
    Depth = 4
    MaxChain = 1
    Budget = 2
    FirstRows = {0, 2}
    Allowed = {"close", "boundary", "silent", "overlap", "snapshot", "final", "job", "repair", "crash"}
PROPERTIES RowsOnlyGrow CandlesPresent FinalUnlessSpoiled
CHECK_DEADLOCK FALSE
