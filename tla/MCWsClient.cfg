SPECIFICATION Spec
CONSTANTS
    Symbols = {btc, eth}
    btc = btc
    eth = eth
    PingEvery = 2
    HeartbeatTimeout = 3
    HeartbeatCheck = 2
    StableReset = 3
    StopTimeout = 2
    BaseDelay = 2
    MaxDelay = 4
    JitterPercent = 30
    MaxAttempts = 3
    MaxAge = 12
    MaxBreaks = 4
INVARIANTS ConnectionIsSound
PROPERTIES HealthyIsKept RepairCoversOutage Reconnects StopReturns
