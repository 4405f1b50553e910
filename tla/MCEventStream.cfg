SPECIFICATION FeedSpec
CONSTANTS
    PingEvery = 3
    StaleAfter = 5
    BackoffSteps <- MCSteps
    JitterPercent = 20
    MaxQuiet = 7
    MaxFaults = 3
    MaxChanges = 2
INVARIANTS FeedIsSound
PROPERTIES HealthyIsKept Reconnects HealthInOrder PanelCatchesUp
