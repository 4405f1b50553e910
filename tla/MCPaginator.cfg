SPECIFICATION AttemptSpec
CONSTANTS
    PageHorizon = 6
    PageLimit = 2
    Margin = 2
    HardCap = 500
    PageFaults = {"reject", "upsert", "junk"}
INVARIANTS WritesAreExact HonestNeverCutOff
CHECK_DEADLOCK FALSE
