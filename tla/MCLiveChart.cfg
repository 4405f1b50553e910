SPECIFICATION Spec
CONSTANTS
    Candles = 3
    Final = 2
    BufferCap = 2
    MaxWire = 2
    MaxMishaps = 2
CHECK_DEADLOCK FALSE
INVARIANTS ChartIsSound
PROPERTIES FramesNeverGoBack FramesReachTheChart
