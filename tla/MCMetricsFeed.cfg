SPECIFICATION Spec
CONSTANTS
    Order <- MCOrder
    MaxCandles = 1
    MaxFailures = 1
    MaxDrops = 1
INVARIANTS CallersAreServed
PROPERTIES NothingGoesBack ScreenCatchesUp
