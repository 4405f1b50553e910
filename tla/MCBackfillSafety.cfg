SPECIFICATION Spec
CONSTANTS
    s1 = s1  s2 = s2  c1 = c1  c2 = c2
    Symbols <- OneSymbol
    Calls <- TwoCalls
    Now = 3
    Horizon = 3
    Lookback = 2
    Grace = 1
    Depth = 3
    MaxAttempts = 2
    Concurrency = 2
    Kinds = {"bootstrap", "scan", "manual", "repair"}
    InitialStores <- HoleyStores
    Exchange <- FullExchange
    Faults <- NoMarkFailedFault
INVARIANTS TypeOK InFlightDisjoint ReservationsReleased LiveJobsDisjoint SucceededMeansStored
SYMMETRY Symmetry
CHECK_DEADLOCK FALSE
