SPECIFICATION Spec
CONSTANTS
    s1 = s1  s2 = s2  c1 = c1  c2 = c2
    Symbols <- TwoSymbols
    Calls <- OneCall
    Now = 3
    Horizon = 3
    Lookback = 3
    Grace = 0
    Depth = 2
    MaxAttempts = 2
    Concurrency = 1
    Kinds = {"bootstrap", "scan", "manual", "repair"}
    InitialStores = {{1}}
    Exchange <- FullExchange
    Faults <- SettlingFaults
PROPERTIES JobLifecycleSpec EverythingSettles
CHECK_DEADLOCK FALSE
