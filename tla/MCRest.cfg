SPECIFICATION ClientSpec
CONSTANTS
    k1 = k1  k2 = k2
    Callers <- TwoCallers
    Budget = 3
    Window = 3
    MaxRequests = 1
    RequestAttempts = 2
    Weights = {1, 2}
    Answers = {"net", "ok", "429", "418", "5xx", "4xx"}
    Reports = {0, 4}
    RetryAfters = {1, 3}
    Backoffs = {1}
INVARIANTS BudgetIsKept
PROPERTIES NoGrantWhileStopped RequestsSettle
