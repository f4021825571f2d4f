SPECIFICATION PromptSpec
CONSTANTS
    c1 = c1
    s1 = s1
    s2 = s2
    Calls = {c1, c2}
    Sessions = {s1, s2}
    ProxySession <- MCProxySession
    TailSession <- MCTailSession
    Lines = {c1}
    Capacity = 1
    BatchSize = 2
    Retries = 1
    StoreFails = TRUE
INVARIANTS Accounted TotalsAccurate
PROPERTIES ConsumerReturns Settles
