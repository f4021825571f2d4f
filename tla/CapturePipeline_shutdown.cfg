SPECIFICATION Spec
CONSTANTS
    c1 = c1
    s1 = s1
    s2 = s2
    Calls = {c1, c2}
    Sessions = {s1, s2}
    ProxySession <- MCProxySession
    TailSession <- MCTailSession
    Lines = {c1}
    Capacity = 2
    BatchSize = 2
    Retries = 0
    StoreFails = FALSE
INVARIANTS ShutdownKeepsCalls
