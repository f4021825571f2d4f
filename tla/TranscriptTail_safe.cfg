SPECIFICATION FairSpec
CONSTANTS
    f1 = f1
    k1 = k1
    k2 = k2
    Served = {"tick"}
    Files = {f1}
    Keys = {k1, k2}
    Keyless = {k1}
    Noise = noise
    Script <- MCScript
    Generations = 1
    Commands = {"rebuild", "rekey"}
    Faults = 1
INVARIANTS NothingSkipped LastLineWins RereadRestores
PROPERTIES LineLands
