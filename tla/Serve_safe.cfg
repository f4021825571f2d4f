SPECIFICATION Spec
CONSTANTS
    Procs = {1, 2, 3}
    Commands = {r1}
    Swaps = {r1}
    Impatient = FALSE
    MaxFaults = 2
    Calls = {1, 2}
    Setters = {s1}
    Cap = 1
    Sizes = {1, 2}
    Policies = {"full", "off"}
    EarlyAnswers = FALSE
    MaxBoots = 1
    Writers = {w1, w2}
    Streams = {f1}
    Buffer = 2
    MaxRows = 2
    Reloads = {q1, q2}
    DayCounts = {0, 1, 7}
    Unset = unset
    Envs <- MCEnvs
    Flags <- MCFlags
    Default <- MCDefault
    Lists = {"a", "b"}
    MaxEdits = 2
    NumSlots = 2
    Values = {v1, v2}
    Cut = cut
    Savers = {p1, p2}
    Getters = {g1}
    MaxSaves = 2
    Openers = {o1, o2}
    Schema <- MCSchema
    Migrations <- MCMigrations
    Overlap = FALSE
INVARIANTS DrainBeforeSpawn RowsAreTrue ChoiceOutlivesServe ReplayFindsItself FeedHasNoGap SettingsHold SaveIsAtomic SchemaAlwaysOpens
PROPERTIES StopEnds
CHECK_DEADLOCK FALSE
