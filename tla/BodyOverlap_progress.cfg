SPECIFICATION CycleSpec
CONSTANTS
    Procs = {p1, p2}
    NumEvents = 1
    Cols = {req}
    ToolCol = req
    Legacy = {}
    Days = {1}
    DayOf <- MCOneDay
    Inodes = {i1, i2, i3}
    NoFile = nofile
    Server = p1
    Serialised = FALSE
INVARIANT NeverHotAndMarked
PROPERTIES CollectingKeepsBodies PurgedBytesGo EligibleIsArchived JobEnds
