SPECIFICATION Spec
CONSTANTS
    Procs = {p1, p2}
    NumEvents = 1
    Cols = {req}
    ToolCol = req
    Legacy = {}
    Days = {1}
    DayOf <- MCOneDay
    Inodes = {i1, i2, i3, i4}
    NoFile = nofile
    Serialised = FALSE
SYMMETRY Interchangeable
PROPERTIES RowDeletesKeepBodies
