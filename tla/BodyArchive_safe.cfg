SPECIFICATION Spec
CONSTANTS
    Procs = {p1, p2}
    NumEvents = 1
    Cols = {req, tc}
    ToolCol = req
    Legacy = {1}
    Days = {1}
    DayOf <- MCOneDay
    Inodes = {i1, i2, i3, i4}
    NoFile = nofile
    Serialised = TRUE
SYMMETRY Interchangeable
INVARIANTS ArchiveInv AwaitingStaysHot
PROPERTIES ArchiveIsInvisible
