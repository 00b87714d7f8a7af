SPECIFICATION Spec
CONSTANTS
    ALLOC_STEPS = 10
    MEM_MAX = 8
    Namespaces = {"user", "pid", "mount", "net"}
    Children = 3
    MaxCalls = 4
    MaxSignals = 2
INVARIANTS
    LinesAccountedFor
    Contained
    NothingLeft
    FatesTold
    CommandIsIsolated
    RowsOfOwnChildren
    TracerInStep
PROPERTIES
    TracerEnds
CHECK_DEADLOCK FALSE
