SPECIFICATION MCSpec
CONSTANTS
    NumMsgs = 5
    MsgLen = 3
    Cpus = {c1, c2}
    MaxForeign = 2
INVARIANTS
    NothingLost
    OneMessageAtATime
    EveryEventPrinted
    CounterBounds
PROPERTIES
    HangsOnlyUnaccepted
    EndsWithoutChild
    Terminates
CHECK_DEADLOCK FALSE
