SPECIFICATION Spec
CONSTANTS
    Pids <- MCPids
    PodCgroups = {"pod"}
    OtherCgroups = {"sys"}
    NsLinks = {"pid"}
    NsInodes = {1}
    MaxInc = 2
    NameRank <- MCNameRank
INVARIANTS
    TypeOK
    CompleteAndSound
    InNameOrder
    TornOnlyByDeath
    FieldsInReadOrder
PROPERTIES
    AnswersSnapshot
CHECK_DEADLOCK FALSE
