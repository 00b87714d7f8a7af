SPECIFICATION MCSpec
CONSTANTS
    Pids <- MCPids
    NameRank <- MCNameRank
    NsTypes <- MCNsTypes
    PodCgroups = {"pod"}
    OtherCgroups = {"sys"}
    NsLinks = {"net", "pid"}
    NsInodes = {1, 2}
    MaxInc = 2
    Fds = {3}
    Objects = {7, 8}
    CpuLists = {"0", "0-1"}
    SurveyPids <- MCSurveyPids
    SurveyRank <- MCSurveyRank
    Scores = {0, 1, 2}
    TopN = 2
INVARIANTS
    RowOfSurvivor
    FirstProcessOrItsSuccessor
    BPFComplete
    SchedComplete
    PerfRows
    GroupsAreNamespaces
    TopIsHighest
    ReportsOneHolder
CONSTRAINT Relevant
CHECK_DEADLOCK FALSE
