SPECIFICATION MCSpec
CONSTANTS
    Modulus = 1024
    Ifaces = {"eth0", "lo"}
    Born = {0, 1023}
    MaxInc = 2
    MaxSent = 2
    Boots <- MCBoots
    Loads <- MCLoads
    Memories <- MCMemories
    Capacity = 2
    MaxLog = 5
    MaxEvents = 2
INVARIANTS
    RateIsTraffic
    StealIsReal
    BalloonIsReal
    KmsgComplete
CONSTRAINT Relevant
CHECK_DEADLOCK FALSE
