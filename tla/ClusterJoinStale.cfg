SPECIFICATION Spec
CONSTANTS
    Archs = {"arm64"}
    CpuParts = {"0xd0b"}
INVARIANT
    ReadyIsFresh
CHECK_DEADLOCK FALSE
