SPECIFICATION MCSpec
CONSTANTS
    Drivers = {"cgroupfs", "systemd"}
    Spellings = {"dashes", "underscores", "plain"}
    FlagSets <- MCFlagSets
    Archs = {"arm64"}
    CpuParts = {"0xd0b"}
INVARIANT
    DocumentedCombination
CHECK_DEADLOCK FALSE
