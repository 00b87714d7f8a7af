SPECIFICATION MCSpec
CONSTANTS
    Drivers = {"cgroupfs", "systemd"}
    Spellings = {"dashes", "underscores", "plain"}
    FlagSets <- MCFlagSets
    Archs = {"arm64", "amd64", "riscv64"}
    CpuParts = {"0xd0b", "0xd08"}
INVARIANTS
    SectionsAreIndependent
    NeverReappears
    NoScriptLeft
    CompleteMeansReady
    GivesUpOnlyUnready
PROPERTIES
    LabelledOnlyReady
    Terminates
CHECK_DEADLOCK FALSE
