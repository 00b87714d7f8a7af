SPECIFICATION Spec
CONSTANTS
    Cpus = {c1, c2}
    MaxForeign = 2
INVARIANT
    PayloadArrives
CHECK_DEADLOCK FALSE
