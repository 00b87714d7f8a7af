SPECIFICATION Spec
CONSTANTS
    Cpus = {c1, c2}
    MaxForeign = 2
INVARIANT
    CounterIsExact
CHECK_DEADLOCK FALSE
