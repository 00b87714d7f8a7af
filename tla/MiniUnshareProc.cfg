SPECIFICATION Spec
CONSTANTS
    Namespaces = {"user", "pid", "mount", "net"}
INVARIANT
    HostProcUntouched
CHECK_DEADLOCK FALSE
