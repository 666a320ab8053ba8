SPECIFICATION Spec
CHECK_DEADLOCK FALSE
CONSTANTS
    Confs <- SkipConfs
    Fds = {3, 4}
INVARIANTS
    SkipsOnlyItself
