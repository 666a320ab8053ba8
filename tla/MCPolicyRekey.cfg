SPECIFICATION Spec
CHECK_DEADLOCK FALSE
CONSTANTS
    Confs <- RekeyConfs
    Fds = {3, 4}
INVARIANTS
    RefsExact
