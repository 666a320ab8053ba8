SPECIFICATION Spec
CHECK_DEADLOCK FALSE
CONSTANTS
    Confs <- DefaultConfs
    Fds = {3, 4}
INVARIANTS
    RefsExact
