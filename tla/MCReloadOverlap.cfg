SPECIFICATION Spec
CHECK_DEADLOCK FALSE
CONSTANTS
    Confs <- AgainConfs
    Fds = {3, 4}
INVARIANTS
    ReadyForThis
