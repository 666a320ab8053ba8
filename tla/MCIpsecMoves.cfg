SPECIFICATION Spec
CONSTANTS
    Ikes <- TwoIkes
    Confs <- MovesOnLinux
INVARIANTS
    NoneAstray
CHECK_DEADLOCK FALSE
