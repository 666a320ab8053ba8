SPECIFICATION Spec
CONSTANTS
    Ikes <- TwoIkes
    Confs <- Roaming
INVARIANTS
    NoneAstray
CHECK_DEADLOCK FALSE
