SPECIFICATION Spec
CONSTANTS
    Ikes <- TwoIkes
    Confs <- Decoupling
INVARIANTS
    CoupledHasAll
CHECK_DEADLOCK FALSE
