SPECIFICATION Spec
CONSTANTS
    Ikes <- TwoIkes
    Confs <- AllConfs
INVARIANTS
    MessageWhole
    KernelHolds
    PeerLoadedMatches
    TreesExact
CHECK_DEADLOCK FALSE
