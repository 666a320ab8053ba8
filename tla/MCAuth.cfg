SPECIFICATION FairSpec
CONSTANTS
    MaxAttempts = 2
    MaxResp = 2
    Confs <- AllConfs
    Sticky = FALSE
INVARIANTS
    EstablishedIsVerified
    OneMessagePerId
PROPERTIES
    HalfOpenEnds
    RefusalReaches
    Converges
CHECK_DEADLOCK FALSE
