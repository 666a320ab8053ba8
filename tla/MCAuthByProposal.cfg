SPECIFICATION FairSpec
CONSTANTS
    MaxAttempts = 1
    MaxResp = 1
    Confs <- ByProposal
    Sticky = FALSE
PROPERTIES
    Converges
CHECK_DEADLOCK FALSE
