SPECIFICATION Spec
CONSTANTS
    MaxAttempts = 1
    MaxResp = 1
    Confs <- Managed
    Sticky = FALSE
PROPERTIES
    ClosingIsFinal
CHECK_DEADLOCK FALSE
