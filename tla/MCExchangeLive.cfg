SPECIFICATION FairSpec
CONSTANTS
    MaxReq <- OneEach
    Tries = 1
    FirstId <- AfterRekey
    Setups <- LiveSetups
PROPERTIES
    RequestSettles
    CloseDetected
CHECK_DEADLOCK FALSE
