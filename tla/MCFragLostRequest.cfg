SPECIFICATION Spec
CONSTANTS
    MaxReq <- OneEach
    Sizes <- WholeOrTwo
    FragMax = 2
INVARIANTS
    NeverLost
CHECK_DEADLOCK FALSE
