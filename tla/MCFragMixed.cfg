SPECIFICATION Spec
CONSTANTS
    MaxReq <- OneEach
    Sizes <- WholeOrTwo
    FragMax = 2
INVARIANTS
    NeverMixed
CHECK_DEADLOCK FALSE
