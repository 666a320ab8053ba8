SPECIFICATION Spec
CONSTANTS
    MaxReq <- MCMaxReq
    Sizes <- MCSizes
    FragMax = 2
INVARIANTS
    FragmentsCounted
    DeliveredWhole
PROPERTIES
    RequestKept
CHECK_DEADLOCK FALSE
