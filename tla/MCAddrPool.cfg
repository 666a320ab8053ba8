SPECIFICATION Spec
CONSTANTS
    s1 = s1
    s2 = s2
    s3 = s3
    NoId = NoId
    c1 = c1
    c2 = c2
    Sas = {s1, s2, s3}
    Clients = {c1, c2}
    Configs <- MCConfigs
    Requests <- SomeRequests
SYMMETRY Symmetry
INVARIANTS
    WalkFindsFree
PROPERTIES
    TreeExact
    LeaseKept
CHECK_DEADLOCK FALSE
