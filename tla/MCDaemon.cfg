SPECIFICATION Spec
CHECK_DEADLOCK FALSE
CONSTANTS
    Confs <- MCConfs
    Fds = {3, 4}
INVARIANTS
    ActivatedWhole
    LookupExact
    AnswerToAsker
PROPERTIES
    PolicyRefs
    NobodyLeftWaiting
