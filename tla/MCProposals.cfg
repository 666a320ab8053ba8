SPECIFICATION Spec
CHECK_DEADLOCK FALSE
CONSTANTS
    Confs <- MCConfs
    Rounds = 3
INVARIANTS
    Agreement
    SettledByPolicy
    FirstChoice
