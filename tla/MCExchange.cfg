SPECIFICATION Spec
CONSTANTS
    MaxReq <- TwoByOne
    Tries = 1
    FirstId <- AfterAuth
    Setups <- SafetySetups
INVARIANTS
    RunsInOrder
    AnswersAreReal
    ExchangeAccounted
    NoRequestSkipped
    TimersArmed
    RekeyAgreement
CHECK_DEADLOCK FALSE
