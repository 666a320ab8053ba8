SPECIFICATION Spec
CONSTANTS
    Initiator = "I"
    Responder = "R"
    Nonces <- MCNonces
    Confs <- MCConfs
INVARIANTS
    LoadedIsReal
    Agreement
    OnePairLeft
    TrafficKept
PROPERTIES
    ExpiryServed
