SPECIFICATION IntroFairSpec
CONSTANTS
    MaxCircuits = 3
    Requests = {r1, r2}
    NoCircuit = NoCircuit
    IntroBudgets <- MixedBudgets
INVARIANTS SessionRegistered DeliveredAfterAck
PROPERTY Recovers
CHECK_DEADLOCK FALSE
