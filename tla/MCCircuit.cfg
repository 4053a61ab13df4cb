SPECIFICATION CircuitFairSpec
CONSTANTS
    Hops = 3
    Capacity = 2
    NoCell = NoCell
    Budgets <- StreamBudgets
INVARIANTS InSequence Owned StreamIntact
PROPERTIES TornDown EndReaches
CHECK_DEADLOCK FALSE
