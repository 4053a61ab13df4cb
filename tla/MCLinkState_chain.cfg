SPECIFICATION FairSpec
CONSTANTS
    n1 = n1
    n2 = n2
    n3 = n3
    Nodes = {n1, n2, n3}
    Workers = {w1}
    None = None
    Dials <- ChainDials
    Budgets <- ChainBudgets
INVARIANTS FloodComplete
PROPERTY Converges
CHECK_DEADLOCK FALSE
