SPECIFICATION Spec
CONSTANTS
    n1 = n1
    n2 = n2
    n3 = n3
    Nodes = {n1, n2}
    Workers = {w1, w2}
    None = None
    Dials <- PairDials
    Budgets <- PairBudgets
SYMMETRY PairSymmetry
INVARIANTS NewestAdvertisesPeers NeighboursCurrent StaleOnlyIfOutnumbered NoEquivocation
CHECK_DEADLOCK FALSE
