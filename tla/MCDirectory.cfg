SPECIFICATION FairSpec
CONSTANTS
    Points = {p1, p2}
    Replicas = {server, client, d}
    Server = server
    Client = client
    None = None
    MaxRevision = 3
    Budgets <- MixedBudgets
INVARIANTS RevisionsIncrease NoLostWakeup LookupNewest
PROPERTY ChurnPublishes
CHECK_DEADLOCK FALSE
