SPECIFICATION MeetFairSpec
CONSTANTS
    Client = Client
    N = 2
    Conns = {"k1", "k2"}
    Paths <- MCPaths
    None = None
    Budgets <- MCBudgets
INVARIANT Meeting
PROPERTY Meets
PROPERTY Released
CHECK_DEADLOCK FALSE
