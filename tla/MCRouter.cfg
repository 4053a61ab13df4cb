SPECIFICATION RouteSpec
CONSTANTS
    Identities = {1, 2, 3, 4, 5}
    NoRoute = NoRoute
    Tables <- AllTables
INVARIANTS RoutesUsable ShortestFirst
CHECK_DEADLOCK FALSE
