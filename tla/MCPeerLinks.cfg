SPECIFICATION FairSpec
CONSTANTS
    Conns = {c1, c2, c3}
    None = None
    Configured <- Loops
    Discovered <- Candidates
    DialerSets <- MixedSets
    MaxFailures = 2
INVARIANTS MapMatchesConnections EndsAgree CrossingDialsSurvive
PROPERTIES PreferredStays StaysConnected
CHECK_DEADLOCK FALSE
