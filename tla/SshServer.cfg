SPECIFICATION FairSpec
CONSTANTS
    c1 = c1
    c2 = c2
    c3 = c3
    h1 = h1
    h2 = h2
    h3 = h3
    Conns = {c1, c2}
    Channels = {h1, h2}
    ConnOf <- MCConnOf
    MaxConnections = 1
    MaxCommands = 2
    NoRecord = NoRecord
INVARIANTS SlotsExact LoggedOnce StageTruthful
PROPERTY EverythingEnds
CHECK_DEADLOCK FALSE
