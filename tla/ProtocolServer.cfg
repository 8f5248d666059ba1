SPECIFICATION FairSpec
CONSTANTS
    telnet = telnet
    ftp = ftp
    http = http
    Conns = {telnet, ftp, http}
    KindOf <- MCKindOf
    MaxConnections = 1
    MaxAttempts = 2
    NoRecord = NoRecord
INVARIANTS WithinLimit WaitedLosesNothing
PROPERTY EverythingEnds
CHECK_DEADLOCK FALSE
