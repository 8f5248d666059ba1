SPECIFICATION VerdictSpec
CONSTANTS
    Protocols = {"tcp_shell", "telnet", "ftp", "http"}
    Lines <- MCLines
    Gaps = {0, 5}
    ConnectionCounts <- MCConnectionCounts
    MaxLines = 5
    MaxAttempts = 3
    MaxTicks = 1
INVARIANTS SeriousDecides LoginCheckExact LiveEvidenceStands
CHECK_DEADLOCK FALSE
