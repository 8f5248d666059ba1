SPECIFICATION Spec
CONSTANTS
    r1 = r1
    r2 = r2
    r3 = r3
    s1 = s1
    s2 = s2
    s3 = s3
    shared = shared
    ip = ip
    Runs = {r1, r2, r3}
    Sessions = {s1, s2, s3}
    Pairs = {shared}
    Shared = shared
    Ips = {ip}
    SessionOf <- MCSessionOwn
    PairsOf <- MCPairsShared
    RankOf <- MCRankOf
    IpOf <- MCIpOf
    MinSessions = 2
    BatchSize = 2
    Services = {honeypot}
    Operators = {}
    NoProc = NoProc
    MaxAborts = 0
PROPERTY ClosedIssueReopens
