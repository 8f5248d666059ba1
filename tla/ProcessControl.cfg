CONSTANTS
    s1 = s1  s2 = s2  k1 = k1
    Starts = {s1, s2}
    Stops = {k1}
    Foreign = {s2}
    Pids = {1, 2, 3}
    MaxFaults = 1
    Nobody = Nobody
    Stranger = Stranger
SPECIFICATION Spec
INVARIANTS StopReportsTruth SparesStrangers
PROPERTY EndsTogether
CHECK_DEADLOCK FALSE
