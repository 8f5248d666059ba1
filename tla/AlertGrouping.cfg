SPECIFICATION FairSpec
CONSTANTS
    Sessions = {s1, s2}
    Keys = {k1}
    KeysOf <- MCKeysOf
    Ranks = {2, 3, 4}
    Callers = {c1, c2}
    Timers = {t1, t2, t3}
    Window = 2
    PruneEvery = 1
    MaxTracked = 2
    NoGroup = NoGroup
    NoTimer = NoTimer
    MaxHeld = 3
    MaxExits = 1
INVARIANTS HeldHasTimer CountExact
PROPERTIES HeldIsReported OncePerLevel
