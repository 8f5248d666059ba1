CONSTANTS
    w1 = w1  w2 = w2  r1 = r1  r2 = r2  e1 = e1  e2 = e2  p1 = p1  p2 = p2
    Workers = {w1, w2}
    Requests = {r1, r2}
    Emails = {e1, e2}
    Passwords = {p1, p2}
    MaxAttempts = 1
    MaxVersion = 1
    MaxCookies = 1
    NoUser = NoUser
    Nobody = Nobody
SPECIFICATION Spec
INVARIANTS OneAccount RevokedIsRejected AttemptsBounded SecretsAgree
SYMMETRY Symmetry
CHECK_DEADLOCK FALSE
