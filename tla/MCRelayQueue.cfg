SPECIFICATION RelayFairSpec
CONSTANTS
    Login = {l1}
    Msg = {m1}
    Worker = {m1, w1}
    Rcpt = {r1, r2}
    Password = {p1, p2}
    FirstPw = p1
    Nothing = Nothing
    MaxEvents = 1
    MaxDoubts = 1
    l1 = l1
    m1 = m1
    w1 = w1
    r1 = r1
    r2 = r2
    p1 = p1
    p2 = p2
INVARIANT RelayTypeOK
INVARIANT CopiesExplained
PROPERTY StoreRespected
PROPERTY EveryMessageSettles
