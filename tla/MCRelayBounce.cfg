SPECIFICATION RelaySpec
CONSTANTS
    Login = {l1}
    Msg = {m1}
    Worker = {m1}
    Rcpt = {r1, r2}
    Password = {p1}
    FirstPw = p1
    Nothing = Nothing
    MaxEvents = 0
    MaxDoubts = 1
    l1 = l1
    m1 = m1
    r1 = r1
    r2 = r2
    p1 = p1
PROPERTY OnlyUniversityBounces
