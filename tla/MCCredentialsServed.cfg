SPECIFICATION FairSpec
CONSTANTS
    Login = {l1}
    Worker = {w1}
    Password = {p1}
    FirstPw = p1
    Nothing = Nothing
    MaxEvents = 0
    l1 = l1
    w1 = w1
    p1 = p1
PROPERTY EnrolledIsServed
