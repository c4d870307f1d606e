SPECIFICATION FairSpec
CONSTANTS
    Login = {l1, l2}
    Worker = {w1}
    Password = {p1, p2}
    FirstPw = p1
    Nothing = Nothing
    MaxEvents = 1
    l1 = l1
    l2 = l2
    w1 = w1
    p1 = p1
    p2 = p2
INVARIANT TypeOK
INVARIANT VouchedOnly
PROPERTY OncePerWindow
PROPERTY StaleSecretDropped
PROPERTY GoodPasswordGetsIn
PROPERTY VaultRespected
