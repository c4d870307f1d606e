SPECIFICATION FairSpec
CONSTANTS
    MAX_STEPS = 5
    ENTRA_STEPS = 2
    Skew = 3
    MaxWindow = 1
INVARIANT TypeOK
INVARIANT GoodSignInSucceeds
PROPERTY SignInEnds
PROPERTY KeepsPromise
CHECK_DEADLOCK FALSE
