SPECIFICATION FairSpec
CONSTANTS
    KeyModes <- AllModes
    Generated = {k1, k2, k3, k4}
    Secret = {s1, s2}
    Nothing = Nothing
    Empty = Empty
    MaxTroubles = 2
    MaxKills = 2
    k1 = k1
    k2 = k2
    k3 = k3
    k4 = k4
    s1 = s1
    s2 = s2
INVARIANT TypeOK
INVARIANT KeySurvives
PROPERTY KillsLoseNothing
PROPERTY StartsUnlessCut
