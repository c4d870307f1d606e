SPECIFICATION Spec
CONSTANTS
    INTERVAL = 2
    FAIL_INTERVAL = 1
    FAIL_THRESHOLD = 2
    START_GRACE = 2
    CapFloor = 3
    MAX_DAYS = 2
    MAX_OUTAGES = 3
    DayLength = 5
    Unknown = Unknown
    MaxClock = 9
    MaxRewind = 2
    Rewinds = {2}
    MaxCrashes = 2
    OffTimes = {0, 6}
INVARIANT TypeOK
INVARIANT Conserved
INVARIANT NotGuessed
INVARIANT DailyWithinLifetime
INVARIANT LedgerExplained
INVARIANT FailsFollowOutage
INVARIANT AlertedUnlessRestarted
PROPERTY NeverTakenBack
PROPERTY DownNotRepeated
CHECK_DEADLOCK FALSE
