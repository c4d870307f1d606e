SPECIFICATION Spec
CONSTANTS
    INTERVAL = 2
    FAIL_INTERVAL = 1
    FAIL_THRESHOLD = 2
    START_GRACE = 2
    CapFloor = 3
    MAX_DAYS = 2
    MAX_OUTAGES = 3
    DayLength = 5
    Unknown = Unknown
    MaxClock = 9
    MaxRewind = 0
    Rewinds = {2}
    MaxCrashes = 1
    OffTimes = {0, 6}
INVARIANT SustainedIsAlerted
CHECK_DEADLOCK FALSE
