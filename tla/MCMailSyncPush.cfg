SPECIFICATION Spec
CONSTANTS
    Folder = {f1, f2}
    INBOX = INBOX
    Plain = {f1}
    Exposed0 = {f1}
    Mail = {m1}
    MaxChanges = 0
    MaxCrashes = 0
    f1 = f1
    f2 = f2
    m1 = m1
INVARIANT SignalNotMissed
