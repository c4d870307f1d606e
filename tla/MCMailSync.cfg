SPECIFICATION FairSpec
CONSTANTS
    Folder = {f1, f2}
    INBOX = INBOX
    Plain = {f1}
    Exposed0 = {f1}
    Mail = {m1}
    MaxChanges = 1
    MaxCrashes = 1
    f1 = f1
    f2 = f2
    m1 = m1
INVARIANT TypeOK
PROPERTY LiveFolderStays
PROPERTY SubscribedOnce
PROPERTY MailArrives
PROPERTY WatcherBack
PROPERTY MailRespected
