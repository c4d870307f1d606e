SPECIFICATION FairSpec
CONSTANTS
    Roles = {r1, r2}
    Roles0 = r1
    Untagged = Untagged
    MaxChanges = 1
    r1 = r1
    r2 = r2
PROPERTY TagsApplied
