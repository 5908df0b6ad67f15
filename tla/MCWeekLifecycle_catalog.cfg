SPECIFICATION FairSpec
CONSTANTS
    Admins = {a1}
    Readers = {r1, r2}
    Ops = {"create", "update", "content", "rollback", "delete"}
    MaxId = 1
    MaxNumber = 2
    MaxTime = 2
    KeepSnapshots = 1
INVARIANTS TypeOK ScheduledHasTime
PROPERTIES ImplementsCatalog OnlyCommandsHide DueWeekIsPublished
