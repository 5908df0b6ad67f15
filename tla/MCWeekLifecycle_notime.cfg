SPECIFICATION Spec
SYMMETRY Symmetry
CONSTANTS
    Admins = {a1, a2}
    Readers = {r1}
    Ops = {"create", "update", "content", "rollback", "delete"}
    MaxId = 1
    MaxNumber = 1
    MaxTime = 3
    KeepSnapshots = 2
INVARIANTS ScheduledHasTime
