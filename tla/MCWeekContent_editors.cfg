SPECIFICATION Spec
SYMMETRY AdminSymmetry
CONSTANTS
    Admins = {a1, a2}
    Ops = {"problem", "cases", "solution", "import", "rollback", "verify"}
    Texts = {t1}
    Codes = {c1}
    MaxCases = 2
    MaxVersion = 4
    MaxEdits = 3
    KeepSnapshots = 2
INVARIANTS NewestSnapshotIsContent SnapshotsInOrder
PROPERTY ImplementsLog
