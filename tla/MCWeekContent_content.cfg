SPECIFICATION Spec
CONSTANTS
    Admins = {a1}
    Ops = {"problem", "cases", "solution", "import", "rollback", "verify", "resave", "legacy"}
    Texts = {t1}
    Codes = {c1, c2}
    MaxCases = 1
    MaxVersion = 5
    MaxEdits = 3
    KeepSnapshots = 2
INVARIANTS TypeOK VerifiedWasJudged
