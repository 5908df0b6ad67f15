SPECIFICATION Spec
SYMMETRY AdminSymmetry
CONSTANTS
    Admins = {a1, a2}
    Ops = {"problem", "cases", "solution", "verify"}
    Texts = {t1}
    Codes = {c1, c2}
    MaxCases = 1
    MaxVersion = 8
    MaxEdits = 8
    KeepSnapshots = 2
INVARIANTS VerifiedWasJudged
