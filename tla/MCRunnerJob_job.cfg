SPECIFICATION FairSpec
CONSTANTS
    TestCases = {1, 2, 3}
    Enabled = {1, 2}
    Public = {1, 3}
    MaxCases = 2
    Modes = {"sample", "custom", "all"}
    TimeLimits = {20000, 20001}
    MaxOutput = 1
    KeepErr = 1
    PipeSize = 1
    MaxWrites = 2
    OwnCodes = {0, 137}
    Signals = {9, 25}
INVARIANTS TypeOK AcceptedIsEarned OutputLimitExact VerdictTellsTheEnding NothingSurvives JobVerdictEarned JudgedAfterEveryRun HiddenStaysHidden LimitsRefused JobLeavesNothing
PROPERTIES JobAnswered
