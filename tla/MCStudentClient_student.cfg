SPECIFICATION FairSpec
CONSTANTS
    Weeks = {1, 2}
    Past = {2}
    Single = {2}
    Edited = {1}
    AtFirst = {1}
    MaxEvents = 2
    MaxLoads = 2
INVARIANTS TypeOK DraftsBelong ShownIsStored ResultBelongs
PROPERTIES StaleWeekFlagged
