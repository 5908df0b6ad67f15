SPECIFICATION Spec
SYMMETRY CallSymmetry
CONSTANTS
    Requests = {r1, r2, r3, r4, r5, r6}
    Keys = {k1}
    MaxConcurrency = 2
    QueueSize = 1
    RatePerMinute = 4
    Window = 1
    MaxTime = 2
INVARIANTS TypeOK PermitsConserved NoLostWakeup RateBound
PROPERTIES NoOvertaking ImplementsPool
