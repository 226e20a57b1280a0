SPECIFICATION Spec
CONSTANTS
    Timers = {t1, t2}
    Msecs <- MCMsecs
    Steps <- MCSteps
    StartClock = 999100
    MaxClock = 1000400
    MaxDepth = 2
    MaxLag = 1100000
    IntHalf = 4096
SYMMETRY Symmetry
INVARIANTS
    TypeOK
    LinkedIffPending
    DeadlineExact
    NearSorted
    TimelyDispatch
    SleepBounded
    RemainingAccurate
PROPERTIES
    NeverEarly
