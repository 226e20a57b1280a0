SPECIFICATION FairSpec
CONSTANTS
    Procs = {p1, p2, p3}
    MaxPid = 2
    MaxDepth = 2
    NULL = NULL
    Dangling = Dangling
INVARIANTS
    ListSorted
    WalkNotLost
    ZombieNoticed
    NoWatcherLeftBehind
PROPERTIES
    ZombieReaped
