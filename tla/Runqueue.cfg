SPECIFICATION Spec
CONSTANTS
    Tasks = {p, u}
    Processes = {p}
    HasRunTimeout = {p}
    HasCancelTimeout = {p}
    max_running_tasks = 1
    NULL = NULL
    MaxStack = 7
INVARIANTS
    ListsConsistent
    LimitKept
    NoLostWakeup
    TasksWatched
