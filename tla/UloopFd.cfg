SPECIFICATION Spec
CONSTANTS
    a = a
    b = b
    NULL = NULL
    HUP = "HUP"
    Fds <- MCFds
    EdgeFds <- MCEdgeFds
    ErrorFds <- MCErrorFds
    Events <- MCEvents
    MaxEvents = 2
    MaxDepth = 2
INVARIANTS
    EdgesKept
    NotReentered
    RegisteredIffPolled
PROPERTIES
    NoCallbackAfterDelete
