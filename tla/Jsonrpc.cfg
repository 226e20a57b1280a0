SPECIFICATION Spec
CONSTANTS
    Peers <- MCPeers
    Caller = "caller"
    Calls <- MCCalls
    Scripts <- MCScripts
    MaxCalls = 2
    MaxFails = 1
    Edge = TRUE
    Chunk = 4
    SockRoom = 5
INVARIANTS
    RepliesExact

    
CHECK_DEADLOCK FALSE
