SPECIFICATION Spec
CONSTANTS
    SmallData = 2
    ReadLimits <- OneBuffer
    WriteLimits <- TwoBuffers
    MaxIn = 4
    MaxOut = 3
    SockRoom = 1
CHECK_DEADLOCK FALSE
INVARIANTS
    BytesInOrder
    BuffersConsistent
    NeverStuck
    StateReported
