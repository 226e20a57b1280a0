SPECIFICATION Spec
CONSTANTS
    GrowStep = 32
    Move = 1000
    IntHalf = 5
    Names <- MCNames
    Contents <- MCContentsByName
    Messages <- MCMessages
    EnvVars <- MCEnvVars
    MaxRuns = 2
    MaxTricks = 2
INVARIANTS
    RunsAsWritten
    BlobmsgRoundTrip
CHECK_DEADLOCK FALSE
