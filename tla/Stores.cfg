SPECIFICATION Spec
CONSTANTS
    MaxKey = 12
    MaxNode = 13
    Nodes <- MCNodes
    key <- MCKey
    MaxShared = 6
    MaxGaps = 3
    SearchKeys <- MCSearchKeys
    VlistNodes <- MCSmall
    MaxVersion = 3
    KvNodes <- MCSmall
    Values = {v, w}
    NULL = NULL
INVARIANTS
    SearchTree
    Balanced
    FindExact
    ContentsExact
