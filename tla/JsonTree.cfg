SPECIFICATION Spec
CONSTANTS
    Items = {i1, i2, i3, i4}
    Kinds <- MCKinds
    Names <- MCNames
    MaxStale = 1
    MaxMixed = 3
    NULL = NULL
SYMMETRY Symmetry
INVARIANTS
    LinksConsistent
    CacheCurrent
    TextRoundTrip
