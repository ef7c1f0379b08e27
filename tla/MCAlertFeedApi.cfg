CONSTANTS
    Request = {r1, r2}
    Key = {k1, k2}
    MaxList = 3
    NoOutputs = none
SPECIFICATION Spec
SYMMETRY Symmetric
INVARIANTS
    TypeOK
    SuppressedWasFired
    DuplicateNeedsReset
    AloneIsFresh
