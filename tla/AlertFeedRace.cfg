CONSTANTS
    Request = {r1, r2}
    Key = {k1, k2}
    MaxList = 2
    NoOutputs = none
SPECIFICATION Spec
INVARIANT EveryGetFresh
