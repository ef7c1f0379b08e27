CONSTANTS
    Key = {k1, k2}
    Quantity = {1000, 1001, 1101}
    Value = {199, 200}
    MaxPositions = 2
    MaxHoldings = 2
SYMMETRY Symmetric
SPECIFICATION Spec
INVARIANTS
    TypeOK
    AllOrNothing
    NothingLost
    CleanMeansAgreed
