CONSTANTS
    Category = {recall, limit}
    Entity = {e1, e2}
    BookWide = book
    RaisedSeverity = {"HIGH", "CRITICAL"}
    Interval = 2
    MassThreshold = 2
    MaxBatch = 3
    MaxClock = 3
    Never = never
SPECIFICATION Spec
INVARIANTS
    TypeOK
    ConditionsAccounted
    ShownSeverityIsWorst
    RankIsTriageOrder
    CategoryBounded
PROPERTY RateLimited
SYMMETRY Symmetric
