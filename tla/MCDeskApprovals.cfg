CONSTANTS
    Target = {a, b}
    Listed = {a}
    Request = {r1, r2}
    MaxCycle = 2
SYMMETRY Symmetric
SPECIFICATION Spec
INVARIANTS TypeOK AnswerIsOwn DecisionIsServed
PROPERTY OnlyRequestsDecide
