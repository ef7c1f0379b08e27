CONSTANTS
    a = a
    b = b
    c1 = c1
    c2 = c2
    None = none
    Security = {a, b}
    Cpty = {c1, c2}
    IssuerOf <- MCIssuerOf
    Limit <- MCLimit
    OpeningBook <- MCBook
    IssuerCapPct = 50
    DustPct = 40
SPECIFICATION Spec
INVARIANTS
    TypeOK
    JointlyExecutable
    ExcessIsWhatStays
    IssuerCapped
