CONSTANTS
    c1 = c1
    Cpty = {c1}
    Limit <- MCLimit
    Credit <- MCCredit
    Trader = {t1, t2}
    Amount = {3, 5}
    MaxGross = 22
    None = none
SPECIFICATION Spec
INVARIANT GrowNeedsNoCriticalBreak
