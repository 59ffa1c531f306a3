SPECIFICATION Spec
CONSTANTS
    r1 = r1
    r2 = r2
    Request = {r1, r2}
    Period = {1}
    NumAccounts = 2
    NormalSide <- MCNormalSide2
    TypeSide <- MCTypeSide2
    Lines <- MCLines2
    MaxEntries = 3
INVARIANTS LedgerInBalance VoidedLeavesTrace
SYMMETRY MCSymmetry
