SPECIFICATION ChartSpec
CONSTANTS
    a1 = a1
    a2 = a2
    a3 = a3
    r1 = r1
    r2 = r2
    none = none
    Account = {a1, a2, a3}
    Request = {r1, r2}
    NoParent = none
INVARIANTS ChartTypeOK ChartIsATree
PROPERTY WalksEnd
