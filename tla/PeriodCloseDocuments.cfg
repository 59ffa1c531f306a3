SPECIFICATION DocumentsSpec
CONSTANTS
    r1 = r1
    m1 = m1
    m2 = m2
    Request = {r1}
    Manager = {m1, m2}
    Period = {1}
    NumAccounts = 5
    NormalSide <- MCNormalSide
    TypeSide <- MCTypeSide
    Revenue = {2}
    Expense = {3}
    IncomeSummary = 4
    RetainedEarnings = 5
    Lines <- MCLines
    MaxEntries = 7
INVARIANTS LedgerInBalance BooksMatchJournal
PROPERTIES CloseLeavesNothing
