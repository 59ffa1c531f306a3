SPECIFICATION CloseSpec
CONSTANTS
    r1 = r1
    m1 = m1
    m2 = m2
    Request = {r1}
    Manager = {m1}
    Period = {1}
    NumAccounts = 5
    NormalSide <- MCNormalSide
    TypeSide <- MCTypeSide
    Revenue = {2}
    Expense = {3}
    IncomeSummary = 4
    RetainedEarnings = 5
    Lines <- MCLinesSale
    MaxEntries = 5
INVARIANTS CloseTypeOK BooksMatchJournal OpenPeriodIsUndone
