SPECIFICATION Spec
CONSTANTS
    r1 = r1
    r2 = r2
    Request = {r1}
    Period = {1}
    NumAccounts = 2
    NormalSide <- MCNormalSide2
    TypeSide <- MCTypeSide2
    Lines <- MCLines2
    MaxEntries = 4
INVARIANTS TypeOK LedgerInBalance BooksMatchJournal NumbersGapFree CorrectedOnce
PROPERTIES EntryLifecycle PostedImmutable
