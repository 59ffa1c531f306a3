SPECIFICATION ClaimsSpec
CONSTANTS
    e1 = e1
    r1 = r1
    r2 = r2
    l1 = l1
    l2 = l2
    l3 = l3
    Claim = {e1}
    Request = {r1, r2}
    Document <- MCDocuments
    LineList = {l1, l2, l3}
    MaxClaimed = 2
    MaxEntries = 6
SYMMETRY MCSymmetry
INVARIANTS ClaimsTypeOK PostedOnce ReimbursedWasOwed BooksFollowStatus
CHECK_DEADLOCK FALSE
