SPECIFICATION DepositsSpec
CONSTANTS
    i1 = i1
    i2 = i2
    p1 = p1
    p2 = p2
    d1 = d1
    d2 = d2
    Document = {i1, i2, p1, p2}
    Invoice = {i1, i2}
    Payment = {p1, p2}
    Deposit = {d1, d2}
    Destinations = {"UNDEPOSITED_FUNDS"}
    MaxDocuments = 3
    MaxAmount = 2
    MaxEntries = 4
SYMMETRY MCSymmetry
INVARIANTS DepositsTypeOK InvoiceInBooks UnappliedIsTheRest SettledByPayments
           VoidIsEmpty HeldOnce
PROPERTIES InvoicesKeepBooks
