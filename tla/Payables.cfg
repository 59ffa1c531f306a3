SPECIFICATION PayablesSpec
CONSTANTS
    b1 = b1
    b2 = b2
    q1 = q1
    q2 = q2
    Document = {b1, b2, q1, q2}
    Bill = {b1, b2}
    BillPayment = {q1, q2}
    MaxPayables = 3
    MaxPaid = 2
    MaxNegative = 1
    MaxEntries = 4
SYMMETRY MCSymmetry
INVARIANTS PayablesTypeOK BillCarriedOnce BillBalanceIsTheRest
PROPERTIES BillLeavesUnpaid
CHECK_DEADLOCK FALSE
