SPECIFICATION VouchersSpec
CONSTANTS
    c1 = c1
    m1 = m1
    d1 = d1
    Document = {c1, m1, d1}
    VendorCredit = {c1}
    MileageLog = {m1}
    PerDiem = {d1}
    MaxVoucher = 1
    MaxEntries = 4
INVARIANTS VouchersTypeOK DeletedCreditIsOut
PROPERTIES VouchersKeepBooks
CHECK_DEADLOCK FALSE
