--------------------------- MODULE PayablesProofs ----------------------------
(***************************************************************************)
(* Rows of bills and payments are well formed, Accounts Payable carries a  *)
(* bill exactly while its entry is in force, and what a bill is owed is    *)
(* its total less the sum of what was paid of it, for any number of bills  *)
(* and payments and any amounts.                                           *)
(***************************************************************************)
EXTENDS Payables, SubLedgerProofs

Approved == {"APPROVED", "PARTIALLY_PAID", "PAID"}

(* A bill is owed less than nothing only where its total is.               *)
BillRow ==
    {row \in [status : BillStatus, postingStatus : {"DRAFT", "POSTED", "VOIDED"},
              total : BillTotal, lines : Amount, balance : BillTotal,
              journalEntryId : Nat] :
        row.balance < 0 => row.balance = row.total}

BillPaymentRow == [amount : Amount, billId : Bill \cup {"none"},
                   postingStatus : {"DRAFT", "POSTED"}, journalEntryId : Nat]

RowsOK ==
    /\ bill \in [Bill -> BillRow]
    /\ billPayment \in [BillPayment -> BillPaymentRow]
    /\ billApplied \in [BillPayment -> Applications]
    /\ JournalTypeOK

(* A bill and the books agree.  A bill whose entry is in force is          *)
(* approved, so that editing and deleting, which drop the lines or the     *)
(* link, do not reach it; one that has no entry is not in the books, so    *)
(* that approving it brings them to what its lines come to; and an         *)
(* approved bill says POSTED, which is what unapproving goes by.           *)
BillSound(b) ==
    LET row == bill[b]
        e == row.journalEntryId
    IN  /\ AlreadyPosted(row) =>
              /\ e \in DOMAIN journal
              /\ journal[e].doc = b
              /\ journal[e].amount \in Nat
              /\ IF journal[e].postingStatus = "POSTED"
                 THEN /\ control[b] = row.lines /\ journal[e].amount = row.lines
                      /\ row.status \in Approved
                 ELSE control[b] <= 0
        /\ ~AlreadyPosted(row) => control[b] <= 0
        /\ ~AlreadyPosted(row) /\ row.status # "DELETED" => control[b] = 0
        /\ row.status \in Approved => row.postingStatus = "POSTED"
        /\ row.status = "NONE" => ~AlreadyPosted(row)

PaymentSound(p) ==
    AlreadyPosted(billPayment[p]) => billPayment[p].journalEntryId \in DOMAIN journal

PayingSound ==
    \/ paying = NotPaying
    \/ paying \in [step : {"post", "mark"}, payment : BillPayment]

PayablesInv ==
    /\ RowsOK
    /\ \A b \in Bill : BillSound(b)
    /\ \A p \in BillPayment : PaymentSound(p)
    /\ PayingSound

-----------------------------------------------------------------------------
(* A bill whose row stays is as sound as it was while other documents post.*)
LEMMA OtherBills ==
    ASSUME PayablesInv, NEW d \in Document, Elsewhere(d),
           NEW b \in Bill \ {d}, bill'[b] = bill[b]
    PROVE  BillSound(b)'
<1>1. BillSound(b) /\ b \in Document
  BY PayablesAssumption DEF PayablesInv
<1>2. control'[b] = control[b]
  BY <1>1 DEF Elsewhere
<1>3. CASE ~AlreadyPosted(bill[b])
  BY <1>1, <1>2, <1>3 DEF BillSound, AlreadyPosted
<1>4. CASE AlreadyPosted(bill[b])
  <2> DEFINE e == bill[b].journalEntryId
  <2>1. e \in DOMAIN journal /\ journal[e].doc = b
    BY <1>1, <1>4 DEF BillSound
  <2>2. e \in DOMAIN journal' /\ journal'[e] = journal[e]
    BY <2>1 DEF Elsewhere
  <2> QED
    BY <1>1, <1>2, <1>4, <2>1, <2>2 DEF BillSound, AlreadyPosted
<1> QED
  BY <1>3, <1>4

(* What is left to show of an operation on a single bill.                  *)
LEMMA BillStepSound ==
    ASSUME PayablesInv, NEW b \in Bill, NEW row \in BillRow,
           bill' = [bill EXCEPT ![b] = row],
           OnlyBill, JournalTypeOK', Elsewhere(b), BillSound(b)'
    PROVE  PayablesInv'
<1>1. /\ bill' \in [Bill -> BillRow]
      /\ \A x \in Bill \ {b} : bill'[x] = bill[x]
  BY DEF PayablesInv, RowsOK
<1>2. \A x \in Bill \ {b} : BillSound(x)'
  BY <1>1, OtherBills, PayablesAssumption
<1>3. RowsOK'
  BY <1>1 DEF PayablesInv, RowsOK, OnlyBill
<1>4. \A p \in BillPayment : PaymentSound(p)'
  BY DEF PayablesInv, PaymentSound, OnlyBill, Elsewhere, AlreadyPosted
<1>5. PayingSound'
  BY DEF PayablesInv, PayingSound, OnlyBill
<1> QED
  BY <1>2, <1>3, <1>4, <1>5 DEF PayablesInv

(* An operation on a bill that leaves its link and the books alone: the    *)
(* amounts may change while no entry of it is in force, and a bill becomes *)
(* approved only where it was.                                             *)
LEMMA BillWriteSound ==
    ASSUME PayablesInv, NEW b \in Bill, NEW row \in BillRow,
           bill' = [bill EXCEPT ![b] = row],
           OnlyBill, UNCHANGED <<journal, control>>,
           row.journalEntryId = bill[b].journalEntryId,
           bill[b].status \notin Approved \cup {"NONE", "DELETED"},
           row.status \notin {"NONE", "DELETED"},
           row.status \in Approved => row.postingStatus = "POSTED"
    PROVE  PayablesInv'
<1>1. bill'[b] = row /\ BillSound(b)
  BY DEF PayablesInv, RowsOK
<1>2. BillSound(b)'
  BY <1>1 DEF BillSound, AlreadyPosted
<1>3. Elsewhere(b) /\ JournalTypeOK'
  BY DEF Elsewhere, PayablesInv, RowsOK, JournalTypeOK
<1> QED
  BY <1>2, <1>3, BillStepSound

-----------------------------------------------------------------------------
(* createBill.                                                             *)
LEMMA CreateBillSound ==
    ASSUME PayablesInv, NEW b \in Bill, CreateBill(b)
    PROVE  PayablesInv'
<1>1. PICK a \in BillAmounts :
         bill' = [bill EXCEPT ![b] = [WithAmounts(NoBill, a) EXCEPT !.status = "DRAFT"]]
  BY DEF CreateBill
<1> DEFINE row == [WithAmounts(NoBill, a) EXCEPT !.status = "DRAFT"]
<1>2. row \in BillRow /\ row.status = "DRAFT" /\ row.journalEntryId = NoEntry
  BY DEF NoBill, WithAmounts, BillAmounts, BillRow, BillStatus, NoEntry
<1>3. bill' = [bill EXCEPT ![b] = row]
  BY <1>1
<1> HIDE DEF row
<1>4. /\ bill[b].status = "NONE" /\ UNCHANGED <<journal, control>> /\ OnlyBill
      /\ BillSound(b) /\ bill'[b] = row
  BY <1>3 DEF CreateBill, Bills, PayablesInv, RowsOK
<1>5. control[b] = 0
  BY <1>4 DEF BillSound
<1>6. BillSound(b)'
  BY <1>2, <1>4, <1>5 DEF BillSound, AlreadyPosted, Approved
<1>7. Elsewhere(b) /\ JournalTypeOK'
  BY <1>4 DEF Elsewhere, PayablesInv, RowsOK, JournalTypeOK
<1> QED
  BY <1>2, <1>3, <1>4, <1>6, <1>7, BillStepSound

(* deleteBill: the draft is not in the books, whatever it was before.      *)
LEMMA DeleteBillSound ==
    ASSUME PayablesInv, NEW b \in Bill, DeleteBill(b)
    PROVE  PayablesInv'
<1> DEFINE row == [NoBill EXCEPT !.status = "DELETED"]
<1>1. 0 \in BillTotal /\ 0 \in Amount
  BY PayablesAssumption DEF BillTotal, Amount
<1>2. row \in BillRow /\ row.status = "DELETED" /\ row.journalEntryId = NoEntry
  BY <1>1 DEF NoBill, BillRow, BillStatus, NoEntry
<1>3. bill' = [bill EXCEPT ![b] = row]
  BY DEF DeleteBill
<1> HIDE DEF row
<1>4. /\ bill[b].status = "DRAFT" /\ UNCHANGED <<journal, control>> /\ OnlyBill
      /\ BillSound(b) /\ bill'[b] = row
  BY <1>3 DEF DeleteBill, PayablesInv, RowsOK
<1>5. control[b] <= 0
  BY <1>4 DEF BillSound, Approved
<1>6. BillSound(b)'
  BY <1>2, <1>4, <1>5 DEF BillSound, AlreadyPosted, Approved
<1>7. Elsewhere(b) /\ JournalTypeOK'
  BY <1>4 DEF Elsewhere, PayablesInv, RowsOK, JournalTypeOK
<1> QED
  BY <1>2, <1>3, <1>4, <1>6, <1>7, BillStepSound

(* updateBill, submitBill and rejectBill.                                  *)
LEMMA DraftStepsSound ==
    ASSUME PayablesInv, NEW b \in Bill,
           UpdateBill(b) \/ SubmitBill(b) \/ RejectBill(b)
    PROVE  PayablesInv'
<1>0. bill \in [Bill -> BillRow] /\ bill[b] \in BillRow
  BY DEF PayablesInv, RowsOK
<1>1. CASE UpdateBill(b)
  <2>1. PICK a \in BillAmounts : bill' = [bill EXCEPT ![b] = WithAmounts(bill[b], a)]
    BY <1>1 DEF UpdateBill
  <2> DEFINE row == WithAmounts(bill[b], a)
  <2>2. /\ row \in BillRow
        /\ row.status = bill[b].status
        /\ row.journalEntryId = bill[b].journalEntryId
    BY <1>0 DEF BillRow, WithAmounts, BillAmounts
  <2>3. bill' = [bill EXCEPT ![b] = row]
    BY <1>0, <2>1
  <2> HIDE DEF row
  <2> QED
    BY <1>1, <2>2, <2>3, BillWriteSound DEF UpdateBill, Approved
<1>2. CASE SubmitBill(b) \/ RejectBill(b)
  <2>1. PICK status \in {"PENDING", "REJECTED"} :
           bill' = [bill EXCEPT ![b].status = status]
    BY <1>2 DEF SubmitBill, RejectBill
  <2> DEFINE row == [bill[b] EXCEPT !.status = status]
  <2>2. /\ row \in BillRow
        /\ row.status \in {"PENDING", "REJECTED"}
        /\ row.journalEntryId = bill[b].journalEntryId
    BY <1>0 DEF BillRow, BillStatus
  <2>3. bill' = [bill EXCEPT ![b] = row]
    BY <1>0, <2>1
  <2> HIDE DEF row
  <2>4. /\ bill[b].status \in {"DRAFT", "REJECTED", "PENDING"}
        /\ OnlyBill /\ UNCHANGED <<journal, control>>
    BY <1>2 DEF SubmitBill, RejectBill
  <2> QED
    BY <2>2, <2>3, <2>4, BillWriteSound DEF Approved
<1> QED
  BY <1>1, <1>2

(* approveBill with postBillToGL.                                          *)
LEMMA ApproveBillSound ==
    ASSUME PayablesInv, NEW b \in Bill, ApproveBill(b)
    PROVE  PayablesInv'
<1>0. /\ bill \in [Bill -> BillRow] /\ bill[b] \in BillRow /\ BillSound(b)
      /\ JournalTypeOK /\ b \in Document
      /\ bill[b].status = "PENDING" /\ OnlyBill
  BY PayablesAssumption DEF ApproveBill, PayablesInv, RowsOK
<1>1. CASE AlreadyPosted(bill[b])
  <2> DEFINE row == [bill[b] EXCEPT !.status = "APPROVED", !.postingStatus = "POSTED"]
  <2>1. bill' = [bill EXCEPT ![b] = row] /\ UNCHANGED <<journal, control>>
    BY <1>0, <1>1 DEF ApproveBill
  <2>2. /\ row \in BillRow
        /\ row.status = "APPROVED" /\ row.postingStatus = "POSTED"
        /\ row.journalEntryId = bill[b].journalEntryId
    BY <1>0 DEF BillRow, BillStatus
  <2> HIDE DEF row
  <2> QED
    BY <1>0, <2>1, <2>2, BillWriteSound DEF Approved
<1>2. CASE ~AlreadyPosted(bill[b])
  <2> DEFINE row == [bill[b] EXCEPT !.status = "APPROVED", !.postingStatus = "POSTED",
                                    !.journalEntryId = NextEntry]
  <2>1. bill' = [bill EXCEPT ![b] = row] /\ CreatePosted(b, bill[b].lines)
    BY <1>0, <1>2 DEF ApproveBill
  <2>2. bill[b].lines \in Nat
    BY <1>0, PayablesAssumption DEF BillRow, Amount
  <2>3. /\ JournalTypeOK'
        /\ \A e \in DOMAIN journal : e \in DOMAIN journal' /\ journal'[e] = journal[e]
        /\ NextEntry \in DOMAIN journal' /\ NextEntry \in Nat \ {NoEntry}
        /\ journal'[NextEntry] = PostedEntry(b, bill[b].lines)
        /\ control'[b] = control[b] + bill[b].lines
        /\ \A x \in Document \ {b} : control'[x] = control[x]
    BY <1>0, <2>1, <2>2, CreatePostedEffect
  <2>4. /\ row \in BillRow
        /\ row.status = "APPROVED" /\ row.postingStatus = "POSTED"
        /\ row.journalEntryId = NextEntry /\ row.lines = bill[b].lines
    BY <1>0, <2>3 DEF BillRow, BillStatus
  <2> HIDE DEF row
  <2>5. bill'[b] = row
    BY <1>0, <2>1
  <2>6. control'[b] = row.lines
    BY <1>0, <1>2, <2>2, <2>3, <2>4 DEF BillSound
  <2>7. /\ journal'[NextEntry].doc = b
        /\ journal'[NextEntry].amount = row.lines /\ row.lines \in Nat
        /\ journal'[NextEntry].postingStatus = "POSTED"
    BY <2>2, <2>3, <2>4 DEF PostedEntry
  <2>8. BillSound(b)'
    BY <2>3, <2>4, <2>5, <2>6, <2>7 DEF BillSound, AlreadyPosted, Approved
  <2>9. Elsewhere(b)
    BY <2>3 DEF Elsewhere
  <2> QED
    BY <1>0, <2>1, <2>3, <2>4, <2>8, <2>9, BillStepSound
<1> QED
  BY <1>1, <1>2

(* The reversal of the entry of a bill, in force or not, followed by a     *)
(* status that is not an approved one.                                     *)
LEMMA ReversalSound ==
    ASSUME PayablesInv, NEW b \in Bill, NEW row \in BillRow,
           AlreadyPosted(bill[b]), PostMirror(bill[b].journalEntryId),
           bill' = [bill EXCEPT ![b] = row], OnlyBill,
           row.status \notin Approved \cup {"NONE"},
           row.journalEntryId = bill[b].journalEntryId
    PROVE  PayablesInv'
<1>0. /\ bill \in [Bill -> BillRow] /\ bill[b] \in BillRow /\ BillSound(b)
      /\ JournalTypeOK /\ b \in Document
  BY PayablesAssumption DEF PayablesInv, RowsOK
<1>2. control[b] \in Int
  BY <1>0 DEF JournalTypeOK
<1> DEFINE e == bill[b].journalEntryId
<1>1. /\ e \in DOMAIN journal /\ journal[e].doc = b /\ e # NoEntry
      /\ journal[e].amount \in Nat
      /\ control[b] <= journal[e].amount
      /\ PostMirror(e)
  BY <1>0, <1>2 DEF BillSound, AlreadyPosted
<1> HIDE DEF e
<1>3. journal[e] \in EntryRow
  <2>1. journal \in Seq(EntryRow)
    BY <1>0 DEF JournalTypeOK, EntryRow
  <2> QED
    BY <1>1, <2>1
<1>4. /\ JournalTypeOK'
      /\ \A x \in DOMAIN journal :
            /\ x \in DOMAIN journal'
            /\ journal'[x].doc = journal[x].doc
            /\ x # e => journal'[x] = journal[x]
      /\ journal'[e] = [journal[e] EXCEPT !.postingStatus = "VOIDED"]
      /\ control'[b] = control[b] - journal[e].amount
      /\ \A x \in Document \ {b} : control'[x] = control[x]
  BY <1>0, <1>1, PostMirrorEffect
<1>5. control'[b] <= 0
  BY <1>1, <1>2, <1>4
<1>6. /\ e \in DOMAIN journal'
      /\ journal'[e].doc = b /\ journal'[e].amount \in Nat
      /\ journal'[e].postingStatus = "VOIDED"
  BY <1>1, <1>3, <1>4 DEF EntryRow
<1>7. bill'[b] = row
  BY <1>0
<1>8. BillSound(b)'
  BY <1>1, <1>5, <1>6, <1>7 DEF BillSound, AlreadyPosted, e
<1>9. Elsewhere(b)
  BY <1>1, <1>4 DEF Elsewhere
<1> QED
  BY <1>4, <1>8, <1>9, BillStepSound

(* unapproveBill with postBillReversalToGL.                                *)
LEMMA UnapproveBillSound ==
    ASSUME PayablesInv, NEW b \in Bill, UnapproveBill(b)
    PROVE  PayablesInv'
<1> DEFINE row == [bill[b] EXCEPT !.status = "DRAFT", !.postingStatus = "DRAFT"]
<1>0. /\ bill \in [Bill -> BillRow] /\ bill[b] \in BillRow /\ BillSound(b)
      /\ bill[b].status = "APPROVED" /\ OnlyBill
  BY DEF UnapproveBill, Unapprovable, PayablesInv, RowsOK
<1>1. /\ row \in BillRow
      /\ row.status = "DRAFT"
      /\ row.journalEntryId = bill[b].journalEntryId
  BY <1>0 DEF BillRow, BillStatus
<1>2. bill' = [bill EXCEPT ![b] = row]
  BY <1>0 DEF UnapproveBill
<1> HIDE DEF row
<1>3. CASE AlreadyPosted(bill[b])
  <2>1. PostMirror(bill[b].journalEntryId)
    BY <1>0, <1>3 DEF UnapproveBill, BillSound, Approved
  <2> QED
    BY <1>0, <1>1, <1>2, <1>3, <2>1, ReversalSound DEF Approved
<1>4. CASE ~AlreadyPosted(bill[b])
  <2>1. UNCHANGED <<journal, control>> /\ bill'[b] = row
    BY <1>0, <1>2, <1>4 DEF UnapproveBill
  <2>2. BillSound(b)'
    BY <1>0, <1>1, <1>4, <2>1 DEF BillSound, AlreadyPosted, Approved
  <2>3. Elsewhere(b) /\ JournalTypeOK'
    BY <2>1 DEF Elsewhere, PayablesInv, RowsOK, JournalTypeOK
  <2> QED
    BY <1>0, <1>1, <1>2, <2>2, <2>3, BillStepSound
<1> QED
  BY <1>3, <1>4

(* voidBill with createReversingJE.                                        *)
LEMMA VoidBillSound ==
    ASSUME PayablesInv, NEW b \in Bill, VoidBill(b)
    PROVE  PayablesInv'
<1> DEFINE row == [bill[b] EXCEPT !.status = "VOIDED", !.postingStatus = "VOIDED"]
<1>0. /\ bill \in [Bill -> BillRow] /\ bill[b] \in BillRow /\ BillSound(b)
      /\ bill[b].status # "DELETED" /\ OnlyBill
  BY DEF VoidBill, Voidable, PayablesInv, RowsOK
<1>1. /\ row \in BillRow
      /\ row.status = "VOIDED"
      /\ row.journalEntryId = bill[b].journalEntryId
  BY <1>0 DEF BillRow, BillStatus
<1>2. bill' = [bill EXCEPT ![b] = row]
  BY <1>0 DEF VoidBill
<1> HIDE DEF row
<1>3. CASE AlreadyPosted(bill[b])
  <2>1. PostMirror(bill[b].journalEntryId)
    BY <1>3 DEF VoidBill, AlreadyPosted
  <2> QED
    BY <1>0, <1>1, <1>2, <1>3, <2>1, ReversalSound DEF Approved
<1>4. CASE ~AlreadyPosted(bill[b])
  <2>1. UNCHANGED <<journal, control>> /\ bill'[b] = row
    BY <1>0, <1>2, <1>4 DEF VoidBill, AlreadyPosted
  <2>2. BillSound(b)'
    BY <1>0, <1>1, <1>4, <2>1 DEF BillSound, AlreadyPosted, Approved
  <2>3. Elsewhere(b) /\ JournalTypeOK'
    BY <2>1 DEF Elsewhere, PayablesInv, RowsOK, JournalTypeOK
  <2> QED
    BY <1>0, <1>1, <1>2, <2>2, <2>3, BillStepSound
<1> QED
  BY <1>3, <1>4

-----------------------------------------------------------------------------
(* What applying an amount, none of it beyond the balance, does to a bill. *)
LEMMA PayBillKeeps ==
    ASSUME NEW row \in BillRow, NEW amount \in Amount,
           amount > 0 => /\ row.status \in {"APPROVED", "PARTIALLY_PAID"}
                         /\ amount <= row.balance
    PROVE  LET new == PayBill(row, amount) IN
              /\ new \in BillRow
              /\ new.total = row.total /\ new.lines = row.lines
              /\ new.journalEntryId = row.journalEntryId
              /\ new.postingStatus = row.postingStatus
              /\ new.status # row.status => {new.status, row.status} \subseteq Approved
<1>1. CASE amount = 0
  BY <1>1 DEF PayBill
<1>2. CASE amount # 0
  <2> DEFINE rest == row.balance - amount
             status == IF row.balance = amount THEN "PAID" ELSE "PARTIALLY_PAID"
  <2>1. amount > 0 /\ amount <= row.balance /\ row.status \in {"APPROVED", "PARTIALLY_PAID"}
    BY <1>2, PayablesAssumption DEF Amount
  <2>2. rest \in BillTotal /\ rest >= 0
    BY <2>1, PayablesAssumption DEF BillRow, BillTotal, Amount
  <2>3. status \in {"PAID", "PARTIALLY_PAID"}
    OBVIOUS
  <2>4. PayBill(row, amount) = [row EXCEPT !.balance = rest, !.status = status]
    BY <1>2 DEF PayBill
  <2> HIDE DEF rest, status
  <2> DEFINE new == [row EXCEPT !.balance = rest, !.status = status]
  <2>5. /\ new.balance = rest /\ new.status = status
        /\ new.total = row.total /\ new.lines = row.lines
        /\ new.journalEntryId = row.journalEntryId
        /\ new.postingStatus = row.postingStatus
        /\ new \in [status : BillStatus, postingStatus : {"DRAFT", "POSTED", "VOIDED"},
                    total : BillTotal, lines : Amount, balance : BillTotal,
                    journalEntryId : Nat]
    BY <2>2, <2>3 DEF BillRow, BillStatus
  <2>6. new \in BillRow
    <3>1. ~(rest < 0)
      BY <2>2 DEF BillTotal
    <3> QED
      BY <2>5, <3>1 DEF BillRow
  <2>7. {new.status, row.status} \subseteq Approved
    BY <2>1, <2>3, <2>5 DEF Approved
  <2> HIDE DEF new
  <2> QED
    BY <2>4, <2>5, <2>6, <2>7 DEF new
<1> QED
  BY <1>1, <1>2

(* A bill that a payment is applied to stays sound.                        *)
LEMMA PaidIsSound ==
    ASSUME NEW b \in Bill, BillSound(b), UNCHANGED <<journal, control>>,
           bill'[b].lines = bill[b].lines,
           bill'[b].journalEntryId = bill[b].journalEntryId,
           bill'[b].postingStatus = bill[b].postingStatus,
           bill'[b].status # bill[b].status =>
              {bill'[b].status, bill[b].status} \subseteq Approved
    PROVE  BillSound(b)'
  BY DEF BillSound, AlreadyPosted, Approved

(* recordBillPayment, the first of its transactions.                       *)
LEMMA RecordBillPaymentSound ==
    ASSUME PayablesInv, NEW p \in BillPayment, RecordBillPayment(p)
    PROVE  PayablesInv'
<1>0. RowsOK /\ \A b \in Bill : BillSound(b)
  BY DEF PayablesInv
<1>1. PICK b \in Bill, amount \in 1 .. MaxPaid, applications \in Applications :
         /\ Applicable(applications, amount)
         /\ billPayment' = [billPayment EXCEPT ![p] =
               [NoBillPayment EXCEPT !.amount = amount, !.billId = b]]
         /\ billApplied' = [billApplied EXCEPT ![p] = applications]
         /\ bill' = [x \in Bill |-> PayBill(bill[x], applications[x])]
  BY DEF RecordBillPayment
<1>2. UNCHANGED <<journal, control>> /\ paying' = [step |-> "post", payment |-> p]
  BY DEF RecordBillPayment
<1>3. ASSUME NEW x \in Bill PROVE bill'[x] \in BillRow /\ BillSound(x)'
  <2>1. /\ bill[x] \in BillRow /\ applications[x] \in Amount
        /\ bill'[x] = PayBill(bill[x], applications[x])
    BY <1>0, <1>1 DEF RowsOK, Applications
  <2>2. applications[x] > 0 => /\ bill[x].status \in {"APPROVED", "PARTIALLY_PAID"}
                               /\ applications[x] <= bill[x].balance
    BY <1>1 DEF Applicable, Payable
  <2>3. /\ bill'[x] \in BillRow
        /\ bill'[x].lines = bill[x].lines
        /\ bill'[x].journalEntryId = bill[x].journalEntryId
        /\ bill'[x].postingStatus = bill[x].postingStatus
        /\ bill'[x].status # bill[x].status =>
              {bill'[x].status, bill[x].status} \subseteq Approved
    BY <2>1, <2>2, PayBillKeeps
  <2> QED
    BY <1>0, <1>2, <2>3, PaidIsSound
<1>4. /\ bill' \in [Bill -> BillRow]
      /\ billApplied' \in [BillPayment -> Applications]
      /\ JournalTypeOK'
  BY <1>0, <1>1, <1>2, <1>3 DEF RowsOK, JournalTypeOK
<1>5. /\ [NoBillPayment EXCEPT !.amount = amount, !.billId = b] \in BillPaymentRow
      /\ [NoBillPayment EXCEPT !.amount = amount, !.billId = b].journalEntryId = NoEntry
  <2>1. amount \in Amount /\ 0 \in Amount /\ b \in Bill \cup {"none"}
    BY PayablesAssumption DEF Amount
  <2> QED
    BY <2>1 DEF NoBillPayment, BillPaymentRow, NoEntry
<1>6. /\ billPayment' \in [BillPayment -> BillPaymentRow]
      /\ billPayment'[p].journalEntryId = NoEntry
      /\ \A q \in BillPayment \ {p} : billPayment'[q] = billPayment[q]
  BY <1>0, <1>1, <1>5 DEF RowsOK
<1>7. \A q \in BillPayment : PaymentSound(q)'
  BY <1>2, <1>6 DEF PaymentSound, PayablesInv, AlreadyPosted
<1>8. PayingSound'
  BY <1>2 DEF PayingSound
<1> QED
  BY <1>3, <1>4, <1>6, <1>7, <1>8 DEF PayablesInv, RowsOK

(* postBillPaymentToGL.                                                    *)
LEMMA PostBillPaymentSound == PayablesInv /\ PostBillPayment => PayablesInv'
<1> SUFFICES ASSUME PayablesInv, PostBillPayment PROVE PayablesInv'
  OBVIOUS
<1>0. RowsOK /\ bill' = bill /\ billApplied' = billApplied
  BY DEF PayablesInv, PostBillPayment
<1> DEFINE p == paying.payment
<1>1. /\ p \in BillPayment
      /\ paying' = [paying EXCEPT !.step = "mark"]
      /\ paying \in [step : {"post", "mark"}, payment : BillPayment]
  BY DEF PayablesInv, PayingSound, PostBillPayment, NotPaying
<1>2. PayingSound'
  BY <1>1 DEF PayingSound
<1>3. CASE UNCHANGED <<journal, control, billPayment>>
  BY <1>0, <1>2, <1>3
     DEF PayablesInv, RowsOK, BillSound, PaymentSound, JournalTypeOK, AlreadyPosted
<1>4. CASE /\ CreatePosted(p, 0 - billPayment[p].amount)
           /\ billPayment' = [billPayment EXCEPT ![p].journalEntryId = NextEntry]
  <2> HIDE DEF p
  <2>1. /\ p \in Document /\ p \notin Bill
        /\ billPayment[p] \in BillPaymentRow
        /\ 0 - billPayment[p].amount \in Int
    BY <1>0, <1>1, PayablesAssumption DEF RowsOK, BillPaymentRow, Amount
  <2>2. /\ JournalTypeOK'
        /\ \A e \in DOMAIN journal : e \in DOMAIN journal' /\ journal'[e] = journal[e]
        /\ NextEntry \in DOMAIN journal' /\ NextEntry \in Nat \ {NoEntry}
        /\ \A x \in Document \ {p} : control'[x] = control[x]
    BY <1>0, <1>4, <2>1, CreatePostedEffect DEF RowsOK
  <2>3. Elsewhere(p)
    BY <2>2 DEF Elsewhere
  <2>4. \A b \in Bill : BillSound(b)'
    BY <1>0, <2>1, <2>3, OtherBills
  <2>5. /\ billPayment' \in [BillPayment -> BillPaymentRow]
        /\ billPayment'[p].journalEntryId = NextEntry
        /\ \A q \in BillPayment \ {p} : billPayment'[q] = billPayment[q]
    <3> DEFINE row == [billPayment[p] EXCEPT !.journalEntryId = NextEntry]
    <3>1. row \in BillPaymentRow /\ row.journalEntryId = NextEntry
      BY <2>1, <2>2 DEF BillPaymentRow
    <3>2. billPayment' = [billPayment EXCEPT ![p] = row]
      BY <1>4
    <3> HIDE DEF row
    <3> QED
      BY <1>0, <1>1, <3>1, <3>2 DEF RowsOK
  <2>6. \A q \in BillPayment : PaymentSound(q)'
    BY <2>2, <2>5 DEF PayablesInv, PaymentSound, AlreadyPosted
  <2> QED
    BY <1>0, <1>2, <2>2, <2>4, <2>5, <2>6 DEF PayablesInv, RowsOK
<1> QED
  BY <1>3, <1>4 DEF PostBillPayment

(* postBillPaymentAndReturn, and a payment that is left as it is.          *)
LEMMA EndPayingSound == PayablesInv /\ (MarkBillPayment \/ StopPaying) => PayablesInv'
<1> SUFFICES ASSUME PayablesInv, MarkBillPayment \/ StopPaying PROVE PayablesInv'
  OBVIOUS
<1>0. /\ RowsOK /\ UNCHANGED <<bill, billApplied, journal, control>>
      /\ PayingSound'
  BY DEF PayablesInv, MarkBillPayment, StopPaying, PayingSound
<1>1. CASE StopPaying
  BY <1>0, <1>1
     DEF StopPaying, PayablesInv, RowsOK, BillSound, PaymentSound, JournalTypeOK, AlreadyPosted
<1>2. CASE MarkBillPayment
  <2>1. PICK p : p = paying.payment
    OBVIOUS
  <2>2. /\ p \in BillPayment /\ billPayment[p] \in BillPaymentRow
        /\ billPayment' = [billPayment EXCEPT ![p].postingStatus = "POSTED"]
    BY <1>0, <1>2, <2>1 DEF MarkBillPayment, PayablesInv, PayingSound, NotPaying, RowsOK
  <2> DEFINE row == [billPayment[p] EXCEPT !.postingStatus = "POSTED"]
  <2>3. row \in BillPaymentRow /\ row.journalEntryId = billPayment[p].journalEntryId
    BY <2>2 DEF BillPaymentRow
  <2>4. billPayment' = [billPayment EXCEPT ![p] = row]
    BY <2>2
  <2> HIDE DEF row
  <2>5. /\ billPayment' \in [BillPayment -> BillPaymentRow]
        /\ \A q \in BillPayment :
              billPayment'[q].journalEntryId = billPayment[q].journalEntryId
    BY <1>0, <2>2, <2>3, <2>4 DEF RowsOK
  <2>6. RowsOK'
    BY <1>0, <2>5 DEF RowsOK, JournalTypeOK
  <2>7. \A q \in BillPayment : PaymentSound(q)'
    BY <1>0, <2>5 DEF PayablesInv, PaymentSound, AlreadyPosted
  <2>8. \A b \in Bill : BillSound(b)'
    BY <1>0 DEF PayablesInv, BillSound
  <2> QED
    BY <1>0, <2>6, <2>7, <2>8 DEF PayablesInv
<1> QED
  BY <1>1, <1>2

-----------------------------------------------------------------------------
(* No bills, no payments, no entries.                                      *)
LEMMA PayablesInvInit == PayablesInit => PayablesInv
<1> SUFFICES ASSUME PayablesInit PROVE PayablesInv
  OBVIOUS
<1>1. 0 \in BillTotal /\ 0 \in Amount
  BY PayablesAssumption DEF BillTotal, Amount
<1>2. NoBill \in BillRow /\ NoBillPayment \in BillPaymentRow
  BY <1>1 DEF NoBill, BillRow, BillStatus, NoBillPayment, BillPaymentRow, NoEntry
<1>3. RowsOK
  BY <1>1, <1>2 DEF PayablesInit, JournalInit, RowsOK, JournalTypeOK, Applications
<1>4. \A b \in Bill : bill[b] = NoBill /\ control[b] = 0
  BY PayablesAssumption DEF PayablesInit, JournalInit
<1>5. \A b \in Bill : BillSound(b)
  BY <1>4 DEF BillSound, NoBill, AlreadyPosted, NoEntry, Approved
<1>6. \A p \in BillPayment : PaymentSound(p)
  BY DEF PayablesInit, PaymentSound, NoBillPayment, AlreadyPosted, NoEntry
<1>7. PayingSound
  BY DEF PayablesInit, PayingSound
<1> QED
  BY <1>3, <1>5, <1>6, <1>7 DEF PayablesInv

(* The inductive invariant: rows are well formed and every bill agrees     *)
(* with the books.                                                         *)
THEOREM PayablesStaySound == PayablesSpec => []PayablesInv
<1>1. ASSUME PayablesInv, PayablesNext PROVE PayablesInv'
  <2>1. CASE \E b \in Bill : BillStep(b)
    BY <1>1, <2>1, CreateBillSound, DeleteBillSound, DraftStepsSound,
       ApproveBillSound, UnapproveBillSound, VoidBillSound DEF BillStep
  <2>2. CASE \E p \in BillPayment : RecordBillPayment(p)
    BY <1>1, <2>2, RecordBillPaymentSound
  <2>3. CASE PostBillPayment
    BY <1>1, <2>3, PostBillPaymentSound
  <2>4. CASE MarkBillPayment \/ StopPaying
    BY <1>1, <2>4, EndPayingSound
  <2> QED
    BY <1>1, <2>1, <2>2, <2>3, <2>4 DEF PayablesNext
<1>2. ASSUME PayablesInv, UNCHANGED payablesVars PROVE PayablesInv'
  BY <1>2 DEF payablesVars, payables, PayablesInv, RowsOK, BillSound, PaymentSound,
              PayingSound, JournalTypeOK, AlreadyPosted
<1> QED
  BY <1>1, <1>2, PayablesInvInit, PTL DEF PayablesSpec

(* Rows are well formed, and links lead to entries there are.              *)
THEOREM PayablesTypeCorrect == PayablesSpec => []PayablesTypeOK
<1>1. PayablesInv => PayablesTypeOK
  <2> SUFFICES ASSUME PayablesInv PROVE PayablesTypeOK
    OBVIOUS
  <2>1. \A b \in Bill : bill[b].journalEntryId \in {NoEntry} \cup DOMAIN journal
    BY DEF PayablesInv, BillSound, AlreadyPosted
  <2>2. \A p \in BillPayment :
           billPayment[p].journalEntryId \in {NoEntry} \cup DOMAIN journal
    BY DEF PayablesInv, PaymentSound, AlreadyPosted
  <2>3. paying.step \in {"nothing", "post", "mark"}
    BY DEF PayablesInv, PayingSound, NotPaying
  <2> QED
    BY <2>1, <2>2, <2>3
       DEF PayablesInv, RowsOK, PayablesTypeOK, BillRow, BillPaymentRow
<1> QED
  BY <1>1, PayablesStaySound, PTL

(* Accounts Payable carries a bill exactly while its entry is in force, at *)
(* what its lines come to, and then it is approved, over any sequence of   *)
(* approving, unapproving, editing, deleting, paying and voiding.          *)
THEOREM BillsCarriedOnce == PayablesSpec => []BillCarriedOnce
<1>1. PayablesInv => BillCarriedOnce
  BY DEF PayablesInv, BillCarriedOnce, BillSound, AlreadyPosted, Approved
<1> QED
  BY <1>1, PayablesStaySound, PTL

-----------------------------------------------------------------------------
(* A bill that payments amounting to `sum' are applied to: what is left of *)
(* it, and that its status tells whether anything is applied.              *)
Summed(row, sum) ==
    /\ row.balance = row.total - sum
    /\ sum > 0 <=> row.status \in {"PARTIALLY_PAID", "PAID"}
    /\ row.status = "PAID" => row.balance = 0

BillSums ==
    /\ \A b \in Bill : Summed(bill[b], AppliedToBill(b))
    /\ \A p \in BillPayment : billPayment[p].amount = 0 =>
          \A b \in Bill : billApplied[p][b] = 0

(* What is applied to a bill is a natural number, and stays while the      *)
(* applications do.                                                        *)
LEMMA AppliedToBillStays ==
    ASSUME RowsOK, NEW b \in Bill
    PROVE  /\ AppliedToBill(b) \in Nat
           /\ billApplied' = billApplied => AppliedToBill(b)' = AppliedToBill(b)
<1> DEFINE f == [q \in BillPayment |-> billApplied[q][b]]
<1>1. AppliedToBill(b) = Sum(f, BillPayment)
  BY DEF AppliedToBill, Sum
<1>2. \A q \in BillPayment : f[q] \in Nat
  <2>1. \A q \in BillPayment : f[q] \in Amount
    BY DEF RowsOK, Applications
  <2> QED
    BY <2>1, PayablesAssumption DEF Amount
<1> HIDE DEF f
<1>3. Sum(f, BillPayment) \in Nat
  BY <1>2, PayablesAssumption, SumIsNatural
<1>4. billApplied' = billApplied => AppliedToBill(b)' = AppliedToBill(b)
  BY DEF AppliedToBill, FoldFunctionOnSet, MapThenFoldSet
<1> QED
  BY <1>1, <1>3, <1>4

(* A payment that was applied to nothing before adds its applications.     *)
LEMMA AppliedToBillGrows ==
    ASSUME RowsOK, NEW p \in BillPayment, NEW applications \in Applications,
           NEW b \in Bill, billApplied[p][b] = 0,
           billApplied' = [billApplied EXCEPT ![p] = applications]
    PROVE  AppliedToBill(b)' = AppliedToBill(b) + applications[b]
<1> DEFINE f == [q \in BillPayment |-> billApplied[q][b]]
           g == [q \in BillPayment |-> billApplied'[q][b]]
<1>1. AppliedToBill(b) = Sum(f, BillPayment) /\ AppliedToBill(b)' = Sum(g, BillPayment)
  BY DEF AppliedToBill, Sum, FoldFunctionOnSet, MapThenFoldSet
<1>2. /\ \A q \in BillPayment \ {p} : billApplied'[q] = billApplied[q]
      /\ billApplied'[p] = applications
  BY DEF RowsOK
<1>3. /\ \A q \in BillPayment \ {p} : g[q] = f[q]
      /\ f[p] = 0 /\ g[p] = applications[b]
  BY <1>2
<1>4. \A q \in BillPayment : f[q] \in Amount
  BY DEF RowsOK, Applications
<1>5. applications[b] \in Amount
  BY DEF Applications
<1> HIDE DEF f, g
<1>6. PICK F, G : F = f /\ G = g
  OBVIOUS
<1>7. /\ \A q \in BillPayment : F[q] \in Int /\ G[q] \in Int
      /\ \A q \in BillPayment \ {p} : G[q] = F[q]
  BY <1>3, <1>4, <1>5, <1>6, PayablesAssumption DEF Amount
<1>8. Sum(G, BillPayment) = Sum(F, BillPayment) - F[p] + G[p]
  BY <1>7, PayablesAssumption, SumChanges
<1>9. Sum(F, BillPayment) \in Int
  BY <1>7, PayablesAssumption, SumTakesOut
<1>10. Sum(F, BillPayment) - F[p] + G[p] = Sum(F, BillPayment) + applications[b]
  BY <1>3, <1>6, <1>7, <1>9
<1> QED
  BY <1>1, <1>6, <1>8, <1>10

(* What a step has to show when it applies nothing: a bill changes only    *)
(* while nothing is applied to it, and is then owed in full.               *)
LEMMA NothingPaid ==
    ASSUME PayablesInv, BillSums, billApplied' = billApplied,
           \A p \in BillPayment : billPayment'[p].amount = billPayment[p].amount,
           \A b \in Bill :
              \/ bill'[b] = bill[b]
              \/ /\ AppliedToBill(b) = 0
                 /\ bill'[b].balance = bill'[b].total
                 /\ bill'[b].total \in BillTotal
                 /\ bill'[b].status \notin {"PARTIALLY_PAID", "PAID"}
    PROVE  BillSums'
<1>1. ASSUME NEW b \in Bill PROVE Summed(bill'[b], AppliedToBill(b)')
  <2>1. /\ AppliedToBill(b)' = AppliedToBill(b) /\ AppliedToBill(b) \in Nat
        /\ Summed(bill[b], AppliedToBill(b))
    BY AppliedToBillStays DEF PayablesInv, BillSums
  <2>2. CASE bill'[b] = bill[b]
    BY <2>1, <2>2
  <2>3. CASE /\ AppliedToBill(b) = 0
             /\ bill'[b].balance = bill'[b].total
             /\ bill'[b].total \in BillTotal
             /\ bill'[b].status \notin {"PARTIALLY_PAID", "PAID"}
    BY <2>1, <2>3, PayablesAssumption DEF Summed, BillTotal
  <2> QED
    BY <2>2, <2>3
<1>2. \A b \in Bill : Summed(bill[b], AppliedToBill(b))'
  BY <1>1 DEF Summed
<1> QED
  BY <1>2 DEF BillSums

(* Editing, approving, unapproving and voiding ask for the status, or for  *)
(* the balance: either way nothing is applied to the bill.                 *)
LEMMA BillStepSummed ==
    ASSUME PayablesInv, BillSums, NEW b \in Bill, BillStep(b)
    PROVE  /\ BillSums'
           /\ AppliedToBill(b) = 0
<1>0. /\ bill \in [Bill -> BillRow] /\ bill[b] \in BillRow
      /\ AppliedToBill(b) \in Nat /\ Summed(bill[b], AppliedToBill(b))
      /\ bill[b].total \in Int /\ bill[b].balance \in Int
  <2>1. bill \in [Bill -> BillRow] /\ bill[b] \in BillRow
    BY DEF PayablesInv, RowsOK
  <2>2. AppliedToBill(b) \in Nat /\ Summed(bill[b], AppliedToBill(b))
    BY AppliedToBillStays DEF PayablesInv, BillSums
  <2>3. bill[b].total \in Int /\ bill[b].balance \in Int
    BY <2>1, PayablesAssumption DEF BillRow, BillTotal
  <2> QED
    BY <2>1, <2>2, <2>3
<1>1. /\ UNCHANGED <<billPayment, billApplied>>
      /\ \A x \in Bill \ {b} : bill'[x] = bill[x]
  <2>1. UNCHANGED <<billPayment, billApplied>>
    BY DEF BillStep, CreateBill, UpdateBill, DeleteBill, SubmitBill, RejectBill,
           ApproveBill, UnapproveBill, VoidBill, OnlyBill
  <2>2. \E row : bill' = [bill EXCEPT ![b] = row]
    BY DEF BillStep, CreateBill, UpdateBill, DeleteBill, SubmitBill, RejectBill,
           ApproveBill, UnapproveBill, VoidBill
  <2> QED
    BY <1>0, <2>1, <2>2
<1>2. AppliedToBill(b) = 0
  <2>1. CASE VoidBill(b)
    BY <1>0, <2>1 DEF VoidBill, Voidable, Summed
  <2>2. CASE ~VoidBill(b)
    <3>1. bill[b].status \notin {"PARTIALLY_PAID", "PAID"}
      BY <2>2 DEF BillStep, CreateBill, UpdateBill, DeleteBill, SubmitBill, RejectBill,
                  ApproveBill, UnapproveBill, Unapprovable, Bills
    <3> QED
      BY <1>0, <3>1 DEF Summed
  <2> QED
    BY <2>1, <2>2
<1>3. bill[b].balance = bill[b].total
  BY <1>0, <1>2 DEF Summed
<1>4. /\ bill'[b].balance = bill'[b].total
      /\ bill'[b].total \in BillTotal
      /\ bill'[b].status \notin {"PARTIALLY_PAID", "PAID"}
  <2>0. bill[b].total \in BillTotal
    BY <1>0 DEF BillRow
  <2>1. CASE CreateBill(b)
    <3>1. PICK a \in BillAmounts :
             bill' = [bill EXCEPT ![b] = [WithAmounts(NoBill, a) EXCEPT !.status = "DRAFT"]]
      BY <2>1 DEF CreateBill
    <3> QED
      BY <1>0, <3>1 DEF NoBill, WithAmounts, BillAmounts
  <2>2. CASE UpdateBill(b)
    <3>1. PICK a \in BillAmounts : bill' = [bill EXCEPT ![b] = WithAmounts(bill[b], a)]
      BY <2>2 DEF UpdateBill
    <3>2. bill[b].status = "DRAFT"
      BY <2>2 DEF UpdateBill
    <3> QED
      BY <1>0, <3>1, <3>2 DEF BillRow, WithAmounts, BillAmounts
  <2>3. CASE DeleteBill(b)
    <3>1. 0 \in BillTotal
      BY PayablesAssumption DEF BillTotal
    <3>2. bill'[b] = [NoBill EXCEPT !.status = "DELETED"]
      BY <1>0, <2>3 DEF DeleteBill
    <3> QED
      BY <3>1, <3>2 DEF NoBill
  <2>4. CASE SubmitBill(b) \/ RejectBill(b)
    BY <1>0, <1>3, <2>0, <2>4 DEF SubmitBill, RejectBill, BillRow
  <2>5. CASE ApproveBill(b)
    BY <1>0, <1>3, <2>0, <2>5 DEF ApproveBill, BillRow
  <2>6. CASE UnapproveBill(b) \/ VoidBill(b)
    BY <1>0, <1>3, <2>0, <2>6 DEF UnapproveBill, VoidBill, BillRow
  <2> QED
    BY <2>1, <2>2, <2>3, <2>4, <2>5, <2>6 DEF BillStep
<1> QED
  BY <1>1, <1>2, <1>4, NothingPaid

(* recordBillPayment: each bill is owed less by what is applied to it, and *)
(* is PAID exactly when that is all that was left.                         *)
LEMMA RecordBillPaymentSummed ==
    ASSUME PayablesInv, BillSums, NEW p \in BillPayment, RecordBillPayment(p)
    PROVE  BillSums'
<1>0. RowsOK /\ billPayment[p].amount = 0
  <2>1. RowsOK /\ billPayment[p].amount \in Amount /\ ~(billPayment[p].amount > 0)
    BY DEF PayablesInv, RowsOK, BillPaymentRow, RecordBillPayment, Paid
  <2> QED
    BY <2>1, PayablesAssumption DEF Amount
<1>1. PICK b \in Bill, amount \in 1 .. MaxPaid, applications \in Applications :
         /\ Applicable(applications, amount)
         /\ billPayment' = [billPayment EXCEPT ![p] =
               [NoBillPayment EXCEPT !.amount = amount, !.billId = b]]
         /\ billApplied' = [billApplied EXCEPT ![p] = applications]
         /\ bill' = [x \in Bill |-> PayBill(bill[x], applications[x])]
  BY DEF RecordBillPayment
<1>2. \A x \in Bill : billApplied[p][x] = 0
  BY <1>0 DEF BillSums
<1>3. ASSUME NEW x \in Bill PROVE Summed(bill'[x], AppliedToBill(x)')
  <2>1. /\ AppliedToBill(x) \in Nat /\ Summed(bill[x], AppliedToBill(x))
        /\ AppliedToBill(x)' = AppliedToBill(x) + applications[x]
        /\ bill'[x] = PayBill(bill[x], applications[x])
    BY <1>0, <1>1, <1>2, AppliedToBillStays, AppliedToBillGrows DEF BillSums
  <2>2. bill[x] \in BillRow /\ applications[x] \in Amount
    BY <1>0 DEF RowsOK, Applications
  <2>3. bill[x].total \in Int /\ bill[x].balance \in Int /\ applications[x] \in Nat
    BY <2>2, PayablesAssumption DEF BillRow, BillTotal, Amount
  <2>4. CASE applications[x] = 0
    BY <2>1, <2>4 DEF PayBill
  <2>5. CASE applications[x] # 0
    <3> DEFINE rest == bill[x].balance - applications[x]
               status == IF bill[x].balance = applications[x] THEN "PAID"
                         ELSE "PARTIALLY_PAID"
    <3>1. /\ rest = bill[x].total - AppliedToBill(x)'
          /\ AppliedToBill(x)' > 0
      BY <2>1, <2>3, <2>5 DEF Summed
    <3>2. /\ status \in {"PARTIALLY_PAID", "PAID"}
          /\ status = "PAID" => rest = 0
      BY <2>3
    <3>3. PayBill(bill[x], applications[x])
             = [bill[x] EXCEPT !.balance = rest, !.status = status]
      BY <2>5 DEF PayBill
    <3> HIDE DEF rest, status
    <3>4. /\ bill'[x].total = bill[x].total
          /\ bill'[x].balance = rest
          /\ bill'[x].status = status
      BY <2>1, <2>2, <3>3 DEF BillRow
    <3> QED
      BY <3>1, <3>2, <3>4 DEF Summed
  <2> QED
    BY <2>4, <2>5
<1>4. \A q \in BillPayment : billPayment'[q].amount = 0 =>
         \A x \in Bill : billApplied'[q][x] = 0
  <2> SUFFICES ASSUME NEW q \in BillPayment, billPayment'[q].amount = 0
               PROVE  \A x \in Bill : billApplied'[q][x] = 0
    OBVIOUS
  <2>1. CASE q = p
    <3>1. billPayment'[p].amount = amount
      BY <1>0, <1>1 DEF RowsOK, NoBillPayment
    <3> QED
      BY <2>1, <3>1
  <2>2. CASE q # p
    <3>1. billPayment'[q] = billPayment[q] /\ billApplied'[q] = billApplied[q]
      BY <1>0, <1>1, <2>2 DEF RowsOK
    <3> QED
      BY <3>1 DEF BillSums
  <2> QED
    BY <2>1, <2>2
<1>5. \A x \in Bill : Summed(bill[x], AppliedToBill(x))'
  BY <1>3 DEF Summed
<1> QED
  BY <1>4, <1>5 DEF BillSums

(* The rest of recordBillPayment applies nothing.                          *)
LEMMA PayingSummed ==
    ASSUME PayablesInv, BillSums, PostBillPayment \/ MarkBillPayment \/ StopPaying
    PROVE  BillSums'
<1>0. billPayment \in [BillPayment -> BillPaymentRow]
  BY DEF PayablesInv, RowsOK
<1>1. UNCHANGED <<bill, billApplied>>
  BY DEF PostBillPayment, MarkBillPayment, StopPaying
<1>2. \A p \in BillPayment : billPayment'[p].amount = billPayment[p].amount
  <2>1. CASE PostBillPayment
    <3>1. CASE billPayment' = billPayment
      BY <3>1
    <3>2. CASE billPayment' = [billPayment EXCEPT ![paying.payment].journalEntryId = NextEntry]
      BY <1>0, <3>2 DEF BillPaymentRow
    <3> QED
      BY <2>1, <3>1, <3>2 DEF PostBillPayment
  <2>2. CASE MarkBillPayment
    BY <1>0, <2>2 DEF MarkBillPayment, BillPaymentRow
  <2>3. CASE StopPaying
    BY <2>3 DEF StopPaying
  <2> QED
    BY <2>1, <2>2, <2>3
<1> QED
  BY <1>1, <1>2, NothingPaid

(* The sums agree in every reachable state.                                *)
THEOREM BillSumsStay == PayablesSpec => []BillSums
<1>1. PayablesInit => BillSums
  <2> SUFFICES ASSUME PayablesInit PROVE BillSums
    OBVIOUS
  <2>1. PayablesInv
    BY PayablesInvInit
  <2>2. ASSUME NEW b \in Bill PROVE Summed(bill[b], AppliedToBill(b))
    <3> DEFINE f == [p \in BillPayment |-> billApplied[p][b]]
    <3>1. AppliedToBill(b) = Sum(f, BillPayment)
      BY DEF AppliedToBill, Sum
    <3>2. \A p \in BillPayment : f[p] \in Nat /\ f[p] = 0
      BY DEF PayablesInit
    <3> HIDE DEF f
    <3>3. Sum(f, BillPayment) = 0
      BY <3>2, PayablesAssumption, SumBounds
    <3>4. bill[b] = NoBill
      BY DEF PayablesInit
    <3> QED
      BY <3>1, <3>3, <3>4 DEF Summed, NoBill
  <2> QED
    BY <2>2 DEF BillSums, PayablesInit
<1>2. PayablesInv /\ BillSums /\ [PayablesNext]_payablesVars => BillSums'
  <2> SUFFICES ASSUME PayablesInv, BillSums, [PayablesNext]_payablesVars
               PROVE  BillSums'
    OBVIOUS
  <2>1. ASSUME NEW b \in Bill, BillStep(b) PROVE BillSums'
    BY <2>1, BillStepSummed
  <2>2. ASSUME NEW p \in BillPayment, RecordBillPayment(p) PROVE BillSums'
    BY <2>2, RecordBillPaymentSummed
  <2>3. CASE PostBillPayment \/ MarkBillPayment \/ StopPaying
    BY <2>3, PayingSummed
  <2>4. CASE UNCHANGED payablesVars
    BY <2>4, NothingPaid DEF payablesVars, payables
  <2> QED
    BY <2>1, <2>2, <2>3, <2>4 DEF PayablesNext
<1> QED
  BY <1>1, <1>2, PayablesStaySound, PTL DEF PayablesSpec

(* The balance of a bill is its total less what payments apply to it, and  *)
(* its status tells whether anything is, over any sequence of approving,   *)
(* unapproving, editing, paying and voiding.                               *)
THEOREM BillBalanceAlwaysTheRest == PayablesSpec => []BillBalanceIsTheRest
<1>1. BillSums => BillBalanceIsTheRest
  BY DEF BillSums, Summed, BillBalanceIsTheRest, Bills
<1> QED
  BY <1>1, BillSumsStay, PTL

(* A bill leaves the books only while no payment is applied to it.         *)
THEOREM BillsLeaveUnpaid == PayablesSpec => BillLeavesUnpaid
<1>1. ASSUME PayablesInv, BillSums, [PayablesNext]_payablesVars, NEW b \in Bill,
             control'[b] < control[b]
      PROVE  AppliedToBill(b) = 0
  <2>0. /\ JournalTypeOK /\ b \in Document /\ control[b] \in Int
        /\ bill \in [Bill -> BillRow]
    BY <1>1, PayablesAssumption DEF PayablesInv, RowsOK, JournalTypeOK
  <2>1. control' # control
    BY <1>1, <2>0
  <2>2. ASSUME NEW x \in Bill, BillStep(x), x # b PROVE FALSE
    <3>1. x \in Document /\ BillSound(x)
      BY PayablesAssumption, <1>1 DEF PayablesInv
    <3>2. \/ CreatePosted(x, bill[x].lines)
          \/ AlreadyPosted(bill[x]) /\ PostMirror(bill[x].journalEntryId)
      BY <2>1, <2>2 DEF BillStep, CreateBill, UpdateBill, DeleteBill, SubmitBill, RejectBill,
                        ApproveBill, UnapproveBill, VoidBill, AlreadyPosted
    <3>3. CASE CreatePosted(x, bill[x].lines)
      BY <1>1, <2>0, <2>2, <3>1, <3>3 DEF CreatePosted, JournalTypeOK
    <3>4. CASE AlreadyPosted(bill[x]) /\ PostMirror(bill[x].journalEntryId)
      <4>1. journal[bill[x].journalEntryId].doc = x
        BY <3>1, <3>4 DEF BillSound
      <4> QED
        BY <1>1, <2>0, <2>2, <3>1, <3>4, <4>1 DEF PostMirror, JournalTypeOK
    <3> QED
      BY <3>2, <3>3, <3>4
  <2>3. CASE \E x \in Bill : BillStep(x)
    BY <1>1, <2>2, <2>3, BillStepSummed
  <2>4. CASE PostBillPayment
    <3>1. paying.payment \in BillPayment
      BY <1>1, <2>4 DEF PayablesInv, PayingSound, PostBillPayment, NotPaying
    <3>2. paying.payment # b /\ paying.payment \in Document
      BY <3>1, PayablesAssumption
    <3>3. CreatePosted(paying.payment, 0 - billPayment[paying.payment].amount)
      BY <2>1, <2>4 DEF PostBillPayment
    <3>4. control'[b] = control[b]
      BY <2>0, <3>2, <3>3 DEF CreatePosted, JournalTypeOK
    <3> QED
      BY <1>1, <2>0, <3>4
  <2>5. CASE \/ \E p \in BillPayment : RecordBillPayment(p)
             \/ MarkBillPayment \/ StopPaying \/ UNCHANGED payablesVars
    BY <2>1, <2>5 DEF RecordBillPayment, MarkBillPayment, StopPaying, payablesVars
  <2> QED
    BY <1>1, <2>3, <2>4, <2>5 DEF PayablesNext
<1>2. PayablesInv /\ BillSums /\ [PayablesNext]_payablesVars
         => [\A b \in Bill : control'[b] < control[b] => AppliedToBill(b) = 0]_payablesVars
  BY <1>1
<1> QED
  BY <1>2, PayablesStaySound, BillSumsStay, PTL DEF PayablesSpec, BillLeavesUnpaid
=============================================================================
