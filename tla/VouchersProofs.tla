--------------------------- MODULE VouchersProofs ----------------------------
(***************************************************************************)
(* Vendor credits, mileage logs and per diem claims keep the promise of    *)
(* DocumentBooks, for any number of them and any amounts: whatever is      *)
(* written into their status, they are entered once and taken out once.    *)
(***************************************************************************)
EXTENDS Vouchers, SubLedgerProofs

VoucherRow == [status : VoucherStatus \cup {"NONE", "DELETED"},
               postingStatus : {"DRAFT", "POSTED", "VOIDED"},
               amount : VoucherAmount,
               journalEntryId : Nat]

(* What ties a row to the books is its link alone: the entry it leads to   *)
(* is the voucher's own, the books carry its amount while it is in force   *)
(* and nothing once it is not.  Only of vendor credits does the row tell.  *)
VoucherSound(v) ==
    LET row == voucher[v]
        e == row.journalEntryId
    IN  /\ AlreadyPosted(row) =>
              /\ e \in DOMAIN journal
              /\ journal[e].doc = v
              /\ VoucherEntry(v, journal[e].amount) \in VoucherAmount
              /\ control[v] = IF journal[e].postingStatus = "POSTED"
                              THEN journal[e].amount ELSE 0
        /\ ~AlreadyPosted(row) => control[v] = 0
        /\ row.status = "NONE" => ~AlreadyPosted(row)
        /\ v \in VendorCredit /\ control[v] # 0 =>
              row.status \notin {"NONE", "DELETED"} /\ row.postingStatus = "POSTED"

VouchersInv ==
    /\ voucher \in [Voucher -> VoucherRow]
    /\ JournalTypeOK
    /\ \A v \in Voucher : VoucherSound(v)

-----------------------------------------------------------------------------
(* What a step does to v in the books: nothing, take it up or give it up.  *)
StaysPut(v) == VoucherStage(v)' = VoucherStage(v) /\ control'[v] = control[v]

Entered(v) ==
    /\ VoucherStage(v) = "out" /\ VoucherStage(v)' = "in"
    /\ VoucherEntry(v, control'[v]) \in VoucherAmount

Left(v) ==
    /\ VoucherStage(v) = "in" /\ VoucherStage(v)' = "gone"
    /\ control'[v] = 0

(* The effect of a step that concerns v.                                   *)
Concerns(v) ==
    /\ VouchersInv'
    /\ \A x \in Voucher \ {v} : StaysPut(x)
    /\ StaysPut(v) \/ Entered(v) \/ Left(v)

(* A voucher other than v is as sound as it was.                           *)
LEMMA OtherVouchers ==
    ASSUME VouchersInv, NEW v \in Voucher, Elsewhere(v),
           NEW x \in Voucher \ {v}, voucher'[x] = voucher[x]
    PROVE  VoucherSound(x)' /\ StaysPut(x)
<1>1. VoucherSound(x) /\ x \in Document
  BY VouchersAssumption DEF VouchersInv
<1>2. control'[x] = control[x]
  BY <1>1 DEF Elsewhere
<1>3. CASE ~AlreadyPosted(voucher[x])
  BY <1>1, <1>2, <1>3 DEF VoucherSound, StaysPut, VoucherStage, AlreadyPosted
<1>4. CASE AlreadyPosted(voucher[x])
  <2> DEFINE e == voucher[x].journalEntryId
  <2>1. e \in DOMAIN journal /\ journal[e].doc = x
    BY <1>1, <1>4 DEF VoucherSound
  <2>2. e \in DOMAIN journal' /\ journal'[e] = journal[e]
    BY <2>1 DEF Elsewhere
  <2> QED
    BY <1>1, <1>2, <1>4, <2>1, <2>2
       DEF VoucherSound, StaysPut, VoucherStage, AlreadyPosted
<1> QED
  BY <1>3, <1>4

(* What remains to be shown of a step that writes the row of v.            *)
LEMMA StepConcerns ==
    ASSUME VouchersInv, NEW v \in Voucher, NEW row \in VoucherRow,
           voucher' = [voucher EXCEPT ![v] = row],
           JournalTypeOK', Elsewhere(v),
           VoucherSound(v)',
           StaysPut(v) \/ Entered(v) \/ Left(v)
    PROVE  Concerns(v)
<1>1. /\ voucher' \in [Voucher -> VoucherRow]
      /\ \A x \in Voucher \ {v} : voucher'[x] = voucher[x]
  BY DEF VouchersInv
<1>2. \A x \in Voucher \ {v} : VoucherSound(x)' /\ StaysPut(x)
  BY <1>1, OtherVouchers
<1> QED
  BY <1>1, <1>2 DEF Concerns, VouchersInv

(* A step that writes the row of v and leaves link and journal alone.  It  *)
(* may do anything to a voucher that is not a vendor credit in the books.  *)
LEMMA WritingConcerns ==
    ASSUME VouchersInv, NEW v \in Voucher, NEW row \in VoucherRow,
           voucher' = [voucher EXCEPT ![v] = row],
           UNCHANGED <<journal, control>>,
           row.journalEntryId = voucher[v].journalEntryId,
           row.status = "NONE" => ~AlreadyPosted(row),
           v \in VendorCredit /\ control[v] # 0 =>
              row.status \notin {"NONE", "DELETED"} /\ row.postingStatus = "POSTED"
    PROVE  Concerns(v)
<1>1. voucher'[v] = row /\ VoucherSound(v)
  BY DEF VouchersInv
<1>2. Elsewhere(v)
  BY DEF Elsewhere
<1>3. VoucherSound(v)'
  BY <1>1 DEF VoucherSound, AlreadyPosted
<1>4. StaysPut(v)
  BY <1>1 DEF StaysPut, VoucherStage
<1>5. JournalTypeOK'
  BY DEF VouchersInv, JournalTypeOK
<1> QED
  BY <1>2, <1>3, <1>4, <1>5, StepConcerns

(* postMileageToGL, postPerDiemToGL, postVendorCreditToGL.                 *)
LEMMA PostVoucherConcerns ==
    ASSUME VouchersInv, NEW v \in Voucher, NEW amount \in VoucherAmount,
           PostVoucher(v, amount)
    PROVE  Concerns(v)
<1>0. /\ voucher \in [Voucher -> VoucherRow] /\ voucher[v] \in VoucherRow
      /\ VoucherSound(v) /\ JournalTypeOK
      /\ v \in Document /\ amount \in Int
  BY VouchersAssumption DEF VouchersInv, VoucherAmount
<1>1. CASE AlreadyPosted(voucher[v])
  <2> DEFINE row == [voucher[v] EXCEPT !.status = "APPROVED", !.amount = amount,
                                       !.postingStatus = "POSTED"]
  <2>1. /\ voucher' = [voucher EXCEPT ![v] = row]
        /\ UNCHANGED <<journal, control>>
    BY <1>0, <1>1 DEF PostVoucher
  <2>2. /\ row \in VoucherRow
        /\ row.status = "APPROVED" /\ row.postingStatus = "POSTED"
        /\ row.journalEntryId = voucher[v].journalEntryId
    BY <1>0 DEF VoucherRow, VoucherStatus
  <2> HIDE DEF row
  <2> QED
    BY <2>1, <2>2, WritingConcerns
<1>2. CASE ~AlreadyPosted(voucher[v])
  <2> DEFINE row == [voucher[v] EXCEPT !.status = "APPROVED", !.amount = amount,
                                       !.postingStatus = "POSTED",
                                       !.journalEntryId = NextEntry]
  <2>1. /\ voucher' = [voucher EXCEPT ![v] = row]
        /\ CreatePosted(v, VoucherEntry(v, amount))
    BY <1>0, <1>2 DEF PostVoucher
  <2>2. /\ VoucherEntry(v, amount) \in Int
        /\ VoucherEntry(v, VoucherEntry(v, amount)) = amount
    BY <1>0 DEF VoucherEntry
  <2>3. /\ JournalTypeOK'
        /\ \A e \in DOMAIN journal : e \in DOMAIN journal' /\ journal'[e] = journal[e]
        /\ NextEntry \in DOMAIN journal' /\ NextEntry \in Nat \ {NoEntry}
        /\ journal'[NextEntry] = PostedEntry(v, VoucherEntry(v, amount))
        /\ control'[v] = control[v] + VoucherEntry(v, amount)
        /\ \A x \in Document \ {v} : control'[x] = control[x]
    BY <1>0, <2>1, <2>2, CreatePostedEffect
  <2>4. /\ row \in VoucherRow
        /\ row.status = "APPROVED" /\ row.postingStatus = "POSTED"
        /\ row.journalEntryId = NextEntry
    BY <1>0, <2>3 DEF VoucherRow, VoucherStatus
  <2> HIDE DEF row
  <2>5. voucher'[v] = row
    BY <1>0, <2>1
  <2>6. control'[v] = VoucherEntry(v, amount)
    BY <1>0, <1>2, <2>2, <2>3 DEF VoucherSound
  <2>7. /\ journal'[NextEntry].doc = v
        /\ journal'[NextEntry].amount = VoucherEntry(v, amount)
        /\ journal'[NextEntry].postingStatus = "POSTED"
    BY <2>3 DEF PostedEntry
  <2>8. VoucherSound(v)'
    BY <2>2, <2>3, <2>4, <2>5, <2>6, <2>7 DEF VoucherSound, AlreadyPosted
  <2>9. Entered(v)
    <3>1. VoucherStage(v) = "out"
      BY <1>2 DEF VoucherStage, AlreadyPosted
    <3>2. VoucherStage(v)' = "in"
      BY <2>3, <2>4, <2>5, <2>7 DEF VoucherStage
    <3> QED
      BY <2>2, <2>6, <3>1, <3>2 DEF Entered
  <2>10. Elsewhere(v)
    BY <2>3 DEF Elsewhere
  <2> QED
    BY <2>1, <2>3, <2>4, <2>8, <2>9, <2>10, StepConcerns
<1> QED
  BY <1>1, <1>2

(* voidVendorCredit, voidMileage, voidPerDiem.                             *)
LEMMA VoidVoucherConcerns ==
    ASSUME VouchersInv, NEW v \in Voucher, VoidVoucher(v)
    PROVE  Concerns(v)
<1> DEFINE row == [voucher[v] EXCEPT !.status = "VOIDED", !.postingStatus = "VOIDED"]
           e == voucher[v].journalEntryId
<1>0. /\ voucher \in [Voucher -> VoucherRow] /\ voucher[v] \in VoucherRow
      /\ VoucherSound(v) /\ JournalTypeOK /\ v \in Document
  BY VouchersAssumption DEF VouchersInv
<1>1. /\ voucher' = [voucher EXCEPT ![v] = row]
      /\ AlreadyPosted(voucher[v]) /\ MayReverse(e) /\ PostMirror(e)
  BY <1>0 DEF VoidVoucher
<1>2. /\ row \in VoucherRow
      /\ row.status = "VOIDED"
      /\ row.journalEntryId = e
  BY <1>0 DEF VoucherRow, VoucherStatus
<1> HIDE DEF row
<1>3. /\ e \in DOMAIN journal /\ journal[e].doc = v /\ e # NoEntry
      /\ VoucherEntry(v, journal[e].amount) \in VoucherAmount
  BY <1>0, <1>1 DEF VoucherSound, AlreadyPosted
<1>4. journal[e] \in EntryRow
  <2>1. journal \in Seq(EntryRow)
    BY <1>0 DEF JournalTypeOK, EntryRow
  <2> QED
    BY <1>3, <2>1
<1>5. journal[e].postingStatus = "POSTED" /\ control[v] = journal[e].amount
  BY <1>0, <1>1, <1>4 DEF VoucherSound, MayReverse, EntryRow
<1>6. /\ JournalTypeOK'
      /\ \A x \in DOMAIN journal :
            /\ x \in DOMAIN journal'
            /\ journal'[x].doc = journal[x].doc
            /\ x # e => journal'[x] = journal[x]
      /\ journal'[e] = [journal[e] EXCEPT !.postingStatus = "VOIDED"]
      /\ control'[v] = control[v] - journal[e].amount
      /\ \A x \in Document \ {v} : control'[x] = control[x]
  <2>1. JournalTypeOK /\ PostMirror(e) /\ e \in DOMAIN journal
    BY <1>0, <1>1, <1>3
  <2> HIDE DEF e
  <2> QED
    BY <1>3, <2>1, PostMirrorEffect
<1>7. control'[v] = 0
  BY <1>4, <1>5, <1>6 DEF EntryRow
<1>8. /\ e \in DOMAIN journal'
      /\ journal'[e].doc = v /\ journal'[e].amount = journal[e].amount
      /\ journal'[e].postingStatus = "VOIDED"
  BY <1>3, <1>4, <1>6 DEF EntryRow
<1>9. voucher'[v] = row
  BY <1>0, <1>1
<1>10. VoucherSound(v)'
  BY <1>2, <1>3, <1>7, <1>8, <1>9 DEF VoucherSound, AlreadyPosted
<1>11. Left(v)
  BY <1>2, <1>3, <1>5, <1>7, <1>8, <1>9 DEF Left, VoucherStage
<1>12. Elsewhere(v)
  BY <1>3, <1>6 DEF Elsewhere
<1> QED
  BY <1>1, <1>2, <1>6, <1>10, <1>11, <1>12, StepConcerns

-----------------------------------------------------------------------------
(* No vouchers, no entries.                                                *)
LEMMA VouchersInvInit == VouchersInit => VouchersInv
<1> SUFFICES ASSUME VouchersInit PROVE VouchersInv
  OBVIOUS
<1>1. 0 \in VoucherAmount
  BY VouchersAssumption DEF VoucherAmount
<1>2. NoVoucher \in VoucherRow
  BY <1>1 DEF NoVoucher, VoucherRow, NoEntry
<1>3. voucher \in [Voucher -> VoucherRow] /\ \A v \in Voucher : voucher[v] = NoVoucher
  BY <1>2 DEF VouchersInit
<1>4. JournalTypeOK
  BY DEF VouchersInit, JournalInit, JournalTypeOK
<1>5. \A v \in Voucher : control[v] = 0
  BY VouchersAssumption DEF VouchersInit, JournalInit
<1>6. \A v \in Voucher : VoucherSound(v)
  BY <1>3, <1>5 DEF VoucherSound, NoVoucher, AlreadyPosted, NoEntry
<1> QED
  BY <1>3, <1>4, <1>6 DEF VouchersInv

(* Every operation concerns one voucher, and keeps the invariant.          *)
LEMMA OperationConcerns ==
    ASSUME VouchersInv, NEW v \in Voucher,
           \/ CreateVoucher(v) \/ UpdateVoucher(v) \/ UpdateVendorCredit(v)
           \/ ApplyVendorCredit(v) \/ VoidVoucher(v) \/ DeleteVoucher(v)
    PROVE  Concerns(v)
<1>0. /\ voucher \in [Voucher -> VoucherRow] /\ voucher[v] \in VoucherRow
      /\ VoucherSound(v)
  BY DEF VouchersInv
<1>1. CASE CreateVoucher(v)
  <2>1. PICK status \in VoucherStatus, amount \in VoucherAmount :
           voucher' = [voucher EXCEPT ![v] =
              [NoVoucher EXCEPT !.status = status, !.amount = amount]]
    BY <1>1 DEF CreateVoucher
  <2> DEFINE row == [NoVoucher EXCEPT !.status = status, !.amount = amount]
  <2>2. /\ row \in VoucherRow
        /\ row.status # "NONE" /\ row.journalEntryId = NoEntry
    BY DEF NoVoucher, VoucherRow, VoucherStatus, NoEntry
  <2>3. UNCHANGED <<journal, control>> /\ voucher[v].status = "NONE"
    BY <1>1 DEF CreateVoucher
  <2>4. voucher[v].journalEntryId = NoEntry /\ control[v] = 0
    BY <1>0, <2>3 DEF VoucherSound, AlreadyPosted
  <2>5. voucher' = [voucher EXCEPT ![v] = row]
    BY <2>1
  <2> HIDE DEF row
  <2> QED
    BY <2>2, <2>3, <2>4, <2>5, WritingConcerns
<1>2. CASE UpdateVoucher(v)
  <2>1. PICK status \in VoucherStatus, amount \in VoucherAmount :
           IF status = "APPROVED" /\ voucher[v].status # "APPROVED"
           THEN PostVoucher(v, amount)
           ELSE /\ voucher' = [voucher EXCEPT ![v].status = status, ![v].amount = amount]
                /\ UNCHANGED <<journal, control>>
    BY <1>2 DEF UpdateVoucher
  <2>2. CASE PostVoucher(v, amount)
    BY <2>2, PostVoucherConcerns
  <2>3. CASE /\ voucher' = [voucher EXCEPT ![v].status = status, ![v].amount = amount]
             /\ UNCHANGED <<journal, control>>
    <3> DEFINE row == [voucher[v] EXCEPT !.status = status, !.amount = amount]
    <3>1. /\ row \in VoucherRow
          /\ row.status # "NONE"
          /\ row.journalEntryId = voucher[v].journalEntryId
      BY <1>0 DEF VoucherRow, VoucherStatus
    <3>2. voucher' = [voucher EXCEPT ![v] = row] /\ UNCHANGED <<journal, control>>
      BY <1>0, <2>3
    <3>3. v \notin VendorCredit
      BY <1>2 DEF UpdateVoucher
    <3> HIDE DEF row
    <3> QED
      BY <3>1, <3>2, <3>3, WritingConcerns
  <2> QED
    BY <2>1, <2>2, <2>3
<1>3. CASE UpdateVendorCredit(v)
  <2>1. PICK status \in VoucherStatus :
           voucher' = [voucher EXCEPT ![v].status = status]
    BY <1>3 DEF UpdateVendorCredit
  <2> DEFINE row == [voucher[v] EXCEPT !.status = status]
  <2>2. /\ row \in VoucherRow
        /\ row.status \notin {"NONE", "DELETED"}
        /\ row.postingStatus = voucher[v].postingStatus
        /\ row.journalEntryId = voucher[v].journalEntryId
    BY <1>0 DEF VoucherRow, VoucherStatus
  <2>3. voucher' = [voucher EXCEPT ![v] = row] /\ UNCHANGED <<journal, control>>
    BY <1>0, <1>3, <2>1 DEF UpdateVendorCredit
  <2> HIDE DEF row
  <2> QED
    BY <1>0, <2>2, <2>3, WritingConcerns DEF VoucherSound
<1>4. CASE ApplyVendorCredit(v)
  <2>1. voucher[v].amount \in VoucherAmount /\ PostVoucher(v, voucher[v].amount)
    BY <1>0, <1>4 DEF ApplyVendorCredit, VoucherRow
  <2> QED
    BY <2>1, PostVoucherConcerns
<1>5. CASE VoidVoucher(v)
  BY <1>5, VoidVoucherConcerns
<1>6. CASE DeleteVoucher(v)
  <2> DEFINE row == [voucher[v] EXCEPT !.status = "DELETED"]
  <2>1. /\ row \in VoucherRow
        /\ row.status = "DELETED"
        /\ row.journalEntryId = voucher[v].journalEntryId
    BY <1>0 DEF VoucherRow
  <2>2. voucher' = [voucher EXCEPT ![v] = row] /\ UNCHANGED <<journal, control>>
    BY <1>0, <1>6 DEF DeleteVoucher
  <2>3. v \in VendorCredit => control[v] = 0
    BY <1>0, <1>6, VouchersAssumption DEF DeleteVoucher, MayDelete, VoucherSound
  <2> HIDE DEF row
  <2> QED
    BY <2>1, <2>2, <2>3, WritingConcerns
<1> QED
  BY <1>1, <1>2, <1>3, <1>4, <1>5, <1>6

(* A step that changes nothing.                                            *)
LEMMA IdleConcernsNone ==
    ASSUME VouchersInv, UNCHANGED voucherVars
    PROVE  VouchersInv' /\ \A v \in Voucher : StaysPut(v)
<1>1. VouchersInv'
  BY DEF voucherVars, VouchersInv, VoucherSound, JournalTypeOK
<1>2. \A v \in Voucher : StaysPut(v)
  BY DEF voucherVars, StaysPut, VoucherStage
<1> QED
  BY <1>1, <1>2

(* The inductive invariant: every voucher is as its link says.             *)
THEOREM VouchersStaySound == VouchersSpec => []VouchersInv
<1>1. ASSUME VouchersInv, VouchersNext PROVE VouchersInv'
  BY <1>1, OperationConcerns DEF VouchersNext, Concerns
<1>2. ASSUME VouchersInv, UNCHANGED voucherVars PROVE VouchersInv'
  BY <1>2, IdleConcernsNone
<1> QED
  BY <1>1, <1>2, VouchersInvInit, PTL DEF VouchersSpec

(* Rows are well formed, and a link leads to an entry there is.            *)
THEOREM VouchersTypeCorrect == VouchersSpec => []VouchersTypeOK
<1>1. VouchersInv => VouchersTypeOK
  BY DEF VouchersInv, VouchersTypeOK, VoucherRow, VoucherSound, AlreadyPosted
<1> QED
  BY <1>1, VouchersStaySound, PTL

(* deleteVendorCredit leaves nothing behind: a credit in the books exists  *)
(* and says POSTED, whatever edits wrote into its status.                  *)
THEOREM DeletedCreditStaysOut == VouchersSpec => []DeletedCreditIsOut
<1>1. VouchersInv => DeletedCreditIsOut
  BY DEF VouchersInv, DeletedCreditIsOut, VoucherSound, Voucher, Existing
<1> QED
  BY <1>1, VouchersStaySound, PTL

-----------------------------------------------------------------------------
(* Every step is one of the books, or none of their business.              *)
LEMMA StepKeepsBooks ==
    ASSUME VouchersInv, NEW v \in Voucher, Concerns(v)
    PROVE  [VoucherBooks!BooksNext]_(VoucherBooks!BooksVars)
<1> DEFINE stages == [x \in Voucher |-> VoucherStage(x)]
           amounts == [x \in Voucher |-> VoucherEntry(x, control[x])]
<1>1. \A x \in Voucher \ {v} : stages'[x] = stages[x] /\ amounts'[x] = amounts[x]
  BY DEF Concerns, StaysPut
<1>2. CASE StaysPut(v)
  <2>1. stages' = stages /\ amounts' = amounts
    BY <1>1, <1>2 DEF StaysPut
  <2> QED
    BY <2>1 DEF VoucherBooks!BooksVars
<1>3. CASE Entered(v)
  <2>1. /\ stages[v] = "out"
        /\ stages' = [stages EXCEPT ![v] = "in"]
        /\ \E amount \in VoucherAmount : amounts' = [amounts EXCEPT ![v] = amount]
    BY <1>1, <1>3 DEF Entered
  <2>2. VoucherBooks!Enter(v)
    BY <2>1 DEF VoucherBooks!Enter
  <2> QED
    BY <2>2 DEF VoucherBooks!BooksNext
<1>4. CASE Left(v)
  <2>1. VoucherEntry(v, control'[v]) = 0
    BY <1>4 DEF Left, VoucherEntry
  <2>2. /\ stages[v] = "in"
        /\ stages' = [stages EXCEPT ![v] = "gone"]
        /\ amounts' = [amounts EXCEPT ![v] = 0]
    BY <1>1, <1>4, <2>1 DEF Left
  <2>3. VoucherBooks!Leave(v)
    BY <2>2 DEF VoucherBooks!Leave
  <2> QED
    BY <2>3 DEF VoucherBooks!BooksNext
<1> QED
  BY <1>2, <1>3, <1>4 DEF Concerns

(* Vouchers keep the promise of DocumentBooks: however often an approval   *)
(* is written, taken back and written again, and wherever a void falls in  *)
(* between, the amount is entered once and taken out once.                 *)
THEOREM VouchersImplementBooks == VouchersSpec => VouchersKeepBooks
<1>1. VouchersInit => VoucherBooks!BooksInit
  <2> SUFFICES ASSUME VouchersInit PROVE VoucherBooks!BooksInit
    OBVIOUS
  <2>1. \A v \in Voucher : voucher[v].journalEntryId = NoEntry /\ control[v] = 0
    BY VouchersAssumption DEF VouchersInit, NoVoucher, JournalInit
  <2>2. \A v \in Voucher : VoucherStage(v) = "out" /\ VoucherEntry(v, control[v]) = 0
    BY <2>1 DEF VoucherStage, VoucherEntry
  <2> QED
    BY <2>2 DEF VoucherBooks!BooksInit
<1>2. VouchersInv /\ [VouchersNext]_voucherVars =>
         [VoucherBooks!BooksNext]_(VoucherBooks!BooksVars)
  <2> SUFFICES ASSUME VouchersInv, [VouchersNext]_voucherVars
               PROVE  [VoucherBooks!BooksNext]_(VoucherBooks!BooksVars)
    OBVIOUS
  <2>1. CASE VouchersNext
    BY <2>1, OperationConcerns, StepKeepsBooks DEF VouchersNext
  <2>2. CASE UNCHANGED voucherVars
    BY <2>2, IdleConcernsNone DEF StaysPut, VoucherBooks!BooksVars
  <2> QED
    BY <2>1, <2>2
<1> QED
  BY <1>1, <1>2, VouchersStaySound, PTL
     DEF VouchersSpec, VouchersKeepBooks, VoucherBooks!BooksSpec
=============================================================================
