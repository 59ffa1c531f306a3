------------------------------ MODULE Vouchers -------------------------------
(***************************************************************************)
(* The documents of ap.service.ts that are posted when somebody writes     *)
(* their approval into them: vendor credits, mileage logs and per diem     *)
(* claims.                                                                 *)
(*                                                                         *)
(* Posting and reversing happen in the transaction that changes the row.   *)
(* What makes these documents delicate is that an edit may write the       *)
(* status, in any direction and whatever was posted, so that neither the   *)
(* status nor the amount says what is in the books: only postingStatus and *)
(* the link do.                                                            *)
(*                                                                         *)
(* `control' is what a document adds to the liability it is posted to:     *)
(* negative for a vendor credit.  Requests do not overlap, and a caller    *)
(* does not write postingStatus or the link itself, which the unvalidated  *)
(* body of updateVendorCredit would let it do.                             *)
(***************************************************************************)
EXTENDS SubLedger

CONSTANTS
    VendorCredit, MileageLog, PerDiem,   \* the documents there can be
    MaxVoucher                           \* bound: the amount of one

Voucher == VendorCredit \cup MileageLog \cup PerDiem

ASSUME VouchersAssumption ==
    /\ Voucher \subseteq Document
    /\ VendorCredit \cap (MileageLog \cup PerDiem) = {}
    /\ MileageLog \cap PerDiem = {}
    /\ MaxVoucher \in Nat

VARIABLE
    voucher   \* the VendorCredit, MileageLog and PerDiemClaim rows

voucherVars == <<voucher, journal, control>>

-----------------------------------------------------------------------------
(* The statuses callers write.  APPROVED stands for a vendor credit's      *)
(* APPLIED, too: the status that goes with the posting.                    *)
VoucherStatus == {"DRAFT", "APPROVED", "VOIDED"}
VoucherAmount == 0 .. MaxVoucher

NoVoucher == [status |-> "NONE", postingStatus |-> "DRAFT", amount |-> 0,
              journalEntryId |-> NoEntry]

Existing == {v \in Voucher : voucher[v].status \notin {"NONE", "DELETED"}}

VoucherEntry(v, amount) == IF v \in VendorCredit THEN 0 - amount ELSE amount

VouchersInit == voucher = [v \in Voucher |-> NoVoucher] /\ JournalInit

(* createVendorCredit, createMileageLog, createPerDiem: with whatever      *)
(* status the caller sends, and never posted.                              *)
CreateVoucher(v) ==
    /\ voucher[v].status = "NONE"
    /\ \E status \in VoucherStatus, amount \in VoucherAmount :
          voucher' = [voucher EXCEPT ![v] =
             [NoVoucher EXCEPT !.status = status, !.amount = amount]]
    /\ UNCHANGED <<journal, control>>

(* postMileageToGL, postPerDiemToGL, postVendorCreditToGL, and the row     *)
(* that is written with them.  Nothing is posted for a document that has   *)
(* an entry, in force or not.                                              *)
PostVoucher(v, amount) ==
    \/ /\ AlreadyPosted(voucher[v])
       /\ voucher' = [voucher EXCEPT ![v].status = "APPROVED", ![v].amount = amount,
                                     ![v].postingStatus = "POSTED"]
       /\ UNCHANGED <<journal, control>>
    \/ /\ ~AlreadyPosted(voucher[v])
       /\ CreatePosted(v, VoucherEntry(v, amount))
       /\ voucher' = [voucher EXCEPT ![v].status = "APPROVED", ![v].amount = amount,
                                     ![v].postingStatus = "POSTED",
                                     ![v].journalEntryId = NextEntry]

(* updateMileageLog and updatePerDiem: the change to APPROVED posts.       *)
UpdateVoucher(v) ==
    /\ v \in Existing \ VendorCredit
    /\ \E status \in VoucherStatus, amount \in VoucherAmount :
          IF status = "APPROVED" /\ voucher[v].status # "APPROVED"
          THEN PostVoucher(v, amount)
          ELSE /\ voucher' = [voucher EXCEPT ![v].status = status, ![v].amount = amount]
               /\ UNCHANGED <<journal, control>>

(* updateVendorCredit writes what it is sent, and posts nothing.  The      *)
(* lines, which are what is posted, are not replaced: the nested create    *)
(* that it makes of them is one that the database client refuses.          *)
UpdateVendorCredit(v) ==
    /\ v \in Existing \cap VendorCredit
    /\ \E status \in VoucherStatus :
          voucher' = [voucher EXCEPT ![v].status = status]
    /\ UNCHANGED <<journal, control>>

ApplyVendorCredit(v) ==
    /\ v \in Existing \cap VendorCredit
    /\ voucher[v].status # "APPROVED"
    /\ PostVoucher(v, voucher[v].amount)

(* voidVendorCredit, voidMileage, voidPerDiem.  The link is kept.          *)
MayVoid(v) ==
    /\ voucher[v].postingStatus = "POSTED"
    /\ v \in VendorCredit \/ voucher[v].status # "VOIDED"

(* The entry of a mileage log or a per diem claim names no user, for which *)
(* its mirror image has 'system': the foreign key of createdById may refuse*)
(* that, and nothing happens.                                              *)
VoidVoucher(v) ==
    /\ v \in Existing
    /\ MayVoid(v)
    /\ AlreadyPosted(voucher[v])
    /\ MayReverse(voucher[v].journalEntryId)
    /\ PostMirror(voucher[v].journalEntryId)
    /\ voucher' = [voucher EXCEPT ![v].status = "VOIDED", ![v].postingStatus = "VOIDED"]

(* A vendor credit is deleted unless it is posted, a per diem claim while  *)
(* its status is DRAFT, a mileage log always.                              *)
MayDelete_ByStatus(v) == v \in MileageLog \/ voucher[v].status = "DRAFT"
MayDelete(v) ==
    \/ v \in VendorCredit /\ voucher[v].postingStatus # "POSTED"
    \/ v \in MileageLog
    \/ v \in PerDiem /\ voucher[v].status = "DRAFT"

DeleteVoucher(v) ==
    /\ v \in Existing
    /\ MayDelete(v)
    /\ voucher' = [voucher EXCEPT ![v].status = "DELETED"]
    /\ UNCHANGED <<journal, control>>

VouchersNext ==
    \E v \in Voucher :
       \/ CreateVoucher(v) \/ UpdateVoucher(v) \/ UpdateVendorCredit(v)
       \/ ApplyVendorCredit(v) \/ VoidVoucher(v) \/ DeleteVoucher(v)

VouchersSpec == VouchersInit /\ [][VouchersNext]_voucherVars

-----------------------------------------------------------------------------
VouchersTypeOK ==
    voucher \in [Voucher -> [status : VoucherStatus \cup {"NONE", "DELETED"},
                             postingStatus : {"DRAFT", "POSTED", "VOIDED"},
                             amount : VoucherAmount,
                             journalEntryId : {NoEntry} \cup DOMAIN journal]]

(* A vendor credit that was deleted has left nothing in the books, and one *)
(* that was not is in the books only as long as it says POSTED: deleting   *)
(* asks for postingStatus, editing and applying write the status, and the  *)
(* row does not say whether its entry is still in force.                   *)
DeletedCreditIsOut ==
    \A v \in VendorCredit :
       control[v] # 0 => v \in Existing /\ voucher[v].postingStatus = "POSTED"

(* However often the approval of a document is written, taken back and     *)
(* written again, and wherever a void falls in between, the books take its *)
(* amount up once and give it back once.                                   *)
VoucherStage(v) ==
    LET e == voucher[v].journalEntryId IN
       IF e = NoEntry THEN "out"
       ELSE IF journal[e].postingStatus = "POSTED" THEN "in" ELSE "gone"

VoucherBooks ==
    INSTANCE DocumentBooks
       WITH Document <- Voucher,
            Amount <- VoucherAmount,
            stage <- [v \in Voucher |-> VoucherStage(v)],
            carried <- [v \in Voucher |-> VoucherEntry(v, control[v])]

VouchersKeepBooks == VoucherBooks!BooksSpec
=============================================================================
