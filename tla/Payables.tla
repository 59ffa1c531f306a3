------------------------------ MODULE Payables -------------------------------
(***************************************************************************)
(* Bills and bill payments: ap.service.ts and ap.repository.ts over the    *)
(* sub-ledger service.                                                     *)
(*                                                                         *)
(* A bill is posted and reversed in the transaction that approves and      *)
(* unapproves it.  A payment is recorded in one transaction, posted in a   *)
(* second and marked POSTED in a third; the process may stop, or the       *)
(* journal refuse, in between, and nothing tries again: `paying' is what   *)
(* recordBillPayment has still to do, StopPaying drops it.                 *)
(*                                                                         *)
(* A payment that is recorded stays: voidBillPayment writes a column       *)
(* `status' (ap.repository.ts:429) that BillPayment does not have          *)
(* (schema.prisma:9578-9622), so the database client refuses the write and *)
(* the whole transaction is undone.                                        *)
(*                                                                         *)
(* `control' is what Accounts Payable owes for a document: positive for a  *)
(* bill, negative for a payment.  A bill is owed at its total but posted   *)
(* at what its lines come to, which may be more (BillAmounts): `lines'     *)
(* keeps that amount.  Amounts are in units above the code's tolerance     *)
(* (0.01); requests do not overlap.                                        *)
(***************************************************************************)
EXTENDS SubLedger, FiniteSets, Functions

CONSTANTS
    Bill, BillPayment,   \* the bills and the payments there can be
    MaxPayables,         \* bound: the bills and payments made, together
    MaxPaid,             \* bound: what a bill posts, the amount of a payment
    MaxNegative          \* bound: how far below zero the total of a bill may be

ASSUME PayablesAssumption ==
    /\ Bill \subseteq Document /\ BillPayment \subseteq Document
    /\ Bill \cap BillPayment = {}
    /\ IsFiniteSet(Bill) /\ IsFiniteSet(BillPayment)
    /\ MaxPayables \in Nat /\ MaxPaid \in Nat \ {0}
    /\ MaxNegative \in Nat

VARIABLES
    bill,          \* the Bill rows
    billPayment,   \* the BillPayment rows
    billApplied,   \* BillPaymentApplication: the amount of a payment applied
                   \* to a bill, 0 for no row (they are unique per pair)
    paying         \* the steps that the running recordBillPayment has left

payables == <<bill, billPayment, billApplied, paying>>
payablesVars == <<payables, journal, control>>

-----------------------------------------------------------------------------
BillStatus == {"NONE", "DRAFT", "PENDING", "APPROVED", "PARTIALLY_PAID", "PAID",
               "REJECTED", "VOIDED", "DELETED"}
Amount == 0 .. MaxPaid
BillTotal == (0 - MaxNegative) .. MaxPaid

(* What a list of lines makes of a bill.  The total sums all the amounts   *)
(* sent, and updateBill takes one that is missing for 0 where the line     *)
(* gets its quantity times its rate; the entry is for the positive lines   *)
(* alone.  So a bill may be posted at more than its total, never at less.  *)
(* No line of a bill has a LineTax, and no bill an ewtAmount.              *)
BillAmounts == {a \in [total : BillTotal, lines : Amount] : a.total <= a.lines}

NoBill == [status |-> "NONE", postingStatus |-> "DRAFT", total |-> 0, lines |-> 0,
           balance |-> 0, journalEntryId |-> NoEntry]

WithAmounts(row, a) ==
    [row EXCEPT !.total = a.total, !.lines = a.lines, !.balance = a.total]

NoBillPayment == [amount |-> 0, billId |-> "none", postingStatus |-> "DRAFT",
                  journalEntryId |-> NoEntry]

NotPaying == [step |-> "nothing"]

Bills == {b \in Bill : bill[b].status # "NONE"}
Paid == {p \in BillPayment : billPayment[p].amount > 0}
RoomForPayable == Cardinality(Bills) + Cardinality(Paid) < MaxPayables

(* The applications a caller may send: an amount per bill, 0 for a bill    *)
(* that is not in the list.                                                *)
Applications == [Bill -> Amount]
TotalApplied(applications) == FoldFunctionOnSet(+, 0, applications, Bill)

AppliedToBill(b) ==
    FoldFunctionOnSet(+, 0, [p \in BillPayment |-> billApplied[p][b]], BillPayment)

-----------------------------------------------------------------------------
PayablesInit ==
    /\ bill = [b \in Bill |-> NoBill]
    /\ billPayment = [p \in BillPayment |-> NoBillPayment]
    /\ billApplied = [p \in BillPayment |-> [b \in Bill |-> 0]]
    /\ paying = NotPaying
    /\ JournalInit

(* What an operation on a single bill leaves alone.                        *)
OnlyBill == paying = NotPaying /\ UNCHANGED <<billPayment, billApplied, paying>>

(* createBill; convertPoToBill makes the same row from a purchase order.   *)
CreateBill(b) ==
    /\ b \notin Bills /\ RoomForPayable
    /\ \E a \in BillAmounts :
          bill' = [bill EXCEPT ![b] = [WithAmounts(NoBill, a) EXCEPT !.status = "DRAFT"]]
    /\ OnlyBill /\ UNCHANGED <<journal, control>>

(* A draft may be one that was approved before: it keeps its entry.        *)
UpdateBill(b) ==
    /\ bill[b].status = "DRAFT"
    /\ \E a \in BillAmounts : bill' = [bill EXCEPT ![b] = WithAmounts(bill[b], a)]
    /\ OnlyBill /\ UNCHANGED <<journal, control>>

(* The row of a bill that some payment was recorded for is not deleted:    *)
(* BillPayment refers to it.                                               *)
DeleteBill(b) ==
    /\ bill[b].status = "DRAFT"
    /\ \A p \in BillPayment : billPayment[p].billId # b
    /\ bill' = [bill EXCEPT ![b] = [NoBill EXCEPT !.status = "DELETED"]]
    /\ OnlyBill /\ UNCHANGED <<journal, control>>

SubmitBill(b) ==
    /\ bill[b].status \in {"DRAFT", "REJECTED"}
    /\ bill' = [bill EXCEPT ![b].status = "PENDING"]
    /\ OnlyBill /\ UNCHANGED <<journal, control>>

RejectBill(b) ==
    /\ bill[b].status = "PENDING"
    /\ bill' = [bill EXCEPT ![b].status = "REJECTED"]
    /\ OnlyBill /\ UNCHANGED <<journal, control>>

(* postBillToGL does nothing for a bill that has an entry, in force or not.*)
ApproveBill(b) ==
    /\ bill[b].status = "PENDING"
    /\ \/ /\ AlreadyPosted(bill[b])
          /\ bill' = [bill EXCEPT ![b].status = "APPROVED", ![b].postingStatus = "POSTED"]
          /\ UNCHANGED <<journal, control>>
       \/ /\ ~AlreadyPosted(bill[b])
          /\ CreatePosted(b, bill[b].lines)
          /\ bill' = [bill EXCEPT ![b].status = "APPROVED", ![b].postingStatus = "POSTED",
                                  ![b].journalEntryId = NextEntry]
    /\ OnlyBill

(* postBillReversalToGL asks for a link and for postingStatus POSTED,      *)
(* which an approved bill has, and not whether the entry is VOIDED.        *)
Unapprovable_Paid(b) == bill[b].status \in {"APPROVED", "PARTIALLY_PAID"}
Unapprovable(b) == bill[b].status = "APPROVED"

UnapproveBill(b) ==
    /\ Unapprovable(b)
    /\ IF AlreadyPosted(bill[b]) /\ bill[b].postingStatus = "POSTED"
       THEN PostMirror(bill[b].journalEntryId)
       ELSE UNCHANGED <<journal, control>>
    /\ bill' = [bill EXCEPT ![b].status = "DRAFT", ![b].postingStatus = "DRAFT"]
    /\ OnlyBill

(* voidBill reverses with createReversingJE, which throws for an entry     *)
(* that is VOIDED: a bill that was unapproved cannot be voided.            *)
Voidable(b) == /\ bill[b].status \notin {"NONE", "DELETED", "VOIDED"}
               /\ bill[b].total - bill[b].balance <= 0

VoidBill(b) ==
    /\ Voidable(b)
    /\ LET e == bill[b].journalEntryId IN
          \/ /\ e = NoEntry
             /\ UNCHANGED <<journal, control>>
          \/ /\ e # NoEntry
             /\ MayReverse(e)
             /\ PostMirror(e)
    /\ bill' = [bill EXCEPT ![b].status = "VOIDED", ![b].postingStatus = "VOIDED"]
    /\ OnlyBill

-----------------------------------------------------------------------------
Payable(b) == bill[b].status \in {"APPROVED", "PARTIALLY_PAID"}

(* A bill after an amount of a payment is applied to it.                   *)
PayBill_NeverPaid(row, amount) ==
    IF amount = 0 THEN row
    ELSE [row EXCEPT !.balance = row.balance - amount, !.status = "APPROVED"]
PayBill(row, amount) ==
    IF amount = 0 THEN row
    ELSE [row EXCEPT !.balance = row.balance - amount,
                     !.status = IF row.balance = amount THEN "PAID" ELSE "PARTIALLY_PAID"]

Applicable_AnyAmount(applications, amount) ==
    /\ \A b \in Bill : applications[b] > 0 => Payable(b)
    /\ TotalApplied(applications) <= amount
Applicable(applications, amount) ==
    /\ \A b \in Bill : applications[b] > 0 =>
          Payable(b) /\ applications[b] <= bill[b].balance
    /\ TotalApplied(applications) <= amount

(* recordBillPayment, the first of its transactions; recordPayment is the  *)
(* case of one application, to the bill itself.  The bill that the payment *)
(* is for need not be one it is applied to.                                *)
RecordBillPayment(p) ==
    /\ paying = NotPaying
    /\ p \notin Paid /\ RoomForPayable
    /\ \E b \in Bill, amount \in 1 .. MaxPaid, applications \in Applications :
          /\ Payable(b)
          /\ Applicable(applications, amount)
          /\ billPayment' = [billPayment EXCEPT ![p] =
                [NoBillPayment EXCEPT !.amount = amount, !.billId = b]]
          /\ billApplied' = [billApplied EXCEPT ![p] = applications]
          /\ bill' = [x \in Bill |-> PayBill(bill[x], applications[x])]
    /\ paying' = [step |-> "post", payment |-> p]
    /\ UNCHANGED <<journal, control>>

(* postBillPaymentToGL: without an account for cash it returns and posts   *)
(* nothing.  For a payment from a bank account it throws (StopPaying): it  *)
(* takes the id of the bank account for that of a ledger account, which    *)
(* the foreign key of the entry's line refuses.                            *)
PostBillPayment ==
    /\ paying.step = "post"
    /\ LET p == paying.payment IN
          \/ /\ UNCHANGED <<journal, control, billPayment>>
          \/ /\ CreatePosted(p, 0 - billPayment[p].amount)
             /\ billPayment' = [billPayment EXCEPT ![p].journalEntryId = NextEntry]
    /\ paying' = [paying EXCEPT !.step = "mark"]
    /\ UNCHANGED <<bill, billApplied>>

(* postBillPaymentAndReturn.                                               *)
MarkBillPayment ==
    /\ paying.step = "mark"
    /\ billPayment' = [billPayment EXCEPT ![paying.payment].postingStatus = "POSTED"]
    /\ paying' = NotPaying
    /\ UNCHANGED <<bill, billApplied, journal, control>>

StopPaying ==
    /\ paying # NotPaying
    /\ paying' = NotPaying
    /\ UNCHANGED <<bill, billPayment, billApplied, journal, control>>

BillStep(b) ==
    \/ CreateBill(b) \/ UpdateBill(b) \/ DeleteBill(b)
    \/ SubmitBill(b) \/ RejectBill(b) \/ ApproveBill(b)
    \/ UnapproveBill(b) \/ VoidBill(b)

PayablesNext ==
    \/ \E b \in Bill : BillStep(b)
    \/ \E p \in BillPayment : RecordBillPayment(p)
    \/ PostBillPayment \/ MarkBillPayment \/ StopPaying

PayablesSpec == PayablesInit /\ [][PayablesNext]_payablesVars

-----------------------------------------------------------------------------
PayablesTypeOK ==
    /\ bill \in [Bill -> [status : BillStatus, total : BillTotal, lines : Amount,
                          balance : BillTotal, postingStatus : {"DRAFT", "POSTED", "VOIDED"},
                          journalEntryId : {NoEntry} \cup DOMAIN journal]]
    /\ \A b \in Bill : bill[b].balance < 0 => bill[b].balance = bill[b].total
    /\ billPayment \in [BillPayment -> [amount : Amount, billId : Bill \cup {"none"},
                                        postingStatus : {"DRAFT", "POSTED"},
                                        journalEntryId : {NoEntry} \cup DOMAIN journal]]
    /\ billApplied \in [BillPayment -> Applications]
    /\ paying.step \in {"nothing", "post", "mark"}

(* Accounts Payable carries a bill exactly while its entry is in force,    *)
(* once and at what its present lines come to, and then the bill is        *)
(* approved: over any sequence of approving, unapproving, editing, paying  *)
(* and voiding.  A bill whose entry was reversed is not carried.  (That    *)
(* amount is not the total: BillAmounts.)                                  *)
BillCarriedOnce ==
    \A b \in Bill :
       LET e == bill[b].journalEntryId IN
          IF e # NoEntry /\ journal[e].postingStatus = "POSTED"
          THEN /\ journal[e].doc = b
               /\ control[b] = bill[b].lines
               /\ bill[b].status \in {"APPROVED", "PARTIALLY_PAID", "PAID"}
          ELSE control[b] <= 0

(* The balance of a bill is its total less what payments apply to it, and  *)
(* its status says which of the two is zero: the status is what approving, *)
(* unapproving and editing go by, none of which looks at the payments.     *)
BillBalanceIsTheRest ==
    \A b \in Bills :
       /\ bill[b].balance = bill[b].total - AppliedToBill(b)
       /\ AppliedToBill(b) > 0 <=> bill[b].status \in {"PARTIALLY_PAID", "PAID"}
       /\ bill[b].status = "PAID" => bill[b].balance = 0

(* A bill leaves the books only while no payment is applied to it, though  *)
(* unapproveBill asks for the status and voidBill for the balance alone.   *)
BillLeavesUnpaid ==
    [][\A b \in Bill : control'[b] < control[b] => AppliedToBill(b) = 0]_payablesVars

(* "Whenever ... a Bill is approved, ... creates the corresponding POSTED  *)
(* JournalEntry" (sub-ledger.service.ts): an approved bill is owed.  Not   *)
(* so once it was unapproved: it keeps its link to the reversed entry and  *)
(* approving it again posts nothing.                                       *)
ApprovedBillIsOwed ==
    \A b \in Bill :
       bill[b].status \in {"APPROVED", "PARTIALLY_PAID", "PAID"} =>
          control[b] = bill[b].lines
=============================================================================
