----------------------------- MODULE Receivables -----------------------------
(***************************************************************************)
(* Invoices and customer payments: ar.service.ts and ar.repository.ts over *)
(* the sub-ledger service.                                                 *)
(*                                                                         *)
(* An operation that touches the journal is several transactions in a row: *)
(* the document is changed in one, the journal in another, and the process *)
(* may stop, or the journal refuse (closed period, posting lock, number    *)
(* taken), in between.  `todo' is the part of the running operation that   *)
(* is still to come; Fail drops it.  Whoever called may try again.         *)
(*                                                                         *)
(* Requests do not overlap in this module: a transaction reads a balance   *)
(* and writes it back, so two that overlap need finer steps than these.    *)
(* Amounts are in units above the tolerances (0.005, 0.01) of the code.    *)
(***************************************************************************)
EXTENDS SubLedger, FiniteSets, Functions

CONSTANTS
    Invoice, Payment,  \* the invoices and payments there can be
    MaxDocuments,      \* bound: the invoices and payments made, together
    MaxAmount          \* bound: the amount of an invoice or of a payment

ASSUME DocumentsAssumption ==
    /\ Document = Invoice \cup Payment
    /\ Invoice \cap Payment = {}
ASSUME FiniteDocuments == IsFiniteSet(Invoice) /\ IsFiniteSet(Payment)
ASSUME BoundsAssumption == MaxDocuments \in Nat /\ MaxAmount \in Nat \ {0}

VARIABLES
    invoice,   \* the Invoice rows
    payment,   \* the PaymentReceived rows
    applied,   \* InvoicePaymentApplication: the amount of a payment applied
               \* to an invoice, 0 for no row (they are unique per pair)
    todo       \* the steps that the running operation has left

books == <<journal, control>>
vars == <<invoice, payment, applied, books, todo>>

-----------------------------------------------------------------------------
Amount == 1 .. MaxAmount          \* of a payment: the service refuses 0
InvoiceTotal == 0 .. MaxAmount    \* of an invoice: it does not

InvoiceStatus == {"NONE", "DRAFT", "SENT", "PARTIAL", "PAID", "OVERDUE", "VOID"}

NoInvoice == [status |-> "NONE", totalAmount |-> 0, balance |-> 0,
              pastDue |-> FALSE, journalEntryId |-> NoEntry]

NoPayment == [state |-> "NONE", amount |-> 0, unappliedAmount |-> 0,
              journalEntryId |-> NoEntry]

Nothing == [step |-> "nothing"]
Step(step, doc) == [step |-> step, doc |-> doc]

Invoices == {i \in Invoice : invoice[i].status # "NONE"}
Live == {p \in Payment : payment[p].state = "LIVE"}
Recorded == {p \in Payment : payment[p].state # "NONE"}

RoomForDocument == Cardinality(Invoices) + Cardinality(Recorded) < MaxDocuments

(* The lists of allocations a caller may send: an amount per invoice, 0    *)
(* for an invoice that is not in the list.                                 *)
Allocations == [Invoice -> 0 .. MaxAmount]
NoAllocation == [i \in Invoice |-> 0]
Total(allocations) == FoldFunctionOnSet(+, 0, allocations, Invoice)

AppliedTo(i) == FoldFunctionOnSet(+, 0, [p \in Payment |-> applied[p][i]], Payment)
AppliedOf(p) == Total(applied[p])

-----------------------------------------------------------------------------
DeriveStatus_OffByOne(inv, balance) ==
    IF balance <= 1 THEN "PAID" ELSE inv.status
DeriveStatus(inv, balance) ==
    IF balance <= 0 THEN "PAID"
    ELSE IF inv.status = "DRAFT" THEN "DRAFT"
    ELSE IF inv.pastDue THEN "OVERDUE"
    ELSE IF balance < inv.totalAmount THEN "PARTIAL" ELSE "SENT"

WithBalance(inv, balance) ==
    [inv EXCEPT !.balance = balance, !.status = DeriveStatus(inv, balance)]

(* An invoice after an amount is applied to it ...                         *)
Apply(inv, amount) ==
    IF amount = 0 THEN inv
    ELSE WithBalance(inv, IF amount < inv.balance THEN inv.balance - amount ELSE 0)

(* ... and after the amount is taken back.                                 *)
Restore_Forgets(inv, amount) == inv
Restore(inv, amount) ==
    IF amount = 0 \/ inv.status = "VOID" THEN inv
    ELSE WithBalance(inv, inv.balance + amount)

(* validatePaymentAllocations: `credit' is what the allocations replace.   *)
(* The status of an invoice is not looked at.                              *)
Allocatable(allocations, available, credit) ==
    /\ \A i \in Invoice : allocations[i] > 0 =>
          i \in Invoices /\ allocations[i] <= invoice[i].balance + credit[i]
    /\ Total(allocations) <= available

(* transitionOverdueInvoices, which runs whenever an invoice is fetched.   *)
MarkOverdue(invoices) ==
    [i \in Invoice |->
        IF /\ invoices[i].status \in {"SENT", "PARTIAL"}
           /\ invoices[i].balance > 0
           /\ invoices[i].pastDue
        THEN [invoices[i] EXCEPT !.status = "OVERDUE"]
        ELSE invoices[i]]

-----------------------------------------------------------------------------
Init == /\ invoice = [i \in Invoice |-> NoInvoice]
        /\ payment = [p \in Payment |-> NoPayment]
        /\ applied = [p \in Payment |-> [i \in Invoice |-> 0]]
        /\ JournalInit
        /\ todo = Nothing

(* createInvoice adds up the open invoices for the credit limit, and the   *)
(* list of invoices marks the overdue ones.  duplicateInvoice is the same  *)
(* with the total of another invoice.                                      *)
CreateInvoice(i) ==
    /\ todo = Nothing
    /\ i \notin Invoices /\ RoomForDocument
    /\ \E total \in InvoiceTotal :
          invoice' = [MarkOverdue(invoice) EXCEPT ![i] =
             [NoInvoice EXCEPT !.status = "DRAFT", !.totalAmount = total, !.balance = total]]
    /\ UNCHANGED <<payment, applied, books, todo>>

(* The edit of a draft writes total and balance, paid in part or not, and  *)
(* may put off the due date.                                               *)
UpdateInvoice(i) ==
    /\ todo = Nothing
    /\ invoice[i].status = "DRAFT"
    /\ \E total \in InvoiceTotal, pastDue \in BOOLEAN :
          invoice' = [invoice EXCEPT ![i].totalAmount = total, ![i].balance = total,
                                     ![i].pastDue = pastDue]
    /\ UNCHANGED <<payment, applied, books, todo>>

(* Time passes its due date.                                               *)
FallDue(i) ==
    /\ i \in Invoices
    /\ invoice' = [invoice EXCEPT ![i].pastDue = TRUE]
    /\ UNCHANGED <<payment, applied, books, todo>>

FetchInvoice ==
    /\ todo = Nothing
    /\ invoice' = MarkOverdue(invoice)
    /\ UNCHANGED <<payment, applied, books, todo>>

(* sendInvoice marks the invoice SENT, whatever it was, and goes on to     *)
(* post it.                                                                *)
SendInvoice(i) ==
    /\ todo = Nothing
    /\ i \in Invoices
    /\ invoice' = [invoice EXCEPT ![i].status = "SENT"]
    /\ todo' = Step("post invoice", i)
    /\ UNCHANGED <<payment, applied, books>>

(* postInvoiceToGL.                                                        *)
PostInvoice ==
    /\ todo.step = "post invoice"
    /\ LET i == todo.doc IN
          \/ /\ AlreadyPosted(invoice[i])
             /\ UNCHANGED <<invoice, books>>
          \/ /\ ~AlreadyPosted(invoice[i])
             /\ CreatePosted(i, invoice[i].totalAmount)
             /\ invoice' = [invoice EXCEPT ![i].journalEntryId = NextEntry]
    /\ todo' = Nothing
    /\ UNCHANGED <<payment, applied>>

(* voidInvoice reverses the entry first (reverseInvoiceGL) ...             *)
VoidInvoice(i) ==
    /\ todo = Nothing
    /\ i \in Invoices
    /\ invoice[i].status # "VOID"
    /\ LET e == invoice[i].journalEntryId IN
          \/ /\ e = NoEntry
             /\ invoice' = MarkOverdue(invoice)
             /\ UNCHANGED books
          \/ /\ e # NoEntry
             /\ PostMirror(e)
             /\ invoice' = [MarkOverdue(invoice) EXCEPT ![i].journalEntryId = NoEntry]
    /\ todo' = Step("void invoice", i)
    /\ UNCHANGED <<payment, applied>>

(* ... and then voids the invoice and gives its payments their amounts     *)
(* back.                                                                   *)
Released_Lost(p, i) == payment[p].unappliedAmount
Released(p, i) ==
    LET rest == payment[p].unappliedAmount + applied[p][i]
    IN  IF rest < payment[p].amount THEN rest ELSE payment[p].amount

Voided_KeepsBalance(inv) ==
    [inv EXCEPT !.status = "VOID", !.journalEntryId = NoEntry]
Voided(inv) ==
    [inv EXCEPT !.status = "VOID", !.journalEntryId = NoEntry,
                !.balance = inv.totalAmount]

FinishVoidInvoice ==
    /\ todo.step = "void invoice"
    /\ LET i == todo.doc IN
          /\ invoice' = [invoice EXCEPT ![i] = Voided(@)]
          /\ payment' = [p \in Payment |->
                IF p \in Live
                THEN [payment[p] EXCEPT !.unappliedAmount = Released(p, i)]
                ELSE payment[p]]
          /\ applied' = [p \in Payment |-> [applied[p] EXCEPT ![i] = 0]]
    /\ todo' = Nothing
    /\ UNCHANGED books

-----------------------------------------------------------------------------
RecordPayment(p) ==
    /\ todo = Nothing
    /\ p \notin Recorded /\ RoomForDocument
    /\ \E amount \in Amount, allocations \in Allocations :
          /\ Allocatable(allocations, amount, NoAllocation)
          /\ payment' = [payment EXCEPT ![p] =
                [NoPayment EXCEPT !.state = "LIVE", !.amount = amount,
                                  !.unappliedAmount = amount - Total(allocations)]]
          /\ applied' = [applied EXCEPT ![p] = allocations]
          /\ invoice' = [i \in Invoice |-> Apply(invoice[i], allocations[i])]
    /\ todo' = Step("post payment", p)
    /\ UNCHANGED books

(* postPaymentReceivedToGL.                                                *)
PostPayment ==
    /\ todo.step = "post payment"
    /\ LET p == todo.doc IN
          /\ ~AlreadyPosted(payment[p])
          /\ CreatePosted(p, 0 - payment[p].amount)
          /\ payment' = [payment EXCEPT ![p].journalEntryId = NextEntry]
    /\ todo' = Nothing
    /\ UNCHANGED <<invoice, applied>>

(* Apply what is left of a payment, to invoices it is not applied to yet.  *)
ApplyPayment(p) ==
    /\ todo = Nothing
    /\ p \in Live
    /\ \E allocations \in Allocations \ {NoAllocation} :
          /\ \A i \in Invoice : allocations[i] > 0 => applied[p][i] = 0
          /\ Allocatable(allocations, payment[p].amount - AppliedOf(p), NoAllocation)
          /\ applied' = [applied EXCEPT ![p] =
                [i \in Invoice |-> @[i] + allocations[i]]]
          /\ payment' = [payment EXCEPT ![p].unappliedAmount =
                payment[p].amount - AppliedOf(p) - Total(allocations)]
          /\ invoice' = [i \in Invoice |-> Apply(invoice[i], allocations[i])]
    /\ UNCHANGED <<books, todo>>

(* updatePayment: take every application back, then apply anew.            *)
ReplaceAllocations(p) ==
    /\ todo = Nothing
    /\ p \in Live
    /\ \E allocations \in Allocations :
          /\ Allocatable(allocations, payment[p].amount, applied[p])
          /\ applied' = [applied EXCEPT ![p] = allocations]
          /\ payment' = [payment EXCEPT ![p].unappliedAmount =
                payment[p].amount - Total(allocations)]
          /\ invoice' = [i \in Invoice |->
                Apply(Restore(invoice[i], applied[p][i]), allocations[i])]
    /\ UNCHANGED <<books, todo>>

(* voidPayment, the repository's part: take the applications back, reverse *)
(* the entry (createReversingJE) and delete the payment.  It keeps the     *)
(* payment's link to the entry.                                            *)
VoidPayment(p) ==
    /\ todo = Nothing
    /\ p \in Live
    /\ LET e == payment[p].journalEntryId IN
          \/ /\ e = NoEntry
             /\ UNCHANGED books
          \/ /\ e # NoEntry
             /\ MayReverse(e)
             /\ PostMirror(e)
    /\ invoice' = [i \in Invoice |-> Restore(invoice[i], applied[p][i])]
    /\ applied' = [applied EXCEPT ![p] = NoAllocation]
    /\ payment' = [payment EXCEPT ![p].state = "DELETED"]
    /\ todo' = Step("reverse payment", p)

(* The service's part: reversePaymentReceivedGL, on the same entry.        *)
ReversePayment ==
    /\ todo.step = "reverse payment"
    /\ LET p == todo.doc
           e == payment[p].journalEntryId
       IN  \/ /\ e = NoEntry
              /\ UNCHANGED <<payment, books>>
           \/ /\ e # NoEntry
              /\ PostMirror(e)
              /\ payment' = [payment EXCEPT ![p].journalEntryId = NoEntry]
    /\ todo' = Nothing
    /\ UNCHANGED <<invoice, applied>>

-----------------------------------------------------------------------------
(* The operation ends before its next transaction commits.                 *)
Fail ==
    /\ todo # Nothing
    /\ todo' = Nothing
    /\ UNCHANGED <<invoice, payment, applied, books>>

InvoiceStep(i) ==
    \/ CreateInvoice(i) \/ UpdateInvoice(i) \/ FallDue(i)
    \/ SendInvoice(i) \/ VoidInvoice(i)

PaymentStep(p) ==
    \/ RecordPayment(p) \/ ApplyPayment(p) \/ ReplaceAllocations(p)
    \/ VoidPayment(p)

Next ==
    \/ \E i \in Invoice : InvoiceStep(i)
    \/ \E p \in Payment : PaymentStep(p)
    \/ FetchInvoice \/ FinishVoidInvoice
    \/ PostInvoice \/ PostPayment \/ ReversePayment
    \/ Fail

Spec == Init /\ [][Next]_vars

-----------------------------------------------------------------------------
TypeOK ==
    /\ invoice \in [Invoice -> [status : InvoiceStatus, totalAmount : InvoiceTotal,
                                balance : Nat, pastDue : BOOLEAN,
                                journalEntryId : {NoEntry} \cup DOMAIN journal]]
    /\ payment \in [Payment -> [state : {"NONE", "LIVE", "DELETED"},
                                amount : 0 .. MaxAmount,
                                unappliedAmount : 0 .. MaxAmount,
                                journalEntryId : {NoEntry} \cup DOMAIN journal]]
    /\ applied \in [Payment -> Allocations]
    /\ JournalTypeOK
    /\ todo.step \in {"nothing", "post invoice", "void invoice",
                      "post payment", "reverse payment"}

(* Accounts Receivable carries an invoice exactly once, at its total, while*)
(* the invoice is linked to its entry, and nothing of it otherwise; the    *)
(* entry it is linked to is in force.  However often sending and voiding   *)
(* fail half-way and are tried again.                                      *)
InvoiceInBooks ==
    \A i \in Invoice :
       LET e == invoice[i].journalEntryId IN
          /\ control[i] = IF e = NoEntry THEN 0 ELSE invoice[i].totalAmount
          /\ e # NoEntry => journal[e].postingStatus = "POSTED"

(* What is left of a payment is its amount less what is applied of it; a   *)
(* voided payment is applied to nothing.                                   *)
UnappliedIsTheRest ==
    /\ \A p \in Live : payment[p].unappliedAmount = payment[p].amount - AppliedOf(p)
    /\ \A p \in Payment \ Live : AppliedOf(p) = 0

(* No invoice is settled by more than was paid: what its balance is below  *)
(* its total is applied to it by payments, and PAID means all of it is.    *)
SettledByPayments ==
    \A i \in Invoice :
       /\ invoice[i].totalAmount - invoice[i].balance <= AppliedTo(i)
       /\ invoice[i].status = "PAID" => invoice[i].totalAmount <= AppliedTo(i)

(* A void invoice stands at its full total, holds no payment back and is   *)
(* not in the books, also when the void before failed half-way.            *)
VoidIsEmpty ==
    \A i \in Invoice :
       invoice[i].status = "VOID" =>
          /\ invoice[i].balance = invoice[i].totalAmount
          /\ \A p \in Payment : applied[p][i] = 0
          /\ control[i] = 0

(* Whatever operations are called, fail half-way and are called again, the *)
(* books take an invoice up at its total, once, and give it back as a      *)
(* whole before they may take it up again.                                 *)
InvoiceBooks ==
    INSTANCE DocumentBooks
       WITH Document <- Invoice,
            Amount <- InvoiceTotal,
            stage <- [i \in Invoice |->
                        IF invoice[i].journalEntryId = NoEntry THEN "out" ELSE "in"],
            carried <- [i \in Invoice |-> control[i]]

InvoicesKeepBooks == InvoiceBooks!BooksSpec

-----------------------------------------------------------------------------
(* Voiding a payment takes it out of Accounts Receivable ("Reverses the    *)
(* original receipt JournalEntry").  Not so: the repository reverses it    *)
(* and the service reverses it again.                                      *)
VoidedPaymentIsOut ==
    \A p \in Payment :
       payment[p].state = "DELETED" => control[p] = 0
=============================================================================
