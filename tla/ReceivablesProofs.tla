-------------------------- MODULE ReceivablesProofs --------------------------
(***************************************************************************)
(* Invoices stay in the books exactly once, and a void invoice is empty,   *)
(* for any number of invoices and payments and wherever operations fail;   *)
(* amounts, applications and balances agree; and no payment is in two      *)
(* deposits, short of one that was posted when it was void.                *)
(***************************************************************************)
EXTENDS Deposits, SubLedgerProofs

InvoiceRow == [status : InvoiceStatus, totalAmount : InvoiceTotal, balance : Nat,
               pastDue : BOOLEAN, journalEntryId : Nat]

(* Of a payment, what the argument needs: its fields, its amount and that  *)
(* its entry, if it has one, was made for it.                              *)
PaymentSound(row, p) ==
    /\ DOMAIN row = {"state", "amount", "unappliedAmount", "journalEntryId"}
    /\ row.amount \in Int
    /\ row.journalEntryId \in Nat
    /\ AlreadyPosted(row) =>
          row.journalEntryId \in DOMAIN journal /\ journal[row.journalEntryId].doc = p

RowsSound ==
    /\ invoice \in [Invoice -> InvoiceRow]
    /\ DOMAIN payment = Payment
    /\ \A p \in Payment : PaymentSound(payment[p], p)
    /\ applied \in [Payment -> [Invoice -> 0 .. MaxAmount]]
    /\ JournalTypeOK

(* An invoice and the books agree: the entry it is linked to is its own,   *)
(* at its total and in force, and the control account carries just that.   *)
(* A draft, or a void invoice, is linked to none.                          *)
InvoiceSound(i) ==
    LET row == invoice[i]
        e == row.journalEntryId
    IN  /\ AlreadyPosted(row) =>
              /\ e \in DOMAIN journal
              /\ journal[e] = PostedEntry(i, row.totalAmount)
              /\ control[i] = row.totalAmount
              /\ row.status \notin {"NONE", "DRAFT", "VOID"}
        /\ ~AlreadyPosted(row) => control[i] = 0
        /\ row.status = "VOID" =>
              /\ row.balance = row.totalAmount
              /\ \A p \in Payment : applied[p][i] = 0

(* What the steps to come rely on.                                         *)
TodoSound ==
    /\ todo.step = "post invoice" =>
          /\ todo.doc \in Invoice
          /\ invoice[todo.doc].status \notin {"NONE", "DRAFT", "VOID"}
    /\ todo.step = "void invoice" =>
          /\ todo.doc \in Invoice
          /\ ~AlreadyPosted(invoice[todo.doc])
    /\ todo.step \in {"post payment", "reverse payment"} => todo.doc \in Payment

BooksSound ==
    /\ RowsSound
    /\ \A i \in Invoice : InvoiceSound(i)
    /\ TodoSound

-----------------------------------------------------------------------------
(* What taking an amount from an invoice's balance, giving it back and     *)
(* marking it overdue have in common: total and entry stay, and no invoice *)
(* becomes a draft or void by it, or changes when it is void.              *)
Kept(old, new) ==
    /\ new \in InvoiceRow
    /\ new.totalAmount = old.totalAmount
    /\ new.journalEntryId = old.journalEntryId
    /\ new.status \in {"NONE", "DRAFT", "VOID"} => new.status = old.status
    /\ new.status = "VOID" => new.balance = old.balance

(* Status and balance derived from each other (deriveInvoiceStatus...).    *)
LEMMA WithBalanceKeeps ==
    ASSUME NEW inv \in InvoiceRow, NEW balance \in Nat
    PROVE  /\ Kept(inv, WithBalance(inv, balance))
           /\ WithBalance(inv, balance).status # "VOID"
  BY BoundsAssumption
     DEF WithBalance, DeriveStatus, Kept, InvoiceRow, InvoiceStatus, InvoiceTotal

(* Only the invoices an amount is applied to change.                       *)
LEMMA ApplyKeeps ==
    ASSUME NEW inv \in InvoiceRow, NEW amount \in 0 .. MaxAmount
    PROVE  /\ Kept(inv, Apply(inv, amount))
           /\ Apply(inv, amount).status = "VOID" => amount = 0
<1>1. CASE amount = 0
  BY <1>1 DEF Apply, Kept
<1>2. CASE amount # 0
  <2> DEFINE rest == IF amount < inv.balance THEN inv.balance - amount ELSE 0
  <2>1. rest \in Nat
    BY BoundsAssumption DEF InvoiceRow
  <2>2. Apply(inv, amount) = WithBalance(inv, rest)
    BY <1>2 DEF Apply
  <2> QED
    BY <2>1, <2>2, WithBalanceKeeps
<1> QED
  BY <1>1, <1>2

(* Only the invoices an amount is given back to change, and void ones not. *)
LEMMA RestoreKeeps ==
    ASSUME NEW inv \in InvoiceRow, NEW amount \in 0 .. MaxAmount
    PROVE  Kept(inv, Restore(inv, amount))
<1>1. CASE amount = 0 \/ inv.status = "VOID"
  BY <1>1 DEF Restore, Kept
<1>2. CASE ~(amount = 0 \/ inv.status = "VOID")
  <2>1. inv.balance + amount \in Nat
    BY BoundsAssumption DEF InvoiceRow
  <2>2. Restore(inv, amount) = WithBalance(inv, inv.balance + amount)
    BY <1>2 DEF Restore
  <2> QED
    BY <2>1, <2>2, WithBalanceKeeps
<1> QED
  BY <1>1, <1>2

(* transitionOverdueInvoices.                                              *)
LEMMA MarkOverdueKeeps ==
    ASSUME invoice \in [Invoice -> InvoiceRow]
    PROVE  /\ MarkOverdue(invoice) \in [Invoice -> InvoiceRow]
           /\ \A i \in Invoice : Kept(invoice[i], MarkOverdue(invoice)[i])
  BY DEF MarkOverdue, Kept, InvoiceRow, InvoiceStatus

(* An invoice that is kept stays sound as long as its entry, its balance   *)
(* in the books and, when it is void, its lack of payments stay.           *)
LEMMA KeptIsSound ==
    ASSUME NEW i \in Invoice, InvoiceSound(i), Kept(invoice[i], invoice'[i]),
           control'[i] = control[i],
           \A e \in DOMAIN journal : journal[e].doc = i =>
              e \in DOMAIN journal' /\ journal'[e] = journal[e],
           invoice'[i].status = "VOID" => \A p \in Payment : applied'[p][i] = 0
    PROVE  InvoiceSound(i)'
  BY DEF InvoiceSound, Kept, AlreadyPosted, PostedEntry

(* A payment whose entry, if it still has one, is the same stays sound     *)
(* while entries keep their documents.                                     *)
LEMMA PaymentKeptIsSound ==
    ASSUME NEW p \in Payment, PaymentSound(payment[p], p),
           DOMAIN payment'[p] = DOMAIN payment[p],
           payment'[p].amount = payment[p].amount,
           payment'[p].journalEntryId \in {payment[p].journalEntryId, NoEntry},
           \A e \in DOMAIN journal :
              e \in DOMAIN journal' /\ journal'[e].doc = journal[e].doc
    PROVE  PaymentSound(payment[p], p)'
  BY DEF PaymentSound, AlreadyPosted, NoEntry

-----------------------------------------------------------------------------
(* No documents and no entries.                                            *)
LEMMA BooksSoundInit == Init => BooksSound
<1> SUFFICES ASSUME Init PROVE BooksSound
  OBVIOUS
<1> USE BoundsAssumption, DocumentsAssumption DEF Init
<1>1. JournalTypeOK
  BY DEF JournalInit, JournalTypeOK
<1>2. invoice \in [Invoice -> InvoiceRow] /\ applied \in [Payment -> [Invoice -> 0 .. MaxAmount]]
  BY DEF NoInvoice, InvoiceRow, InvoiceStatus, InvoiceTotal, NoEntry
<1>3. DOMAIN payment = Payment /\ \A p \in Payment : PaymentSound(payment[p], p)
  BY DEF PaymentSound, NoPayment, AlreadyPosted, NoEntry
<1>4. \A i \in Invoice : InvoiceSound(i)
  BY DEF InvoiceSound, NoInvoice, AlreadyPosted, NoEntry, JournalInit
<1>5. TodoSound
  BY DEF TodoSound, Nothing
<1> QED
  BY <1>1, <1>2, <1>3, <1>4, <1>5 DEF BooksSound, RowsSound

(* What an operation has to show when it leaves the books alone.           *)
LEMMA SoundWithoutPosting ==
    ASSUME BooksSound, UNCHANGED books,
           invoice' \in [Invoice -> InvoiceRow],
           applied' \in [Payment -> [Invoice -> 0 .. MaxAmount]],
           DOMAIN payment' = Payment,
           \A p \in Payment :
              PaymentSound(payment'[p], p) \/ payment'[p] = payment[p],
           \A i \in Invoice : Kept(invoice[i], invoice'[i]) \/ InvoiceSound(i)',
           \A i \in Invoice : invoice'[i].status = "VOID" =>
              \A p \in Payment : applied'[p][i] = 0,
           TodoSound'
    PROVE  BooksSound'
<1> USE DEF BooksSound, RowsSound, books
<1>1. \A i \in Invoice : InvoiceSound(i)'
  <2> SUFFICES ASSUME NEW i \in Invoice, Kept(invoice[i], invoice'[i])
               PROVE  InvoiceSound(i)'
    OBVIOUS
  <2>1. InvoiceSound(i)
    OBVIOUS
  <2>2. control'[i] = control[i]
    OBVIOUS
  <2>3. \A e \in DOMAIN journal : e \in DOMAIN journal' /\ journal'[e] = journal[e]
    OBVIOUS
  <2> QED
    BY <2>1, <2>2, <2>3, KeptIsSound
<1>2. \A p \in Payment : PaymentSound(payment[p], p)'
  BY DEF PaymentSound, AlreadyPosted
<1>3. JournalTypeOK'
  BY DEF JournalTypeOK
<1> QED
  BY <1>1, <1>2, <1>3

(* The same for an operation that only changes the invoices' rows.         *)
LEMMA SoundOnInvoices ==
    ASSUME BooksSound, UNCHANGED <<payment, applied, books>>,
           invoice' \in [Invoice -> InvoiceRow],
           \A i \in Invoice : Kept(invoice[i], invoice'[i]) \/ InvoiceSound(i)',
           TodoSound'
    PROVE  BooksSound'
<1>1. \A i \in Invoice : invoice'[i].status = "VOID" =>
         \A p \in Payment : applied'[p][i] = 0
  BY DEF BooksSound, InvoiceSound, Kept
<1>2. /\ applied' \in [Payment -> [Invoice -> 0 .. MaxAmount]]
      /\ DOMAIN payment' = Payment
      /\ \A p \in Payment : payment'[p] = payment[p]
  BY DEF BooksSound, RowsSound
<1> QED
  BY <1>1, <1>2, SoundWithoutPosting

-----------------------------------------------------------------------------
(* Operations on an invoice that leave the books alone.                    *)
LEMMA InvoiceStepsSound ==
    ASSUME BooksSound, NEW i \in Invoice,
           CreateInvoice(i) \/ UpdateInvoice(i) \/ FallDue(i) \/ SendInvoice(i)
    PROVE  BooksSound'
<1> USE DEF BooksSound, RowsSound
<1>0. \A j \in Invoice : Kept(invoice[j], invoice[j])
  BY DEF Kept
<1>1. CASE CreateInvoice(i)
  <2>1. PICK total \in InvoiceTotal :
           invoice' = [MarkOverdue(invoice) EXCEPT ![i] =
              [NoInvoice EXCEPT !.status = "DRAFT", !.totalAmount = total, !.balance = total]]
    BY <1>1 DEF CreateInvoice
  <2>2. [NoInvoice EXCEPT !.status = "DRAFT", !.totalAmount = total, !.balance = total]
           \in InvoiceRow
    <3>1. total \in Nat
      BY BoundsAssumption DEF InvoiceTotal
    <3>2. NoInvoice \in InvoiceRow
      BY BoundsAssumption
         DEF NoInvoice, InvoiceRow, InvoiceStatus, InvoiceTotal, NoEntry
    <3> QED
      BY <3>1, <3>2 DEF InvoiceRow, InvoiceStatus
  <2>3. invoice' \in [Invoice -> InvoiceRow]
    BY <2>1, <2>2, MarkOverdueKeeps
  <2>4. \A j \in Invoice \ {i} : Kept(invoice[j], invoice'[j])
    BY <2>1, MarkOverdueKeeps
  <2>5. control[i] = 0
    BY <1>1 DEF CreateInvoice, Invoices, InvoiceSound
  <2>6. /\ invoice'[i].journalEntryId = NoEntry
        /\ invoice'[i].status = "DRAFT"
    BY <2>1, MarkOverdueKeeps DEF NoInvoice
  <2>7. InvoiceSound(i)'
    BY <1>1, <2>5, <2>6 DEF CreateInvoice, InvoiceSound, AlreadyPosted, books
  <2>8. TodoSound'
    BY <1>1 DEF CreateInvoice, TodoSound, Nothing
  <2> QED
    BY <1>1, <2>3, <2>4, <2>7, <2>8, SoundOnInvoices DEF CreateInvoice
<1>2. CASE UpdateInvoice(i)
  <2>0. PICK total \in InvoiceTotal, pastDue \in BOOLEAN :
         invoice' = [invoice EXCEPT ![i].totalAmount = total, ![i].balance = total,
                                    ![i].pastDue = pastDue]
    BY <1>2 DEF UpdateInvoice
  <2>a. total \in Nat
    BY BoundsAssumption DEF InvoiceTotal
  <2> DEFINE row == [invoice[i] EXCEPT !.totalAmount = total, !.balance = total,
                                       !.pastDue = pastDue]
  <2>b. invoice' = [invoice EXCEPT ![i] = row]
    BY <2>0
  <2>c. invoice[i] \in InvoiceRow /\ invoice[i].status = "DRAFT"
    BY <1>2 DEF UpdateInvoice
  <2>d. /\ row \in InvoiceRow
        /\ row.status = "DRAFT"
        /\ row.journalEntryId = invoice[i].journalEntryId
    BY <2>a, <2>c DEF InvoiceRow
  <2> HIDE DEF row
  <2>1. /\ invoice' \in [Invoice -> InvoiceRow]
        /\ \A j \in Invoice \ {i} : invoice'[j] = invoice[j]
        /\ invoice'[i].status = "DRAFT"
        /\ invoice'[i].journalEntryId = invoice[i].journalEntryId
    <3>1. invoice \in [Invoice -> InvoiceRow]
      OBVIOUS
    <3>2. invoice' \in [Invoice -> InvoiceRow] /\ invoice'[i] = row
      BY <2>b, <2>d, <3>1
    <3> QED
      BY <2>b, <2>d, <3>1, <3>2
  <2>2. InvoiceSound(i)'
    BY <1>2, <2>1 DEF UpdateInvoice, InvoiceSound, AlreadyPosted, books
  <2>3. TodoSound'
    BY <1>2 DEF UpdateInvoice, TodoSound, Nothing
  <2> QED
    BY <1>0, <1>2, <2>1, <2>2, <2>3, SoundOnInvoices DEF UpdateInvoice
<1>3. CASE FallDue(i)
  <2>1. /\ invoice' \in [Invoice -> InvoiceRow]
        /\ \A j \in Invoice : Kept(invoice[j], invoice'[j])
        /\ \A j \in Invoice : invoice'[j].status = invoice[j].status
    BY <1>3 DEF FallDue, InvoiceRow, Kept
  <2>2. TodoSound'
    BY <1>3, <2>1 DEF FallDue, TodoSound, AlreadyPosted, Kept
  <2> QED
    BY <1>3, <2>1, <2>2, SoundOnInvoices DEF FallDue
<1>4. CASE SendInvoice(i)
  <2>1. /\ invoice' \in [Invoice -> InvoiceRow]
        /\ \A j \in Invoice : Kept(invoice[j], invoice'[j])
        /\ invoice'[i].status = "SENT"
    <3> DEFINE row == [invoice[i] EXCEPT !.status = "SENT"]
    <3>1. row \in InvoiceRow /\ row.status = "SENT" /\ Kept(invoice[i], row)
      BY DEF InvoiceRow, InvoiceStatus, Kept
    <3>2. invoice' = [invoice EXCEPT ![i] = row]
      BY <1>4 DEF SendInvoice
    <3> HIDE DEF row
    <3> QED
      BY <1>0, <3>1, <3>2
  <2>2. TodoSound'
    BY <1>4, <2>1 DEF SendInvoice, TodoSound, Step
  <2> QED
    BY <1>4, <2>1, <2>2, SoundOnInvoices DEF SendInvoice
<1> QED
  BY <1>1, <1>2, <1>3, <1>4

(* Recording and applying payments changes balances and the applications   *)
(* of one payment, and never an invoice that stays void.                   *)
LEMMA PaymentStepsSound ==
    ASSUME BooksSound, NEW p \in Payment,
           RecordPayment(p) \/ ApplyPayment(p) \/ ReplaceAllocations(p)
    PROVE  BooksSound'
<1> USE DEF BooksSound, RowsSound
<1> DEFINE NewRow == PaymentSound(payment'[p], p) /\ DOMAIN payment' = Payment
                     /\ \A q \in Payment \ {p} : payment'[q] = payment[q]
<1>1. CASE RecordPayment(p)
  <2> PICK amount \in Amount, allocations \in Allocations :
         /\ payment' = [payment EXCEPT ![p] =
               [NoPayment EXCEPT !.state = "LIVE", !.amount = amount,
                                 !.unappliedAmount = amount - Total(allocations)]]
         /\ applied' = [applied EXCEPT ![p] = allocations]
         /\ invoice' = [i \in Invoice |-> Apply(invoice[i], allocations[i])]
    BY <1>1 DEF RecordPayment
  <2>1. applied' \in [Payment -> [Invoice -> 0 .. MaxAmount]]
    BY DEF Allocations
  <2>2. \A i \in Invoice :
           /\ Kept(invoice[i], invoice'[i])
           /\ invoice'[i].status = "VOID" => allocations[i] = 0
    BY ApplyKeeps DEF Allocations
  <2>3. invoice' \in [Invoice -> InvoiceRow]
    BY <2>2 DEF Kept
  <2>4. \A i \in Invoice : invoice'[i].status = "VOID" =>
           \A q \in Payment : applied'[q][i] = 0
    BY <2>2 DEF Kept, InvoiceSound
  <2>5. NewRow
    BY BoundsAssumption DEF PaymentSound, NoPayment, AlreadyPosted, NoEntry, Amount
  <2>6. TodoSound'
    BY <1>1 DEF RecordPayment, TodoSound, Step
  <2> QED
    BY <1>1, <2>1, <2>2, <2>3, <2>4, <2>5, <2>6, SoundWithoutPosting DEF RecordPayment
<1>2. CASE ApplyPayment(p)
  <2> PICK allocations \in Allocations :
         /\ \A i \in Invoice : allocations[i] > 0 => applied[p][i] = 0
         /\ applied' = [applied EXCEPT ![p] = [i \in Invoice |-> @[i] + allocations[i]]]
         /\ payment' = [payment EXCEPT ![p].unappliedAmount =
               payment[p].amount - AppliedOf(p) - Total(allocations)]
         /\ invoice' = [i \in Invoice |-> Apply(invoice[i], allocations[i])]
    BY <1>2 DEF ApplyPayment
  <2>a. \A i \in Invoice : /\ allocations[i] \in 0 .. MaxAmount
                           /\ applied[p][i] \in 0 .. MaxAmount
                           /\ applied[p][i] + allocations[i] \in 0 .. MaxAmount
    BY BoundsAssumption DEF Allocations
  <2>1. applied' \in [Payment -> [Invoice -> 0 .. MaxAmount]]
    BY <2>a
  <2>2. \A i \in Invoice :
           /\ Kept(invoice[i], invoice'[i])
           /\ invoice'[i].status = "VOID" => allocations[i] = 0
    BY <2>a, ApplyKeeps
  <2>3. invoice' \in [Invoice -> InvoiceRow]
    BY <2>2 DEF Kept
  <2>4. \A i \in Invoice : invoice'[i].status = "VOID" =>
           \A q \in Payment : applied'[q][i] = 0
    <3> SUFFICES ASSUME NEW i \in Invoice, invoice'[i].status = "VOID", NEW q \in Payment
                 PROVE  applied'[q][i] = 0
      OBVIOUS
    <3>1. applied[q][i] = 0 /\ allocations[i] = 0
      BY <2>2 DEF Kept, InvoiceSound
    <3>2. CASE q = p
      BY <3>1, <3>2
    <3>3. CASE q # p
      BY <3>1, <3>3
    <3> QED
      BY <3>2, <3>3
  <2>5. NewRow
    BY DEF PaymentSound, AlreadyPosted
  <2>6. TodoSound'
    BY <1>2 DEF ApplyPayment, TodoSound, Nothing
  <2> QED
    BY <1>2, <2>1, <2>2, <2>3, <2>4, <2>5, <2>6, SoundWithoutPosting DEF ApplyPayment
<1>3. CASE ReplaceAllocations(p)
  <2> PICK allocations \in Allocations :
         /\ applied' = [applied EXCEPT ![p] = allocations]
         /\ payment' = [payment EXCEPT ![p].unappliedAmount =
               payment[p].amount - Total(allocations)]
         /\ invoice' = [i \in Invoice |->
               Apply(Restore(invoice[i], applied[p][i]), allocations[i])]
    BY <1>3 DEF ReplaceAllocations
  <2>1. applied' \in [Payment -> [Invoice -> 0 .. MaxAmount]]
    BY DEF Allocations
  <2>2. \A i \in Invoice :
           /\ Kept(invoice[i], invoice'[i])
           /\ invoice'[i].status = "VOID" => allocations[i] = 0
    <3> SUFFICES ASSUME NEW i \in Invoice
                 PROVE  /\ Kept(invoice[i], invoice'[i])
                        /\ invoice'[i].status = "VOID" => allocations[i] = 0
      OBVIOUS
    <3>1. allocations[i] \in 0 .. MaxAmount /\ applied[p][i] \in 0 .. MaxAmount
      BY DEF Allocations
    <3> DEFINE restored == Restore(invoice[i], applied[p][i])
    <3>2. Kept(invoice[i], restored)
      BY <3>1, RestoreKeeps
    <3>3. restored \in InvoiceRow
      BY <3>2 DEF Kept
    <3> HIDE DEF restored
    <3>4. /\ Kept(restored, Apply(restored, allocations[i]))
          /\ Apply(restored, allocations[i]).status = "VOID" => allocations[i] = 0
      BY <3>1, <3>3, ApplyKeeps
    <3>5. invoice'[i] = Apply(restored, allocations[i])
      BY DEF restored
    <3> QED
      BY <3>2, <3>4, <3>5 DEF Kept
  <2>3. invoice' \in [Invoice -> InvoiceRow]
    BY <2>2 DEF Kept
  <2>4. \A i \in Invoice : invoice'[i].status = "VOID" =>
           \A q \in Payment : applied'[q][i] = 0
    BY <2>2 DEF Kept, InvoiceSound
  <2>5. NewRow
    BY DEF PaymentSound, AlreadyPosted
  <2>6. TodoSound'
    BY <1>3 DEF ReplaceAllocations, TodoSound, Nothing
  <2> QED
    BY <1>3, <2>1, <2>2, <2>3, <2>4, <2>5, <2>6, SoundWithoutPosting
       DEF ReplaceAllocations
<1> QED
  BY <1>1, <1>2, <1>3

-----------------------------------------------------------------------------
(* Every row but those of the document in hand, after something was posted *)
(* for that document.                                                      *)
LEMMA SoundElsewhere ==
    ASSUME BooksSound, NEW d \in Document, JournalTypeOK',
           \A e \in DOMAIN journal :
              /\ e \in DOMAIN journal'
              /\ journal'[e].doc = journal[e].doc
              /\ journal[e].doc # d => journal'[e] = journal[e],
           \A x \in Document \ {d} : control'[x] = control[x],
           applied' \in [Payment -> [Invoice -> 0 .. MaxAmount]],
           invoice' \in [Invoice -> InvoiceRow],
           \A i \in Invoice : i # d => Kept(invoice[i], invoice'[i]),
           \A i \in Invoice : i # d => (invoice'[i].status = "VOID" =>
              \A p \in Payment : applied'[p][i] = 0),
           d \in Invoice => InvoiceSound(d)',
           DOMAIN payment' = Payment,
           \A p \in Payment : p # d => payment'[p] = payment[p],
           d \in Payment => PaymentSound(payment[d], d)',
           TodoSound'
    PROVE  BooksSound'
<1> USE DocumentsAssumption DEF BooksSound, RowsSound
<1>1. ASSUME NEW i \in Invoice, i # d PROVE InvoiceSound(i)'
  <2>1. /\ InvoiceSound(i)
        /\ Kept(invoice[i], invoice'[i])
        /\ control'[i] = control[i]
        /\ invoice'[i].status = "VOID" => \A p \in Payment : applied'[p][i] = 0
    BY <1>1
  <2>2. \A e \in DOMAIN journal : journal[e].doc = i =>
           e \in DOMAIN journal' /\ journal'[e] = journal[e]
    BY <1>1
  <2> QED
    BY <2>1, <2>2, KeptIsSound
<1>2. ASSUME NEW p \in Payment, p # d PROVE PaymentSound(payment[p], p)'
  <2>1. PaymentSound(payment[p], p) /\ payment'[p] = payment[p]
    BY <1>2
  <2> QED
    BY <2>1, PaymentKeptIsSound
<1>3. \A i \in Invoice : InvoiceSound(i)'
  BY <1>1
<1>4. \A p \in Payment : PaymentSound(payment[p], p)'
  BY <1>2
<1> QED
  BY <1>3, <1>4

(* postInvoiceToGL posts an invoice that is not linked, and links it.      *)
LEMMA PostInvoiceSound == BooksSound /\ PostInvoice => BooksSound'
<1> SUFFICES ASSUME BooksSound, PostInvoice PROVE BooksSound'
  OBVIOUS
<1> USE DocumentsAssumption DEF BooksSound, RowsSound
<1> PICK i \in Invoice : i = todo.doc
  BY DEF PostInvoice, TodoSound
<1>0. i \in Invoice /\ invoice[i].status \notin {"NONE", "DRAFT", "VOID"}
  BY DEF PostInvoice, TodoSound
<1>1. TodoSound'
  BY DEF PostInvoice, TodoSound, Nothing
<1>2. CASE AlreadyPosted(invoice[i])
  <2>1. UNCHANGED <<invoice, payment, applied, books>>
    BY <1>2 DEF PostInvoice
  <2>2. \A j \in Invoice : Kept(invoice[j], invoice'[j])
    BY <2>1 DEF Kept
  <2> QED
    BY <1>1, <2>1, <2>2, SoundOnInvoices
<1>3. CASE ~AlreadyPosted(invoice[i])
  <2>1. /\ CreatePosted(i, invoice[i].totalAmount)
        /\ invoice' = [invoice EXCEPT ![i].journalEntryId = NextEntry]
        /\ UNCHANGED <<payment, applied>>
    BY <1>3 DEF PostInvoice
  <2>2. i \in Document /\ invoice[i].totalAmount \in Int
    BY <1>0, BoundsAssumption DEF InvoiceRow, InvoiceTotal
  <2>3. /\ JournalTypeOK'
        /\ \A e \in DOMAIN journal : e \in DOMAIN journal' /\ journal'[e] = journal[e]
        /\ NextEntry \in DOMAIN journal' /\ NextEntry \in Nat \ {NoEntry}
        /\ journal'[NextEntry] = PostedEntry(i, invoice[i].totalAmount)
        /\ control'[i] = control[i] + invoice[i].totalAmount
        /\ \A x \in Document \ {i} : control'[x] = control[x]
    BY <2>1, <2>2, CreatePostedEffect
  <2>4. /\ invoice' \in [Invoice -> InvoiceRow]
        /\ \A j \in Invoice : j # i => invoice'[j] = invoice[j]
        /\ invoice'[i].journalEntryId = NextEntry
        /\ invoice'[i].totalAmount = invoice[i].totalAmount
        /\ invoice'[i].status = invoice[i].status
    <3> DEFINE row == [invoice[i] EXCEPT !.journalEntryId = NextEntry]
    <3>1. invoice[i] \in InvoiceRow /\ NextEntry \in Nat
      BY <2>3
    <3>2. /\ row \in InvoiceRow
          /\ row.journalEntryId = NextEntry
          /\ row.totalAmount = invoice[i].totalAmount
          /\ row.status = invoice[i].status
      BY <3>1 DEF InvoiceRow
    <3>3. invoice' = [invoice EXCEPT ![i] = row]
      BY <2>1
    <3> HIDE DEF row
    <3> QED
      BY <3>2, <3>3
  <2>5. control[i] = 0
    BY <1>0, <1>3 DEF InvoiceSound
  <2>6. InvoiceSound(i)'
    <3>1. control'[i] = invoice'[i].totalAmount
      BY <2>2, <2>3, <2>4, <2>5
    <3>2. /\ invoice'[i].journalEntryId \in DOMAIN journal'
          /\ journal'[invoice'[i].journalEntryId] = PostedEntry(i, invoice'[i].totalAmount)
          /\ invoice'[i].journalEntryId # NoEntry
      BY <2>3, <2>4
    <3>3. invoice'[i].status \notin {"NONE", "DRAFT", "VOID"}
      BY <1>0, <2>4
    <3> QED
      BY <3>1, <3>2, <3>3 DEF InvoiceSound, AlreadyPosted, PostedEntry
  <2>7. \A j \in Invoice : j # i =>
           /\ Kept(invoice[j], invoice'[j])
           /\ invoice'[j].status = "VOID" => \A p \in Payment : applied'[p][j] = 0
    BY <2>1, <2>4 DEF Kept, InvoiceSound
  <2>8. \A e \in DOMAIN journal :
           /\ e \in DOMAIN journal'
           /\ journal'[e].doc = journal[e].doc
           /\ journal[e].doc # i => journal'[e] = journal[e]
    BY <2>3
  <2>9. /\ i \in Document /\ i \notin Payment
        /\ applied' \in [Payment -> [Invoice -> 0 .. MaxAmount]]
        /\ DOMAIN payment' = Payment
        /\ \A p \in Payment : payment'[p] = payment[p]
    BY <1>0, <2>1
  <2> QED
    BY <1>1, <2>3, <2>4, <2>6, <2>7, <2>8, <2>9, SoundElsewhere
<1> QED
  BY <1>2, <1>3

(* reverseInvoiceGL takes the entry out and the link away.                 *)
LEMMA VoidInvoiceSound ==
    ASSUME BooksSound, NEW i \in Invoice, VoidInvoice(i)
    PROVE  BooksSound'
<1> USE DocumentsAssumption DEF BooksSound, RowsSound
<1> DEFINE e == invoice[i].journalEntryId
<1>1. /\ MarkOverdue(invoice) \in [Invoice -> InvoiceRow]
      /\ \A j \in Invoice : Kept(invoice[j], MarkOverdue(invoice)[j])
  BY MarkOverdueKeeps
<1>2. CASE e = NoEntry
  <2>1. invoice' = MarkOverdue(invoice) /\ UNCHANGED <<payment, applied, books>>
    BY <1>2 DEF VoidInvoice
  <2>2. TodoSound'
    BY <1>1, <1>2, <2>1 DEF VoidInvoice, TodoSound, Step, AlreadyPosted, Kept
  <2> QED
    BY <1>1, <2>1, <2>2, SoundOnInvoices
<1>3. CASE e # NoEntry
  <2>1. /\ PostMirror(e)
        /\ invoice' = [MarkOverdue(invoice) EXCEPT ![i].journalEntryId = NoEntry]
        /\ UNCHANGED <<payment, applied>>
    BY <1>3 DEF VoidInvoice
  <2>2. /\ e \in DOMAIN journal
        /\ journal[e] = PostedEntry(i, invoice[i].totalAmount)
        /\ control[i] = invoice[i].totalAmount
        /\ invoice[i].status # "VOID"
    BY <1>3 DEF InvoiceSound, AlreadyPosted
  <2>3. journal[e].doc = i /\ journal[e].amount = invoice[i].totalAmount
    BY <2>2 DEF PostedEntry
  <2> HIDE DEF e
  <2>4. /\ JournalTypeOK'
        /\ \A x \in DOMAIN journal :
              /\ x \in DOMAIN journal'
              /\ journal'[x].doc = journal[x].doc
              /\ x # e => journal'[x] = journal[x]
        /\ control'[i] = control[i] - invoice[i].totalAmount
        /\ \A x \in Document \ {i} : control'[x] = control[x]
    BY <2>1, <2>2, <2>3, PostMirrorEffect
  <2>5. /\ invoice' \in [Invoice -> InvoiceRow]
        /\ \A j \in Invoice : j # i => invoice'[j] = MarkOverdue(invoice)[j]
        /\ invoice'[i].journalEntryId = NoEntry
        /\ invoice'[i].status # "VOID"
    <3>1. MarkOverdue(invoice)[i] \in InvoiceRow
      BY <1>1
    <3>2. MarkOverdue(invoice)[i].status # "VOID"
      BY <1>1, <2>2 DEF Kept
    <3>3. /\ [MarkOverdue(invoice)[i] EXCEPT !.journalEntryId = NoEntry] \in InvoiceRow
          /\ [MarkOverdue(invoice)[i] EXCEPT !.journalEntryId = NoEntry].journalEntryId = NoEntry
          /\ [MarkOverdue(invoice)[i] EXCEPT !.journalEntryId = NoEntry].status # "VOID"
      BY <3>1, <3>2 DEF InvoiceRow, NoEntry
    <3> QED
      BY <1>1, <2>1, <3>3
  <2>6. control'[i] = 0
    BY <2>2, <2>4, BoundsAssumption DEF InvoiceRow, InvoiceTotal
  <2>7. InvoiceSound(i)'
    BY <2>5, <2>6 DEF InvoiceSound, AlreadyPosted
  <2>8. TodoSound'
    BY <2>5 DEF VoidInvoice, TodoSound, Step, AlreadyPosted
  <2>9. \A j \in Invoice : j # i =>
           /\ Kept(invoice[j], invoice'[j])
           /\ invoice'[j].status = "VOID" => \A p \in Payment : applied'[p][j] = 0
    BY <1>1, <2>1, <2>5 DEF Kept, InvoiceSound
  <2>10. \A x \in DOMAIN journal :
            /\ x \in DOMAIN journal'
            /\ journal'[x].doc = journal[x].doc
            /\ journal[x].doc # i => journal'[x] = journal[x]
    BY <2>3, <2>4
  <2>11. i \in Document /\ i \notin Payment
    OBVIOUS
  <2>12. /\ applied' \in [Payment -> [Invoice -> 0 .. MaxAmount]]
         /\ DOMAIN payment' = Payment
         /\ \A p \in Payment : payment'[p] = payment[p]
    BY <2>1
  <2> QED
    BY <2>4, <2>5, <2>7, <2>8, <2>9, <2>10, <2>11, <2>12, SoundElsewhere
<1> QED
  BY <1>2, <1>3

(* The second half of voidInvoice finds nothing of the invoice in the      *)
(* books.                                                                  *)
LEMMA FinishVoidInvoiceSound == BooksSound /\ FinishVoidInvoice => BooksSound'
<1> SUFFICES ASSUME BooksSound, FinishVoidInvoice PROVE BooksSound'
  OBVIOUS
<1> USE DocumentsAssumption DEF BooksSound, RowsSound
<1> PICK i \in Invoice : i = todo.doc
  BY DEF FinishVoidInvoice, TodoSound
<1>1. /\ invoice' = [invoice EXCEPT ![i] = Voided(@)]
      /\ payment' = [p \in Payment |->
            IF p \in Live
            THEN [payment[p] EXCEPT !.unappliedAmount = Released(p, i)]
            ELSE payment[p]]
      /\ applied' = [p \in Payment |-> [applied[p] EXCEPT ![i] = 0]]
      /\ UNCHANGED books
  BY DEF FinishVoidInvoice
<1>2. /\ Voided(invoice[i]) \in InvoiceRow
      /\ Voided(invoice[i]).journalEntryId = NoEntry
      /\ Voided(invoice[i]).balance = Voided(invoice[i]).totalAmount
  <2>1. invoice[i] \in InvoiceRow /\ invoice[i].totalAmount \in Nat
    BY BoundsAssumption DEF InvoiceRow, InvoiceTotal
  <2> HIDE DEF BooksSound, RowsSound
  <2> QED
    BY <2>1 DEF Voided, InvoiceRow, InvoiceStatus, NoEntry
<1>3. /\ invoice' \in [Invoice -> InvoiceRow]
      /\ \A j \in Invoice \ {i} : invoice'[j] = invoice[j]
      /\ invoice'[i] = Voided(invoice[i])
  BY <1>1, <1>2
<1>4. /\ applied' \in [Payment -> [Invoice -> 0 .. MaxAmount]]
      /\ \A p \in Payment : applied'[p][i] = 0
      /\ \A p \in Payment, j \in Invoice \ {i} : applied'[p][j] = applied[p][j]
  BY <1>1, BoundsAssumption
<1>5. DOMAIN payment' = Payment
  BY <1>1
<1>6. \A p \in Payment : PaymentSound(payment'[p], p)
  BY <1>1 DEF PaymentSound, AlreadyPosted
<1>7. control[i] = 0
  BY DEF FinishVoidInvoice, TodoSound, InvoiceSound
<1>8. InvoiceSound(i)'
  <2>1. control'[i] = 0
    BY <1>1, <1>7 DEF books
  <2>2. /\ invoice'[i].journalEntryId = NoEntry
        /\ invoice'[i].balance = invoice'[i].totalAmount
    BY <1>2, <1>3
  <2> QED
    BY <1>4, <2>1, <2>2 DEF InvoiceSound, AlreadyPosted
<1>9. \A j \in Invoice : Kept(invoice[j], invoice'[j]) \/ InvoiceSound(j)'
  BY <1>3, <1>8 DEF Kept
<1>10. \A j \in Invoice : invoice'[j].status = "VOID" =>
          \A p \in Payment : applied'[p][j] = 0
  BY <1>3, <1>4 DEF InvoiceSound
<1>11. TodoSound'
  BY DEF FinishVoidInvoice, TodoSound, Nothing
<1> QED
  BY <1>1, <1>3, <1>4, <1>5, <1>6, <1>9, <1>10, <1>11, SoundWithoutPosting

(* The entry of a payment is linked to the payment and disturbs no         *)
(* invoice.                                                                *)
LEMMA PostPaymentSound == BooksSound /\ PostPayment => BooksSound'
<1> SUFFICES ASSUME BooksSound, PostPayment PROVE BooksSound'
  OBVIOUS
<1> USE DocumentsAssumption DEF BooksSound, RowsSound
<1> PICK p \in Payment : p = todo.doc
  BY DEF PostPayment, TodoSound
<1>1. /\ CreatePosted(p, 0 - payment[p].amount)
      /\ payment' = [payment EXCEPT ![p].journalEntryId = NextEntry]
      /\ UNCHANGED <<invoice, applied>>
  BY DEF PostPayment
<1>2. p \in Document /\ p \notin Invoice /\ 0 - payment[p].amount \in Int
  BY DEF PaymentSound
<1>3. /\ JournalTypeOK'
      /\ \A e \in DOMAIN journal : e \in DOMAIN journal' /\ journal'[e] = journal[e]
      /\ NextEntry \in DOMAIN journal' /\ NextEntry \in Nat \ {NoEntry}
      /\ journal'[NextEntry] = PostedEntry(p, 0 - payment[p].amount)
      /\ \A x \in Document \ {p} : control'[x] = control[x]
  BY <1>1, <1>2, CreatePostedEffect
<1>4. PaymentSound(payment[p], p)'
  <2>1. /\ DOMAIN payment'[p] = DOMAIN payment[p]
        /\ payment'[p].amount = payment[p].amount
        /\ payment'[p].journalEntryId = NextEntry
    BY <1>1 DEF PaymentSound
  <2>2. journal'[payment'[p].journalEntryId].doc = p
    BY <1>3, <2>1 DEF PostedEntry
  <2> QED
    BY <1>3, <2>1, <2>2 DEF PaymentSound, AlreadyPosted
<1>5. /\ DOMAIN payment' = Payment
      /\ \A q \in Payment : q # p => payment'[q] = payment[q]
  BY <1>1
<1>6. /\ invoice' \in [Invoice -> InvoiceRow]
      /\ applied' \in [Payment -> [Invoice -> 0 .. MaxAmount]]
      /\ \A i \in Invoice : i # p => Kept(invoice[i], invoice'[i])
      /\ \A i \in Invoice : i # p => (invoice'[i].status = "VOID" =>
            \A q \in Payment : applied'[q][i] = 0)
  BY <1>1 DEF Kept, InvoiceSound
<1>7. TodoSound'
  BY DEF PostPayment, TodoSound, Nothing
<1>8. \A e \in DOMAIN journal :
         /\ e \in DOMAIN journal'
         /\ journal'[e].doc = journal[e].doc
         /\ journal[e].doc # p => journal'[e] = journal[e]
  BY <1>3
<1>9. JournalTypeOK' /\ \A x \in Document \ {p} : control'[x] = control[x]
  BY <1>3
<1>10. p \in Document /\ (p \in Invoice => InvoiceSound(p)')
  BY <1>2
<1>11. BooksSound
  OBVIOUS
<1> HIDE DEF BooksSound, RowsSound
<1> QED
  BY <1>4, <1>5, <1>6, <1>7, <1>8, <1>9, <1>10, <1>11, SoundElsewhere

(* The mirror image of a payment's entry disturbs no other document,       *)
(* however often it is posted.                                             *)
LEMMA PaymentMirrored ==
    ASSUME BooksSound, NEW p \in Payment, AlreadyPosted(payment[p]),
           PostMirror(payment[p].journalEntryId)
    PROVE  /\ JournalTypeOK'
           /\ \A e \in DOMAIN journal :
                 /\ e \in DOMAIN journal'
                 /\ journal'[e].doc = journal[e].doc
                 /\ journal[e].doc # p => journal'[e] = journal[e]
           /\ \A x \in Document \ {p} : control'[x] = control[x]
<1> DEFINE e == payment[p].journalEntryId
<1>1. e \in DOMAIN journal /\ journal[e].doc = p /\ JournalTypeOK /\ PostMirror(e)
  BY DEF BooksSound, RowsSound, PaymentSound
<1> HIDE DEF e
<1> QED
  BY <1>1, PostMirrorEffect

(* The first reversal of a payment ...                                     *)
LEMMA VoidPaymentSound ==
    ASSUME BooksSound, NEW p \in Payment, VoidPayment(p)
    PROVE  BooksSound'
<1> USE DocumentsAssumption DEF BooksSound, RowsSound
<1>1. /\ invoice' = [i \in Invoice |-> Restore(invoice[i], applied[p][i])]
      /\ applied' = [applied EXCEPT ![p] = NoAllocation]
      /\ payment' = [payment EXCEPT ![p].state = "DELETED"]
  BY DEF VoidPayment
<1>2. \A i \in Invoice : Kept(invoice[i], invoice'[i])
  BY <1>1, RestoreKeeps
<1>3. invoice' \in [Invoice -> InvoiceRow]
  BY <1>1, <1>2 DEF Kept
<1>4. applied' \in [Payment -> [Invoice -> 0 .. MaxAmount]]
  BY <1>1, BoundsAssumption DEF NoAllocation
<1>5. \A i \in Invoice : invoice'[i].status = "VOID" =>
         \A q \in Payment : applied'[q][i] = 0
  BY <1>1, <1>2 DEF Kept, InvoiceSound, NoAllocation
<1>6. /\ DOMAIN payment' = Payment
      /\ \A q \in Payment : q # p => payment'[q] = payment[q]
      /\ DOMAIN payment'[p] = DOMAIN payment[p]
      /\ payment'[p].amount = payment[p].amount
      /\ payment'[p].journalEntryId = payment[p].journalEntryId
  BY <1>1 DEF PaymentSound
<1>7. TodoSound'
  BY DEF VoidPayment, TodoSound, Step
<1>8. CASE ~AlreadyPosted(payment[p])
  <2>1. UNCHANGED books
    BY <1>8 DEF VoidPayment, AlreadyPosted
  <2>2. \A q \in Payment : PaymentSound(payment'[q], q) \/ payment'[q] = payment[q]
    BY <1>6 DEF PaymentSound, AlreadyPosted
  <2> QED
    BY <1>2, <1>3, <1>4, <1>5, <1>6, <1>7, <2>1, <2>2, SoundWithoutPosting
<1>9. CASE AlreadyPosted(payment[p])
  <2>1. PostMirror(payment[p].journalEntryId)
    BY <1>9 DEF VoidPayment, AlreadyPosted
  <2>2. /\ JournalTypeOK'
        /\ \A e \in DOMAIN journal :
              /\ e \in DOMAIN journal'
              /\ journal'[e].doc = journal[e].doc
              /\ journal[e].doc # p => journal'[e] = journal[e]
        /\ \A x \in Document \ {p} : control'[x] = control[x]
    BY <1>9, <2>1, PaymentMirrored
  <2>3. PaymentSound(payment[p], p)'
    BY <1>6, <2>2, PaymentKeptIsSound
  <2>4. p \in Document /\ p \notin Invoice
    OBVIOUS
  <2> QED
    BY <1>2, <1>3, <1>4, <1>5, <1>6, <1>7, <2>2, <2>3, <2>4, SoundElsewhere
<1> QED
  BY <1>8, <1>9

(* ... and the second, on the same entry, disturb no invoice.              *)
LEMMA ReversePaymentSound == BooksSound /\ ReversePayment => BooksSound'
<1> SUFFICES ASSUME BooksSound, ReversePayment PROVE BooksSound'
  OBVIOUS
<1> USE DocumentsAssumption DEF BooksSound, RowsSound
<1> PICK p \in Payment : p = todo.doc
  BY DEF ReversePayment, TodoSound
<1>1. UNCHANGED <<invoice, applied>> /\ TodoSound'
  BY DEF ReversePayment, TodoSound, Nothing
<1>2. /\ invoice' \in [Invoice -> InvoiceRow]
      /\ applied' \in [Payment -> [Invoice -> 0 .. MaxAmount]]
      /\ \A i \in Invoice :
            /\ Kept(invoice[i], invoice'[i])
            /\ invoice'[i].status = "VOID" => \A q \in Payment : applied'[q][i] = 0
  BY <1>1 DEF Kept, InvoiceSound
<1>3. CASE ~AlreadyPosted(payment[p])
  <2>1. UNCHANGED <<payment, books>>
    BY <1>3 DEF ReversePayment, AlreadyPosted
  <2> QED
    BY <1>1, <1>2, <2>1, SoundOnInvoices
<1>4. CASE AlreadyPosted(payment[p])
  <2>1. /\ PostMirror(payment[p].journalEntryId)
        /\ payment' = [payment EXCEPT ![p].journalEntryId = NoEntry]
    BY <1>4 DEF ReversePayment, AlreadyPosted
  <2>2. /\ JournalTypeOK'
        /\ \A e \in DOMAIN journal :
              /\ e \in DOMAIN journal'
              /\ journal'[e].doc = journal[e].doc
              /\ journal[e].doc # p => journal'[e] = journal[e]
        /\ \A x \in Document \ {p} : control'[x] = control[x]
    BY <1>4, <2>1, PaymentMirrored
  <2>3. /\ DOMAIN payment' = Payment
        /\ \A q \in Payment : q # p => payment'[q] = payment[q]
        /\ DOMAIN payment'[p] = DOMAIN payment[p]
        /\ payment'[p].amount = payment[p].amount
        /\ payment'[p].journalEntryId = NoEntry
    BY <2>1 DEF PaymentSound
  <2>4. PaymentSound(payment[p], p)'
    BY <2>2, <2>3, PaymentKeptIsSound
  <2>5. p \in Document /\ p \notin Invoice
    OBVIOUS
  <2> QED
    BY <1>1, <1>2, <2>2, <2>3, <2>4, <2>5, SoundElsewhere
<1> QED
  BY <1>3, <1>4

-----------------------------------------------------------------------------
(* Every step keeps invoices and books in agreement.                       *)
LEMMA BooksSoundStep == BooksSound /\ [Next]_vars => BooksSound'
<1> SUFFICES ASSUME BooksSound, [Next]_vars PROVE BooksSound'
  OBVIOUS
<1>1. CASE \E i \in Invoice : InvoiceStep(i)
  BY <1>1, InvoiceStepsSound, VoidInvoiceSound DEF InvoiceStep
<1>2. CASE \E p \in Payment : PaymentStep(p)
  BY <1>2, PaymentStepsSound, VoidPaymentSound DEF PaymentStep
<1>3. CASE FetchInvoice
  <2>1. /\ invoice' \in [Invoice -> InvoiceRow]
        /\ \A j \in Invoice : Kept(invoice[j], invoice'[j])
    BY <1>3, MarkOverdueKeeps DEF FetchInvoice, BooksSound, RowsSound
  <2>2. TodoSound'
    BY <1>3 DEF FetchInvoice, TodoSound, Nothing
  <2> QED
    BY <1>3, <2>1, <2>2, SoundOnInvoices DEF FetchInvoice
<1>4. CASE Fail
  <2>1. /\ UNCHANGED <<payment, applied, books>>
        /\ invoice' \in [Invoice -> InvoiceRow]
        /\ \A i \in Invoice : Kept(invoice[i], invoice'[i])
    BY <1>4 DEF Fail, BooksSound, RowsSound, Kept
  <2>2. TodoSound'
    BY <1>4 DEF Fail, TodoSound, Nothing
  <2> QED
    BY <2>1, <2>2, SoundOnInvoices
<1>5. CASE FinishVoidInvoice
  BY <1>5, FinishVoidInvoiceSound
<1>6. CASE PostInvoice
  BY <1>6, PostInvoiceSound
<1>7. CASE PostPayment
  BY <1>7, PostPaymentSound
<1>8. CASE ReversePayment
  BY <1>8, ReversePaymentSound
<1>9. CASE UNCHANGED vars
  <2>1. /\ UNCHANGED <<payment, applied, books>>
        /\ invoice' \in [Invoice -> InvoiceRow]
        /\ \A i \in Invoice : Kept(invoice[i], invoice'[i])
    BY <1>9 DEF vars, BooksSound, RowsSound, Kept
  <2>2. TodoSound'
    BY <1>9 DEF vars, BooksSound, TodoSound, AlreadyPosted
  <2> QED
    BY <2>1, <2>2, SoundOnInvoices
<1> QED
  BY <1>1, <1>2, <1>3, <1>4, <1>5, <1>6, <1>7, <1>8, <1>9 DEF Next

(* The inductive invariant: rows are well formed, every invoice agrees     *)
(* with the books, and the steps to come find what they rely on.           *)
THEOREM BooksAlwaysSound == Spec => []BooksSound
<1> QED
  BY BooksSoundInit, BooksSoundStep, PTL DEF Spec

(* The control account carries every invoice exactly once while it is      *)
(* linked to an entry in force, and not at all otherwise, however often    *)
(* sendInvoice and voidInvoice stop half-way and are called again.         *)
THEOREM InvoiceAlwaysInBooks == Spec => []InvoiceInBooks
<1>1. BooksSound => InvoiceInBooks
  <2> SUFFICES ASSUME BooksSound, NEW i \in Invoice
               PROVE  LET e == invoice[i].journalEntryId
                      IN  /\ control[i] = IF e = NoEntry THEN 0 ELSE invoice[i].totalAmount
                          /\ e # NoEntry => journal[e].postingStatus = "POSTED"
    BY DEF InvoiceInBooks
  <2>1. InvoiceSound(i)
    BY DEF BooksSound
  <2>2. CASE ~AlreadyPosted(invoice[i])
    BY <2>1, <2>2 DEF InvoiceSound, AlreadyPosted
  <2>3. CASE AlreadyPosted(invoice[i])
    <3>1. /\ journal[invoice[i].journalEntryId] = PostedEntry(i, invoice[i].totalAmount)
          /\ control[i] = invoice[i].totalAmount
      BY <2>1, <2>3 DEF InvoiceSound
    <3> QED
      BY <2>3, <3>1 DEF AlreadyPosted, PostedEntry
  <2> QED
    BY <2>2, <2>3
<1> QED
  BY <1>1, BooksAlwaysSound, PTL

(* A void invoice stands at its total, no payment is applied to it and it  *)
(* is not in the books (voidInvoice).                                      *)
THEOREM VoidAlwaysEmpty == Spec => []VoidIsEmpty
<1>1. BooksSound => VoidIsEmpty
  BY DEF BooksSound, InvoiceSound, VoidIsEmpty
<1> QED
  BY <1>1, BooksAlwaysSound, PTL

-----------------------------------------------------------------------------
Linked(i) == invoice[i].journalEntryId # NoEntry

(* Invoice i keeps its link, or its lack of one, and, linked, its total.   *)
LinkKept(i) ==
    /\ Linked(i)' = Linked(i)
    /\ Linked(i) => invoice'[i].totalAmount = invoice[i].totalAmount

(* A step makes or drops the link of one invoice at most.                  *)
OneLinkMoves ==
    \/ \A i \in Invoice : LinkKept(i)
    \/ \E i \in Invoice :
          /\ Linked(i)' = ~Linked(i)
          /\ \A j \in Invoice \ {i} : LinkKept(j)

(* An invoice that is kept keeps its link.                                 *)
LEMMA KeptLinks ==
    ASSUME NEW i \in Invoice, Kept(invoice[i], invoice'[i])
    PROVE  LinkKept(i)
  BY DEF Kept, LinkKept, Linked

(* Operations on payments leave the links of all invoices alone.           *)
LEMMA PaymentStepLinks ==
    ASSUME BooksSound, NEW p \in Payment, PaymentStep(p)
    PROVE  \A i \in Invoice : LinkKept(i)
<1>0. /\ invoice \in [Invoice -> InvoiceRow]
      /\ applied \in [Payment -> [Invoice -> 0 .. MaxAmount]]
  BY DEF BooksSound, RowsSound
<1>1. CASE RecordPayment(p) \/ ApplyPayment(p)
  <2>1. PICK allocations \in Allocations :
           invoice' = [i \in Invoice |-> Apply(invoice[i], allocations[i])]
    BY <1>1 DEF RecordPayment, ApplyPayment
  <2> QED
    BY <1>0, <2>1, ApplyKeeps, KeptLinks DEF Allocations
<1>2. CASE ReplaceAllocations(p)
  <2>1. PICK allocations \in Allocations :
           invoice' = [i \in Invoice |->
              Apply(Restore(invoice[i], applied[p][i]), allocations[i])]
    BY <1>2 DEF ReplaceAllocations
  <2> SUFFICES ASSUME NEW i \in Invoice PROVE LinkKept(i)
    OBVIOUS
  <2> DEFINE restored == Restore(invoice[i], applied[p][i])
  <2>2. Kept(invoice[i], restored)
    BY <1>0, RestoreKeeps
  <2>3. invoice'[i] = Apply(restored, allocations[i]) /\ allocations[i] \in 0 .. MaxAmount
    BY <2>1 DEF Allocations
  <2> HIDE DEF restored
  <2>4. Kept(restored, invoice'[i])
    BY <2>2, <2>3, ApplyKeeps DEF Kept
  <2> QED
    BY <2>2, <2>4 DEF Kept, LinkKept, Linked
<1>3. CASE VoidPayment(p)
  <2>1. invoice' = [i \in Invoice |-> Restore(invoice[i], applied[p][i])]
    BY <1>3 DEF VoidPayment
  <2> QED
    BY <1>0, <2>1, RestoreKeeps, KeptLinks
<1> QED
  BY <1>1, <1>2, <1>3 DEF PaymentStep

(* So do those on invoices, except for the first half of a void.           *)
LEMMA InvoiceStepLinks ==
    ASSUME BooksSound, NEW i \in Invoice, InvoiceStep(i)
    PROVE  OneLinkMoves
<1>0. /\ invoice \in [Invoice -> InvoiceRow]
      /\ \A j \in Invoice : InvoiceSound(j)
      /\ \A j \in Invoice : Kept(invoice[j], MarkOverdue(invoice)[j])
      /\ MarkOverdue(invoice) \in [Invoice -> InvoiceRow]
  BY MarkOverdueKeeps DEF BooksSound, RowsSound
<1>1. CASE CreateInvoice(i)
  <2>1. /\ \A j \in Invoice \ {i} : invoice'[j] = MarkOverdue(invoice)[j]
        /\ invoice'[i].journalEntryId = NoEntry
    BY <1>0, <1>1 DEF CreateInvoice, NoInvoice
  <2>2. ~Linked(i)
    BY <1>0, <1>1 DEF CreateInvoice, Invoices, InvoiceSound, AlreadyPosted, Linked
  <2> QED
    BY <1>0, <2>1, <2>2, KeptLinks DEF OneLinkMoves, LinkKept, Linked
<1>2. CASE UpdateInvoice(i)
  <2>1. /\ \A j \in Invoice \ {i} : invoice'[j] = invoice[j]
        /\ invoice'[i].journalEntryId = invoice[i].journalEntryId
    BY <1>0, <1>2 DEF UpdateInvoice, InvoiceRow
  <2>2. ~Linked(i)
    BY <1>0, <1>2 DEF UpdateInvoice, InvoiceSound, AlreadyPosted, Linked
  <2> QED
    BY <2>1, <2>2 DEF OneLinkMoves, LinkKept, Linked
<1>3. CASE FallDue(i) \/ SendInvoice(i)
  <2>1. \A j \in Invoice :
           /\ invoice'[j].journalEntryId = invoice[j].journalEntryId
           /\ invoice'[j].totalAmount = invoice[j].totalAmount
    <3>1. CASE FallDue(i)
      BY <1>0, <3>1 DEF FallDue, InvoiceRow
    <3>2. CASE SendInvoice(i)
      BY <1>0, <3>2 DEF SendInvoice, InvoiceRow
    <3> QED
      BY <1>3, <3>1, <3>2
  <2> QED
    BY <2>1 DEF OneLinkMoves, LinkKept, Linked
<1>4. CASE VoidInvoice(i)
  <2>1. CASE invoice' = MarkOverdue(invoice)
    BY <1>0, <2>1, KeptLinks DEF OneLinkMoves
  <2>2. CASE /\ invoice[i].journalEntryId # NoEntry
             /\ invoice' = [MarkOverdue(invoice) EXCEPT ![i].journalEntryId = NoEntry]
    <3>1. /\ \A j \in Invoice \ {i} : invoice'[j] = MarkOverdue(invoice)[j]
          /\ invoice'[i].journalEntryId = NoEntry
      BY <1>0, <2>2 DEF InvoiceRow
    <3> QED
      BY <1>0, <2>2, <3>1, KeptLinks DEF OneLinkMoves, Linked
  <2> QED
    BY <1>4, <2>1, <2>2 DEF VoidInvoice
<1> QED
  BY <1>1, <1>2, <1>3, <1>4 DEF InvoiceStep

(* Of all steps, only those of sending and voiding move a link.            *)
LEMMA StepLinks == BooksSound /\ [Next]_vars => OneLinkMoves
<1> SUFFICES ASSUME BooksSound, [Next]_vars PROVE OneLinkMoves
  OBVIOUS
<1>0. /\ invoice \in [Invoice -> InvoiceRow]
      /\ \A j \in Invoice : InvoiceSound(j)
      /\ TodoSound
  BY DEF BooksSound, RowsSound
<1>1. CASE \E i \in Invoice : InvoiceStep(i)
  BY <1>1, InvoiceStepLinks
<1>2. CASE \E p \in Payment : PaymentStep(p)
  BY <1>2, PaymentStepLinks DEF OneLinkMoves
<1>3. CASE FetchInvoice
  BY <1>0, <1>3, MarkOverdueKeeps, KeptLinks DEF FetchInvoice, OneLinkMoves
<1>4. CASE FinishVoidInvoice
  <2>1. PICK i \in Invoice : i = todo.doc /\ ~AlreadyPosted(invoice[i])
    BY <1>0, <1>4 DEF FinishVoidInvoice, TodoSound
  <2>2. /\ \A j \in Invoice \ {i} : invoice'[j] = invoice[j]
        /\ invoice'[i].journalEntryId = NoEntry
    BY <1>0, <1>4, <2>1 DEF FinishVoidInvoice, Voided, InvoiceRow
  <2> QED
    BY <2>1, <2>2 DEF OneLinkMoves, LinkKept, Linked, AlreadyPosted
<1>5. CASE PostInvoice
  <2>1. PICK i \in Invoice : i = todo.doc
    BY <1>0, <1>5 DEF PostInvoice, TodoSound
  <2>2. CASE invoice' = invoice
    BY <2>2 DEF OneLinkMoves, LinkKept, Linked
  <2>3. CASE /\ ~AlreadyPosted(invoice[i])
             /\ CreatePosted(i, invoice[i].totalAmount)
             /\ invoice' = [invoice EXCEPT ![i].journalEntryId = NextEntry]
    <3>1. NextEntry # NoEntry
      BY <1>0 DEF NextEntry, NoEntry, BooksSound, RowsSound, JournalTypeOK
    <3>2. /\ \A j \in Invoice \ {i} : invoice'[j] = invoice[j]
          /\ invoice'[i].journalEntryId = NextEntry
      BY <1>0, <2>3 DEF InvoiceRow
    <3> QED
      BY <2>3, <3>1, <3>2 DEF OneLinkMoves, LinkKept, Linked, AlreadyPosted
  <2> QED
    BY <1>5, <2>1, <2>2, <2>3 DEF PostInvoice
<1>6. CASE PostPayment \/ ReversePayment \/ Fail \/ UNCHANGED vars
  <2>1. invoice' = invoice
    BY <1>6 DEF PostPayment, ReversePayment, Fail, vars
  <2> QED
    BY <2>1 DEF OneLinkMoves, LinkKept, Linked
<1> QED
  BY <1>1, <1>2, <1>3, <1>4, <1>5, <1>6 DEF Next

CarriedByLink(i) ==
    /\ control[i] = IF Linked(i) THEN invoice[i].totalAmount ELSE 0
    /\ invoice[i].totalAmount \in InvoiceTotal

(* What the books carry of an invoice follows from its link.               *)
LEMMA LinkTells == BooksSound => \A i \in Invoice : CarriedByLink(i)
  BY DEF CarriedByLink, BooksSound, RowsSound, InvoiceRow, InvoiceSound, Linked, AlreadyPosted

(* Invoices keep the promise of DocumentBooks: sendInvoice and voidInvoice *)
(* may stop half-way and be called again, in any order, and yet the books  *)
(* take an invoice up once, at its total, and give it back as a whole      *)
(* before they take it up again.                                           *)
THEOREM InvoicesImplementBooks == Spec => InvoicesKeepBooks
<1> DEFINE stages == [i \in Invoice |->
                        IF invoice[i].journalEntryId = NoEntry THEN "out" ELSE "in"]
           amounts == [i \in Invoice |-> control[i]]
<1>1. Init => InvoiceBooks!BooksInit
  BY DocumentsAssumption DEF Init, NoInvoice, JournalInit, InvoiceBooks!BooksInit
<1>a. BooksSound' => (\A i \in Invoice : CarriedByLink(i))'
  BY LinkTells, PTL
<1>2. BooksSound /\ BooksSound' /\ [Next]_vars =>
         [InvoiceBooks!BooksNext]_(InvoiceBooks!BooksVars)
  <2> SUFFICES ASSUME BooksSound, BooksSound', [Next]_vars
               PROVE  [InvoiceBooks!BooksNext]_(InvoiceBooks!BooksVars)
    OBVIOUS
  <2>1. \A i \in Invoice :
           /\ amounts[i] = IF Linked(i) THEN invoice[i].totalAmount ELSE 0
           /\ amounts'[i] = IF Linked(i)' THEN invoice'[i].totalAmount ELSE 0
           /\ invoice'[i].totalAmount \in InvoiceTotal
    BY <1>a, LinkTells DEF CarriedByLink
  <2>2. \A i \in Invoice : LinkKept(i) => stages'[i] = stages[i] /\ amounts'[i] = amounts[i]
    BY <2>1 DEF LinkKept, Linked
  <2>3. CASE \A i \in Invoice : LinkKept(i)
    <3>1. stages' = stages /\ amounts' = amounts
      BY <2>2, <2>3
    <3> QED
      BY <3>1 DEF InvoiceBooks!BooksVars
  <2>4. ASSUME NEW i \in Invoice, Linked(i)' = ~Linked(i),
               \A j \in Invoice \ {i} : LinkKept(j)
        PROVE  InvoiceBooks!BooksNext
    <3>0. \A j \in Invoice \ {i} : stages'[j] = stages[j] /\ amounts'[j] = amounts[j]
      BY <2>2, <2>4
    <3>1. CASE Linked(i)
      <4>0. stages[i] = "in" /\ stages'[i] = "out" /\ amounts'[i] = 0
        BY <2>1, <2>4, <3>1 DEF Linked
      <4>1. /\ stages' = [stages EXCEPT ![i] = "out"]
            /\ amounts' = [amounts EXCEPT ![i] = 0]
        BY <3>0, <4>0
      <4>2. InvoiceBooks!Leave(i)
        BY <4>0, <4>1 DEF InvoiceBooks!Leave
      <4> QED
        BY <4>2 DEF InvoiceBooks!BooksNext
    <3>2. CASE ~Linked(i)
      <4>0. /\ stages[i] = "out" /\ stages'[i] = "in"
            /\ amounts'[i] = invoice'[i].totalAmount
        BY <2>1, <2>4, <3>2 DEF Linked
      <4>1. /\ stages' = [stages EXCEPT ![i] = "in"]
            /\ amounts' = [amounts EXCEPT ![i] = invoice'[i].totalAmount]
        BY <3>0, <4>0
      <4>2. InvoiceBooks!Enter(i)
        BY <2>1, <4>0, <4>1 DEF InvoiceBooks!Enter
      <4> QED
        BY <4>2 DEF InvoiceBooks!BooksNext
    <3> QED
      BY <3>1, <3>2
  <2> QED
    BY <2>3, <2>4, StepLinks DEF OneLinkMoves
<1> QED
  BY <1>1, <1>2, BooksAlwaysSound, PTL
     DEF Spec, InvoicesKeepBooks, InvoiceBooks!BooksSpec

-----------------------------------------------------------------------------
PaymentRow == [state : {"NONE", "LIVE", "DELETED"}, amount : 0 .. MaxAmount,
               unappliedAmount : 0 .. MaxAmount, journalEntryId : Nat]

(* A payment and what is applied of it: what is left is its amount less    *)
(* that, and of one that is not live nothing is applied.                   *)
RestSound(row, allocations) ==
    /\ row \in PaymentRow
    /\ row.state = "LIVE" => row.unappliedAmount = row.amount - Total(allocations)
    /\ row.state # "LIVE" => \A i \in Invoice : allocations[i] = 0

(* An invoice whose payments come to `sum' is not settled by more.         *)
Settled(inv, sum) ==
    /\ inv.totalAmount - inv.balance <= sum
    /\ inv.status = "PAID" => inv.totalAmount <= sum

Steps == {"nothing", "post invoice", "void invoice", "post payment", "reverse payment"}

PaymentsSound ==
    /\ payment \in [Payment -> PaymentRow]
    /\ \A p \in Payment : RestSound(payment[p], applied[p])
    /\ \A i \in Invoice : Settled(invoice[i], AppliedTo(i))
    /\ todo.step \in Steps

(* Lists of allocations add up to naturals, those of nothing to nothing.   *)
LEMMA TotalType ==
    ASSUME NEW allocations \in Allocations
    PROVE  /\ Total(allocations) \in Nat
           /\ \A i \in Invoice : allocations[i] <= Total(allocations)
           /\ (\A i \in Invoice : allocations[i] = 0) => Total(allocations) = 0
<1>1. \A i \in Invoice : allocations[i] \in Nat
  BY BoundsAssumption DEF Allocations
<1> QED
  BY <1>1, FiniteDocuments, SumIsNatural, SumBounds DEF Total, Sum

(* What is applied to an invoice, after one payment is applied anew.       *)
LEMMA AppliedToChanges ==
    ASSUME NEW p \in Payment, NEW allocations \in Allocations,
           applied \in [Payment -> [Invoice -> 0 .. MaxAmount]],
           applied' = [applied EXCEPT ![p] = allocations],
           NEW i \in Invoice
    PROVE  /\ AppliedTo(i) \in Nat
           /\ applied[p][i] <= AppliedTo(i)
           /\ AppliedTo(i)' = AppliedTo(i) - applied[p][i] + allocations[i]
<1> DEFINE f == [q \in Payment |-> applied[q][i]]
           g == [q \in Payment |-> applied'[q][i]]
<1>a. /\ \A q \in Payment \ {p} : applied'[q] = applied[q]
      /\ applied'[p] = allocations
  OBVIOUS
<1>b. \A q \in Payment : f[q] \in 0 .. MaxAmount
  OBVIOUS
<1>2. /\ \A q \in Payment \ {p} : g[q] = f[q]
      /\ f[p] = applied[p][i] /\ g[p] = allocations[i]
  BY <1>a
<1>1. \A q \in Payment : f[q] \in Nat /\ g[q] \in Nat
  <2>1. allocations[i] \in Nat
    BY BoundsAssumption DEF Allocations
  <2>2. \A q \in Payment : f[q] \in Nat
    BY <1>b, BoundsAssumption
  <2> HIDE DEF f, g
  <2> QED
    BY <1>2, <2>1, <2>2
<1>3. AppliedTo(i) = Sum(f, Payment) /\ AppliedTo(i)' = Sum(g, Payment)
  BY DEF AppliedTo, Sum, FoldFunctionOnSet, MapThenFoldSet
<1> HIDE DEF f, g
<1>4. Sum(f, Payment) \in Nat /\ f[p] <= Sum(f, Payment)
  BY <1>1, FiniteDocuments, SumIsNatural, SumBounds
<1>5. \A q \in Payment : f[q] \in Int /\ g[q] \in Int
  BY <1>1
<1>6. Sum(g, Payment) = Sum(f, Payment) - f[p] + g[p]
  <2>1. PICK F, G : F = f /\ G = g
    OBVIOUS
  <2>2. /\ \A q \in Payment : F[q] \in Int /\ G[q] \in Int
        /\ \A q \in Payment \ {p} : G[q] = F[q]
    BY <1>2, <1>5, <2>1
  <2>3. Sum(G, Payment) = Sum(F, Payment) - F[p] + G[p]
    BY <2>2, FiniteDocuments, SumChanges
  <2> QED
    BY <2>1, <2>3
<1> QED
  BY <1>2, <1>3, <1>4, <1>6

(* What is applied to an invoice stays while the applications do.          *)
LEMMA AppliedToStays ==
    ASSUME applied \in [Payment -> [Invoice -> 0 .. MaxAmount]],
           NEW i \in Invoice
    PROVE  /\ AppliedTo(i) \in Nat
           /\ \A p \in Payment : applied[p][i] <= AppliedTo(i)
           /\ applied' = applied => AppliedTo(i)' = AppliedTo(i)
<1> DEFINE f == [q \in Payment |-> applied[q][i]]
<1>1. AppliedTo(i) = Sum(f, Payment)
  BY DEF AppliedTo, Sum
<1>2. \A q \in Payment : f[q] \in Nat /\ f[q] = applied[q][i]
  <2>1. \A q \in Payment : f[q] \in 0 .. MaxAmount
    OBVIOUS
  <2> QED
    BY <2>1, BoundsAssumption
<1> HIDE DEF f
<1>3. Sum(f, Payment) \in Nat /\ \A q \in Payment : f[q] <= Sum(f, Payment)
  BY <1>2, FiniteDocuments, SumIsNatural, SumBounds
<1>4. applied' = applied => AppliedTo(i)' = AppliedTo(i)
  BY DEF AppliedTo, FoldFunctionOnSet, MapThenFoldSet
<1> QED
  BY <1>1, <1>2, <1>3, <1>4

(* An amount that is applied settles no more than itself ...               *)
LEMMA ApplySettles ==
    ASSUME NEW inv \in InvoiceRow, NEW amount \in 0 .. MaxAmount, NEW sum \in Nat,
           Settled(inv, sum)
    PROVE  Settled(Apply(inv, amount), sum + amount)
<1>0. inv.totalAmount \in Nat /\ inv.balance \in Nat /\ amount \in Nat
  BY BoundsAssumption DEF InvoiceRow, InvoiceTotal
<1>1. CASE amount = 0
  BY <1>0, <1>1 DEF Apply, Settled
<1>2. CASE amount # 0
  <2> DEFINE rest == IF amount < inv.balance THEN inv.balance - amount ELSE 0
  <2>1. rest \in Nat /\ inv.totalAmount - rest <= sum + amount
    BY <1>0 DEF Settled
  <2>2. Apply(inv, amount) = WithBalance(inv, rest)
    BY <1>2 DEF Apply
  <2> HIDE DEF rest
  <2>3. /\ WithBalance(inv, rest).totalAmount = inv.totalAmount
        /\ WithBalance(inv, rest).balance = rest
        /\ WithBalance(inv, rest).status = DeriveStatus(inv, rest)
    BY DEF WithBalance, InvoiceRow
  <2>4. DeriveStatus(inv, rest) = "PAID" => rest <= 0
    BY DEF DeriveStatus
  <2> QED
    BY <1>0, <2>1, <2>2, <2>3, <2>4 DEF Settled
<1> QED
  BY <1>1, <1>2

(* ... and one that is given back leaves no less settled than the others   *)
(* settle.                                                                 *)
LEMMA RestoreSettles ==
    ASSUME NEW inv \in InvoiceRow, NEW amount \in 0 .. MaxAmount, NEW sum \in Nat,
           Settled(inv, sum), inv.status = "VOID" => amount = 0
    PROVE  Settled(Restore(inv, amount), sum - amount)
<1>0. inv.totalAmount \in Nat /\ inv.balance \in Nat /\ amount \in Nat
  BY BoundsAssumption DEF InvoiceRow, InvoiceTotal
<1>1. CASE amount = 0
  BY <1>0, <1>1 DEF Restore, Settled
<1>2. CASE amount # 0
  <2> DEFINE rest == inv.balance + amount
  <2>1. rest \in Nat /\ rest > 0 /\ inv.totalAmount - rest <= sum - amount
    BY <1>0, <1>2 DEF Settled
  <2>2. Restore(inv, amount) = WithBalance(inv, rest)
    BY <1>2 DEF Restore
  <2> HIDE DEF rest
  <2>3. /\ WithBalance(inv, rest).totalAmount = inv.totalAmount
        /\ WithBalance(inv, rest).balance = rest
        /\ WithBalance(inv, rest).status = DeriveStatus(inv, rest)
    BY DEF WithBalance, InvoiceRow
  <2>4. DeriveStatus(inv, rest) # "PAID"
    BY <2>1 DEF DeriveStatus
  <2> QED
    BY <2>1, <2>2, <2>3, <2>4 DEF Settled
<1> QED
  BY <1>1, <1>2

(* One payment changes, and the invoices by what is applied of it.         *)
LEMMA OnePaymentSound ==
    ASSUME BooksSound, BooksSound', PaymentsSound,
           NEW p \in Payment, NEW row, NEW allocations \in Allocations,
           payment' = [payment EXCEPT ![p] = row],
           applied' = [applied EXCEPT ![p] = allocations],
           RestSound(row, allocations),
           \A i \in Invoice : AppliedTo(i) \in Nat =>
              Settled(invoice'[i], AppliedTo(i) - applied[p][i] + allocations[i]),
           todo'.step \in {"nothing", "post payment", "reverse payment"}
    PROVE  PaymentsSound'
<1>0. applied \in [Payment -> [Invoice -> 0 .. MaxAmount]]
  BY DEF BooksSound, RowsSound
<1>1. payment' \in [Payment -> PaymentRow]
  BY DEF PaymentsSound, RestSound
<1>2. ASSUME NEW q \in Payment PROVE RestSound(payment'[q], applied'[q])
  <2>1. /\ payment'[q] = IF q = p THEN row ELSE payment[q]
        /\ applied'[q] = IF q = p THEN allocations ELSE applied[q]
    BY <1>0 DEF PaymentsSound
  <2> QED
    BY <2>1 DEF PaymentsSound
<1>3. ASSUME NEW i \in Invoice PROVE Settled(invoice'[i], AppliedTo(i)')
  BY <1>0, AppliedToChanges
<1>4. /\ \A q \in Payment : RestSound(payment[q], applied[q])'
      /\ \A i \in Invoice : Settled(invoice[i], AppliedTo(i))'
  BY <1>2, <1>3 DEF RestSound, Settled, Total, FoldFunctionOnSet, MapThenFoldSet
<1>5. todo'.step \in Steps
  BY DEF Steps
<1> QED
  BY <1>1, <1>4, <1>5 DEF PaymentsSound

(* What a step has to show when it applies nothing and takes nothing back: *)
(* payments keep their amounts, and an invoice its total and balance or    *)
(* the two are equal.                                                      *)
LEMMA NothingApplied ==
    ASSUME BooksSound, PaymentsSound, applied' = applied,
           payment' \in [Payment -> PaymentRow],
           \A p \in Payment : /\ payment'[p].state = payment[p].state
                              /\ payment'[p].amount = payment[p].amount
                              /\ payment'[p].unappliedAmount = payment[p].unappliedAmount,
           invoice' \in [Invoice -> InvoiceRow],
           \A i \in Invoice :
              \/ /\ invoice'[i].totalAmount = invoice'[i].balance
                 /\ invoice'[i].status # "PAID"
              \/ /\ invoice'[i].totalAmount = invoice[i].totalAmount
                 /\ invoice'[i].balance = invoice[i].balance
                 /\ invoice'[i].status = "PAID" => invoice[i].status = "PAID",
           todo'.step \in Steps
    PROVE  PaymentsSound'
<1>0. applied \in [Payment -> [Invoice -> 0 .. MaxAmount]]
  BY DEF BooksSound, RowsSound
<1>1. ASSUME NEW p \in Payment PROVE RestSound(payment'[p], applied'[p])
  <2>1. RestSound(payment[p], applied[p]) /\ applied'[p] = applied[p]
    BY DEF PaymentsSound
  <2>2. payment'[p] \in PaymentRow
    OBVIOUS
  <2> QED
    BY <2>1, <2>2 DEF RestSound
<1>2. ASSUME NEW i \in Invoice PROVE Settled(invoice'[i], AppliedTo(i)')
  <2>1. AppliedTo(i)' = AppliedTo(i) /\ AppliedTo(i) \in Nat
    BY <1>0, AppliedToStays
  <2>2. invoice'[i].totalAmount \in Nat /\ invoice'[i].balance \in Nat
    BY BoundsAssumption DEF InvoiceRow, InvoiceTotal
  <2>3. Settled(invoice[i], AppliedTo(i))
    BY DEF PaymentsSound
  <2>4. CASE /\ invoice'[i].totalAmount = invoice'[i].balance
             /\ invoice'[i].status # "PAID"
    BY <2>1, <2>2, <2>4 DEF Settled
  <2>5. CASE /\ invoice'[i].totalAmount = invoice[i].totalAmount
             /\ invoice'[i].balance = invoice[i].balance
             /\ invoice'[i].status = "PAID" => invoice[i].status = "PAID"
    BY <2>1, <2>3, <2>5 DEF Settled
  <2> QED
    BY <2>4, <2>5
<1>3. /\ \A p \in Payment : RestSound(payment[p], applied[p])'
      /\ \A i \in Invoice : Settled(invoice[i], AppliedTo(i))'
  BY <1>1, <1>2 DEF RestSound, Settled, Total, FoldFunctionOnSet, MapThenFoldSet
<1> QED
  BY <1>3 DEF PaymentsSound

(* Operations on invoices, the postings and their reversals apply nothing  *)
(* and take nothing back, nor does marking invoices overdue.               *)
LEMMA InvoicesStaySettled ==
    ASSUME BooksSound, BooksSound', PaymentsSound, NEW i,
           \/ i \in Invoice /\ InvoiceStep(i)
           \/ FetchInvoice
           \/ PostInvoice
           \/ Fail
           \/ UNCHANGED vars
    PROVE  PaymentsSound'
<1>1. /\ invoice \in [Invoice -> InvoiceRow]
      /\ invoice' \in [Invoice -> InvoiceRow]
  BY DEF BooksSound, RowsSound
<1>2. /\ payment \in [Payment -> PaymentRow]
      /\ todo.step \in Steps
  BY DEF PaymentsSound
<1> DEFINE Draft(j) == /\ invoice'[j].totalAmount = invoice'[j].balance
                       /\ invoice'[j].status # "PAID"
           Same(j) == /\ invoice'[j].totalAmount = invoice[j].totalAmount
                      /\ invoice'[j].balance = invoice[j].balance
                      /\ invoice'[j].status = "PAID" => invoice[j].status = "PAID"
<1>3. SUFFICES /\ \A j \in Invoice : Draft(j) \/ Same(j)
               /\ UNCHANGED <<payment, applied>>
               /\ todo'.step \in Steps
  BY <1>1, <1>2, NothingApplied
<1>4. \A j \in Invoice :
         /\ MarkOverdue(invoice)[j].totalAmount = invoice[j].totalAmount
         /\ MarkOverdue(invoice)[j].balance = invoice[j].balance
         /\ MarkOverdue(invoice)[j].status = "PAID" => invoice[j].status = "PAID"
  BY <1>1 DEF MarkOverdue, InvoiceRow
<1>5. /\ UNCHANGED <<payment, applied>>
      /\ todo'.step \in Steps
  <2>1. UNCHANGED <<payment, applied>>
    BY DEF InvoiceStep, CreateInvoice, UpdateInvoice, FallDue, SendInvoice, VoidInvoice,
           FetchInvoice, PostInvoice, Fail, vars
  <2>2. \/ todo' \in {todo, Nothing}
        \/ todo' = Step("post invoice", i)
        \/ todo' = Step("void invoice", i)
    BY DEF InvoiceStep, CreateInvoice, UpdateInvoice, FallDue, SendInvoice, VoidInvoice,
           FetchInvoice, PostInvoice, Fail, vars
  <2>3. /\ Nothing.step \in Steps
        /\ Step("post invoice", i).step \in Steps
        /\ Step("void invoice", i).step \in Steps
    BY DEF Step, Nothing, Steps
  <2>4. todo'.step \in Steps
    BY <1>2, <2>2, <2>3
  <2> QED
    BY <2>1, <2>4
<1>6. CASE i \in Invoice /\ CreateInvoice(i)
  <2>1. PICK total \in InvoiceTotal :
           invoice' = [MarkOverdue(invoice) EXCEPT ![i] =
              [NoInvoice EXCEPT !.status = "DRAFT", !.totalAmount = total, !.balance = total]]
    BY <1>6 DEF CreateInvoice
  <2>2. \A j \in Invoice \ {i} : invoice'[j] = MarkOverdue(invoice)[j]
    BY <2>1 DEF MarkOverdue
  <2>3. Draft(i)
    <3>1. /\ i \in DOMAIN MarkOverdue(invoice)
          /\ invoice'[i] = [NoInvoice EXCEPT !.status = "DRAFT", !.totalAmount = total,
                                             !.balance = total]
      BY <1>6, <2>1 DEF MarkOverdue
    <3> QED
      BY <3>1 DEF NoInvoice
  <2> QED
    BY <1>4, <1>5, <2>2, <2>3
<1>7. CASE i \in Invoice /\ UpdateInvoice(i)
  <2>1. PICK total \in InvoiceTotal, pastDue \in BOOLEAN :
           invoice' = [invoice EXCEPT ![i].totalAmount = total, ![i].balance = total,
                                      ![i].pastDue = pastDue]
    BY <1>7 DEF UpdateInvoice
  <2>2. \A j \in Invoice \ {i} : Same(j)
    BY <1>1, <2>1
  <2>3. Draft(i)
    BY <1>1, <1>7, <2>1 DEF UpdateInvoice, InvoiceRow
  <2> QED
    BY <1>5, <2>2, <2>3
<1>8. CASE i \in Invoice /\ FallDue(i)
  BY <1>1, <1>5, <1>8 DEF FallDue, InvoiceRow
<1>9. CASE i \in Invoice /\ SendInvoice(i)
  BY <1>1, <1>5, <1>9 DEF SendInvoice, InvoiceRow
<1>10. CASE i \in Invoice /\ VoidInvoice(i)
  <2>1. \A j \in Invoice :
           /\ invoice'[j].totalAmount = MarkOverdue(invoice)[j].totalAmount
           /\ invoice'[j].balance = MarkOverdue(invoice)[j].balance
           /\ invoice'[j].status = MarkOverdue(invoice)[j].status
    <3>1. MarkOverdue(invoice) \in [Invoice -> InvoiceRow]
      BY <1>1, MarkOverdueKeeps
    <3>2. CASE invoice' = MarkOverdue(invoice)
      BY <3>2
    <3>3. CASE invoice' = [MarkOverdue(invoice) EXCEPT ![i].journalEntryId = NoEntry]
      BY <3>1, <3>3 DEF InvoiceRow
    <3> QED
      BY <1>10, <3>2, <3>3 DEF VoidInvoice
  <2> QED
    BY <1>4, <1>5, <2>1
<1>11. CASE FetchInvoice
  BY <1>4, <1>5, <1>11 DEF FetchInvoice
<1>12. CASE PostInvoice
  <2>1. \/ invoice' = invoice
        \/ invoice' = [invoice EXCEPT ![todo.doc].journalEntryId = NextEntry]
    BY <1>12 DEF PostInvoice
  <2> QED
    BY <1>1, <1>5, <2>1 DEF InvoiceRow
<1>13. CASE Fail \/ UNCHANGED vars
  BY <1>5, <1>13 DEF Fail, vars
<1> QED
  BY <1>6, <1>7, <1>8, <1>9, <1>10, <1>11, <1>12, <1>13 DEF InvoiceStep

(* Posting a payment and reversing its entry change its link to the entry. *)
LEMMA PostingsStaySettled ==
    ASSUME BooksSound, BooksSound', PaymentsSound, PostPayment \/ ReversePayment
    PROVE  PaymentsSound'
<1>1. /\ invoice' \in [Invoice -> InvoiceRow]
      /\ journal \in Seq(EntryRow)
      /\ \A p \in Payment : payment[p].journalEntryId \in Nat
  BY DEF BooksSound, RowsSound, JournalTypeOK, EntryRow, PaymentSound
<1>2. payment \in [Payment -> PaymentRow]
  BY DEF PaymentsSound
<1>3. NextEntry \in Nat
  BY <1>1 DEF NextEntry
<1>4. /\ UNCHANGED <<invoice, applied>>
      /\ todo'.step \in Steps
  <2>1. todo' = Nothing /\ UNCHANGED <<invoice, applied>>
    BY DEF PostPayment, ReversePayment
  <2> QED
    BY <2>1 DEF Nothing, Steps
<1>5. \/ payment' = payment
      \/ \E e \in Nat : payment' = [payment EXCEPT ![todo.doc].journalEntryId = e]
  <2>1. NoEntry \in Nat
    BY DEF NoEntry
  <2>2. CASE PostPayment
    BY <1>3, <2>2 DEF PostPayment
  <2>3. CASE ReversePayment
    BY <2>1, <2>3 DEF ReversePayment
  <2> QED
    BY <2>2, <2>3
<1>6. /\ payment' \in [Payment -> PaymentRow]
      /\ \A p \in Payment : /\ payment'[p].state = payment[p].state
                            /\ payment'[p].amount = payment[p].amount
                            /\ payment'[p].unappliedAmount = payment[p].unappliedAmount
  <2>1. CASE payment' = payment
    BY <1>2, <2>1
  <2>2. ASSUME NEW e \in Nat, payment' = [payment EXCEPT ![todo.doc].journalEntryId = e]
        PROVE  /\ payment' \in [Payment -> PaymentRow]
               /\ \A p \in Payment :
                     /\ payment'[p].state = payment[p].state
                     /\ payment'[p].amount = payment[p].amount
                     /\ payment'[p].unappliedAmount = payment[p].unappliedAmount
    <3>1. \A p \in Payment :
             payment'[p] = IF p = todo.doc THEN [payment[p] EXCEPT !.journalEntryId = e]
                                           ELSE payment[p]
      BY <1>2, <2>2
    <3>2. \A p \in Payment :
             LET row == [payment[p] EXCEPT !.journalEntryId = e] IN
                /\ row \in PaymentRow
                /\ row.state = payment[p].state
                /\ row.amount = payment[p].amount
                /\ row.unappliedAmount = payment[p].unappliedAmount
      BY <1>2 DEF PaymentRow
    <3>3. DOMAIN payment' = Payment
      BY <1>2, <2>2
    <3>4. payment' = [p \in Payment |-> payment'[p]]
      BY <1>2, <2>2
    <3> QED
      BY <1>2, <3>1, <3>2, <3>4
  <2> QED
    BY <1>5, <2>1, <2>2
<1> QED
  BY <1>1, <1>4, <1>6, NothingApplied

(* What a new list of allocations of one payment does to an invoice.       *)
LEMMA SettledAnew ==
    ASSUME BooksSound, PaymentsSound, NEW p \in Payment, NEW allocations \in Allocations,
           NEW i \in Invoice
    PROVE  /\ Settled(Apply(invoice[i], allocations[i]), AppliedTo(i) + allocations[i])
           /\ Settled(Restore(invoice[i], applied[p][i]), AppliedTo(i) - applied[p][i])
           /\ Settled(Apply(Restore(invoice[i], applied[p][i]), allocations[i]),
                      AppliedTo(i) - applied[p][i] + allocations[i])
           /\ AppliedTo(i) \in Nat /\ applied[p][i] \in Nat /\ allocations[i] \in Nat
<1>1. /\ applied \in [Payment -> [Invoice -> 0 .. MaxAmount]]
      /\ invoice[i] \in InvoiceRow
      /\ invoice[i].status = "VOID" => applied[p][i] = 0
  BY DEF BooksSound, RowsSound, InvoiceSound
<1>2. applied[p][i] \in 0 .. MaxAmount /\ allocations[i] \in 0 .. MaxAmount
  BY <1>1 DEF Allocations
<1>3. applied[p][i] \in Nat /\ allocations[i] \in Nat
  BY <1>2, BoundsAssumption
<1>4. AppliedTo(i) \in Nat /\ applied[p][i] <= AppliedTo(i)
  BY <1>1, AppliedToStays
<1>5. AppliedTo(i) - applied[p][i] \in Nat
  BY <1>3, <1>4
<1>6. Settled(invoice[i], AppliedTo(i))
  BY DEF PaymentsSound
<1>7. Settled(Apply(invoice[i], allocations[i]), AppliedTo(i) + allocations[i])
  BY <1>1, <1>2, <1>4, <1>6, ApplySettles
<1>8. /\ Settled(Restore(invoice[i], applied[p][i]), AppliedTo(i) - applied[p][i])
      /\ Restore(invoice[i], applied[p][i]) \in InvoiceRow
  BY <1>1, <1>2, <1>4, <1>6, RestoreSettles, RestoreKeeps DEF Kept
<1>9. Settled(Apply(Restore(invoice[i], applied[p][i]), allocations[i]),
              AppliedTo(i) - applied[p][i] + allocations[i])
  BY <1>2, <1>5, <1>8, ApplySettles
<1> QED
  BY <1>3, <1>4, <1>7, <1>8, <1>9

(* recordPayment.                                                          *)
LEMMA RecordPaymentStaysSettled ==
    ASSUME BooksSound, BooksSound', PaymentsSound, NEW p \in Payment, RecordPayment(p)
    PROVE  PaymentsSound'
<1>1. PICK amount \in Amount, allocations \in Allocations :
         /\ Allocatable(allocations, amount, NoAllocation)
         /\ payment' = [payment EXCEPT ![p] =
               [NoPayment EXCEPT !.state = "LIVE", !.amount = amount,
                                 !.unappliedAmount = amount - Total(allocations)]]
         /\ applied' = [applied EXCEPT ![p] = allocations]
         /\ invoice' = [i \in Invoice |-> Apply(invoice[i], allocations[i])]
  BY DEF RecordPayment
<1> DEFINE row == [NoPayment EXCEPT !.state = "LIVE", !.amount = amount,
                                    !.unappliedAmount = amount - Total(allocations)]
<1>2. \A i \in Invoice : applied[p][i] = 0
  BY DEF RecordPayment, Recorded, PaymentsSound, RestSound
<1>3. RestSound(row, allocations)
  <2>1. /\ Total(allocations) \in Nat /\ Total(allocations) <= amount
        /\ amount \in 1 .. MaxAmount
    BY <1>1, TotalType DEF Allocatable, Amount
  <2>2. amount \in 0 .. MaxAmount /\ amount - Total(allocations) \in 0 .. MaxAmount
    BY <2>1, BoundsAssumption
  <2> HIDE DEF BooksSound
  <2> QED
    BY <2>2 DEF RestSound, PaymentRow, NoPayment, NoEntry
<1>4. ASSUME NEW i \in Invoice
      PROVE  Settled(invoice'[i], AppliedTo(i) - applied[p][i] + allocations[i])
  <2>1. /\ Settled(Apply(invoice[i], allocations[i]), AppliedTo(i) + allocations[i])
        /\ AppliedTo(i) \in Nat /\ allocations[i] \in Nat
    BY SettledAnew
  <2>2. AppliedTo(i) - applied[p][i] + allocations[i] = AppliedTo(i) + allocations[i]
    BY <1>2, <2>1
  <2> QED
    BY <1>1, <2>1, <2>2
<1>5. todo'.step \in {"nothing", "post payment", "reverse payment"}
  BY DEF RecordPayment, Step
<1> HIDE DEF row
<1>6. payment' = [payment EXCEPT ![p] = row]
  BY <1>1 DEF row
<1> QED
  BY <1>1, <1>3, <1>4, <1>5, <1>6, OnePaymentSound

(* applyPayment: what it adds to the applications of the payment is no     *)
(* more than is left of it.                                                *)
LEMMA ApplyPaymentStaysSettled ==
    ASSUME BooksSound, BooksSound', PaymentsSound, NEW p \in Payment, ApplyPayment(p)
    PROVE  PaymentsSound'
<1>0. /\ applied \in [Payment -> [Invoice -> 0 .. MaxAmount]]
      /\ payment[p] \in PaymentRow /\ payment[p].state = "LIVE"
  BY DEF BooksSound, RowsSound, PaymentsSound, RestSound, ApplyPayment, Live
<1>1. PICK allocations \in Allocations :
         /\ \A i \in Invoice : allocations[i] > 0 => applied[p][i] = 0
         /\ Allocatable(allocations, payment[p].amount - AppliedOf(p), NoAllocation)
         /\ applied' = [applied EXCEPT ![p] = [i \in Invoice |-> @[i] + allocations[i]]]
         /\ payment' = [payment EXCEPT ![p].unappliedAmount =
               payment[p].amount - AppliedOf(p) - Total(allocations)]
         /\ invoice' = [i \in Invoice |-> Apply(invoice[i], allocations[i])]
  BY DEF ApplyPayment
<1> DEFINE merged == [i \in Invoice |-> applied[p][i] + allocations[i]]
           row == [payment[p] EXCEPT !.unappliedAmount =
                      payment[p].amount - AppliedOf(p) - Total(allocations)]
<1>2. \A i \in Invoice : /\ applied[p][i] \in 0 .. MaxAmount
                         /\ allocations[i] \in 0 .. MaxAmount
                         /\ merged[i] = applied[p][i] + allocations[i]
  BY <1>0 DEF Allocations
<1>3. merged \in Allocations
  <2>1. \A i \in Invoice : merged[i] \in 0 .. MaxAmount
    BY <1>1, <1>2, BoundsAssumption
  <2> QED
    BY <2>1 DEF Allocations
<1>4. applied' = [applied EXCEPT ![p] = merged]
  BY <1>1
<1>5. payment' = [payment EXCEPT ![p] = row]
  BY <1>1
<1> HIDE DEF merged
<1>6. Total(merged) = AppliedOf(p) + Total(allocations)
  <2>1. \A i \in Invoice : applied[p][i] \in Int /\ allocations[i] \in Int
    BY <1>2
  <2>2. Sum(merged, Invoice) = Sum(applied[p], Invoice) + Sum(allocations, Invoice)
    BY <1>2, <2>1, FiniteDocuments, SumAdds
  <2> QED
    BY <2>2 DEF AppliedOf, Total, Sum
<1>7. RestSound(row, merged)
  <2>1. applied[p] \in Allocations
    BY <1>0 DEF Allocations
  <2>2. AppliedOf(p) \in Nat /\ Total(allocations) \in Nat
    BY <2>1, TotalType DEF AppliedOf
  <2>3. /\ Total(allocations) <= payment[p].amount - AppliedOf(p)
        /\ payment[p].amount \in 0 .. MaxAmount
    BY <1>0, <1>1 DEF Allocatable, PaymentRow
  <2>4. /\ payment[p].amount - AppliedOf(p) - Total(allocations) \in 0 .. MaxAmount
        /\ payment[p].amount - AppliedOf(p) - Total(allocations)
              = payment[p].amount - Total(merged)
    BY <1>6, <2>2, <2>3, BoundsAssumption
  <2>5. /\ row \in PaymentRow /\ row.state = "LIVE"
        /\ row.amount = payment[p].amount
        /\ row.unappliedAmount = payment[p].amount - AppliedOf(p) - Total(allocations)
    BY <1>0, <2>4 DEF PaymentRow
  <2> QED
    BY <2>4, <2>5 DEF RestSound
<1>8. ASSUME NEW i \in Invoice
      PROVE  Settled(invoice'[i], AppliedTo(i) - applied[p][i] + merged[i])
  <2>1. /\ Settled(Apply(invoice[i], allocations[i]), AppliedTo(i) + allocations[i])
        /\ AppliedTo(i) \in Nat /\ allocations[i] \in Nat /\ applied[p][i] \in Nat
    BY SettledAnew
  <2>2. AppliedTo(i) - applied[p][i] + merged[i] = AppliedTo(i) + allocations[i]
    BY <1>2, <2>1
  <2> QED
    BY <1>1, <2>1, <2>2
<1>9. todo'.step \in {"nothing", "post payment", "reverse payment"}
  BY DEF ApplyPayment, Nothing
<1> HIDE DEF row
<1> QED
  BY <1>3, <1>4, <1>5, <1>7, <1>8, <1>9, OnePaymentSound

(* updatePayment: the new applications are within the payment's amount.    *)
LEMMA ReplaceAllocationsStaysSettled ==
    ASSUME BooksSound, BooksSound', PaymentsSound, NEW p \in Payment, ReplaceAllocations(p)
    PROVE  PaymentsSound'
<1>0. payment[p] \in PaymentRow /\ payment[p].state = "LIVE"
  BY DEF PaymentsSound, RestSound, ReplaceAllocations, Live
<1>1. PICK allocations \in Allocations :
         /\ Allocatable(allocations, payment[p].amount, applied[p])
         /\ applied' = [applied EXCEPT ![p] = allocations]
         /\ payment' = [payment EXCEPT ![p].unappliedAmount =
               payment[p].amount - Total(allocations)]
         /\ invoice' = [i \in Invoice |->
               Apply(Restore(invoice[i], applied[p][i]), allocations[i])]
  BY DEF ReplaceAllocations
<1> DEFINE row == [payment[p] EXCEPT !.unappliedAmount =
                      payment[p].amount - Total(allocations)]
<1>2. payment' = [payment EXCEPT ![p] = row]
  BY <1>1
<1>3. RestSound(row, allocations)
  <2>1. /\ Total(allocations) \in Nat
        /\ Total(allocations) <= payment[p].amount
        /\ payment[p].amount \in 0 .. MaxAmount
    BY <1>0, <1>1, TotalType DEF Allocatable, PaymentRow
  <2>2. payment[p].amount - Total(allocations) \in 0 .. MaxAmount
    BY <2>1, BoundsAssumption
  <2> QED
    BY <1>0, <2>2 DEF RestSound, PaymentRow
<1>4. \A i \in Invoice :
         Settled(invoice'[i], AppliedTo(i) - applied[p][i] + allocations[i])
  BY <1>1, SettledAnew
<1>5. todo'.step \in {"nothing", "post payment", "reverse payment"}
  BY DEF ReplaceAllocations, Nothing
<1> HIDE DEF row
<1> QED
  BY <1>1, <1>2, <1>3, <1>4, <1>5, OnePaymentSound

(* voidPayment: every application of the payment is taken back.            *)
LEMMA VoidPaymentStaysSettled ==
    ASSUME BooksSound, BooksSound', PaymentsSound, NEW p \in Payment, VoidPayment(p)
    PROVE  PaymentsSound'
<1>0. payment[p] \in PaymentRow
  BY DEF PaymentsSound
<1>1. /\ invoice' = [i \in Invoice |-> Restore(invoice[i], applied[p][i])]
      /\ applied' = [applied EXCEPT ![p] = NoAllocation]
      /\ payment' = [payment EXCEPT ![p].state = "DELETED"]
  BY DEF VoidPayment
<1> DEFINE row == [payment[p] EXCEPT !.state = "DELETED"]
<1>2. payment' = [payment EXCEPT ![p] = row]
  BY <1>1
<1>3. NoAllocation \in Allocations /\ \A i \in Invoice : NoAllocation[i] = 0
  BY BoundsAssumption DEF NoAllocation, Allocations
<1>4. RestSound(row, NoAllocation)
  BY <1>0, <1>3 DEF RestSound, PaymentRow
<1>5. ASSUME NEW i \in Invoice
      PROVE  Settled(invoice'[i], AppliedTo(i) - applied[p][i] + NoAllocation[i])
  <2>1. /\ Settled(Restore(invoice[i], applied[p][i]), AppliedTo(i) - applied[p][i])
        /\ AppliedTo(i) \in Nat /\ applied[p][i] \in Nat
    BY <1>3, SettledAnew
  <2>2. AppliedTo(i) - applied[p][i] + NoAllocation[i] = AppliedTo(i) - applied[p][i]
    BY <1>3, <2>1
  <2> QED
    BY <1>1, <2>1, <2>2
<1>6. todo'.step \in {"nothing", "post payment", "reverse payment"}
  BY DEF VoidPayment, Step
<1> HIDE DEF row
<1> QED
  BY <1>1, <1>2, <1>3, <1>4, <1>5, <1>6, OnePaymentSound

(* The second half of voidInvoice: each payment gets back what it had      *)
(* applied to the invoice, which is never more than its amount, and the    *)
(* cap at the amount takes nothing off.                                    *)
LEMMA FinishVoidStaysSettled ==
    ASSUME BooksSound, BooksSound', PaymentsSound, FinishVoidInvoice
    PROVE  PaymentsSound'
<1> PICK i \in Invoice : i = todo.doc
  BY DEF FinishVoidInvoice, BooksSound, TodoSound
<1>0. /\ applied \in [Payment -> [Invoice -> 0 .. MaxAmount]]
      /\ invoice \in [Invoice -> InvoiceRow]
      /\ payment \in [Payment -> PaymentRow]
      /\ applied' \in [Payment -> [Invoice -> 0 .. MaxAmount]]
  BY DEF BooksSound, RowsSound, PaymentsSound
<1>1. /\ invoice' = [invoice EXCEPT ![i] = Voided(@)]
      /\ payment' = [p \in Payment |->
            IF p \in Live
            THEN [payment[p] EXCEPT !.unappliedAmount = Released(p, i)]
            ELSE payment[p]]
      /\ applied' = [p \in Payment |-> [applied[p] EXCEPT ![i] = 0]]
      /\ todo'.step \in Steps
  BY DEF FinishVoidInvoice, Nothing, Steps
<1>2. ASSUME NEW p \in Payment PROVE RestSound(payment'[p], applied'[p])
  <2>a. applied'[p] = [applied[p] EXCEPT ![i] = 0]
    BY <1>1
  <2>b. applied[p] \in Allocations /\ applied'[p] \in Allocations
    BY <1>0 DEF Allocations
  <2>c. applied[p][i] \in 0 .. MaxAmount
    BY <2>b DEF Allocations
  <2>1. /\ applied'[p] = [applied[p] EXCEPT ![i] = 0]
        /\ applied[p] \in Allocations /\ applied'[p] \in Allocations
        /\ applied[p][i] \in 0 .. MaxAmount
    BY <2>a, <2>b, <2>c
  <2>2. RestSound(payment[p], applied[p])
    BY DEF PaymentsSound
  <2>3. CASE p \notin Live
    <3>1. payment'[p] = payment[p] /\ payment[p].state # "LIVE"
      BY <1>1, <2>3 DEF Live
    <3>2. \A j \in Invoice : applied'[p][j] = 0
      <4>1. \A j \in Invoice : applied[p][j] = 0
        BY <2>2, <3>1 DEF RestSound
      <4>2. \A j \in Invoice : applied'[p][j] = IF j = i THEN 0 ELSE applied[p][j]
        BY <2>1 DEF Allocations
      <4> QED
        BY <4>1, <4>2
    <3> QED
      BY <2>2, <3>1, <3>2 DEF RestSound
  <2>4. CASE p \in Live
    <3>1. /\ payment[p].state = "LIVE" /\ payment[p] \in PaymentRow
          /\ payment[p].amount \in 0 .. MaxAmount
          /\ payment[p].unappliedAmount \in 0 .. MaxAmount
          /\ payment[p].unappliedAmount = payment[p].amount - Total(applied[p])
      BY <1>0, <2>2, <2>4 DEF Live, RestSound, PaymentRow
    <3>2. /\ Total(applied[p]) \in Nat /\ applied[p][i] <= Total(applied[p])
          /\ Total(applied'[p]) \in Nat
      BY <2>1, TotalType
    <3>3. Total(applied'[p]) = Total(applied[p]) - applied[p][i]
      <4>1. PICK F, G : F = applied[p] /\ G = applied'[p]
        OBVIOUS
      <4>2. /\ \A j \in Invoice : F[j] \in 0 .. MaxAmount /\ G[j] \in 0 .. MaxAmount
            /\ \A j \in Invoice \ {i} : G[j] = F[j]
            /\ G[i] = 0 /\ F[i] = applied[p][i]
        BY <2>1, <4>1 DEF Allocations
      <4>3. \A j \in Invoice : F[j] \in Int /\ G[j] \in Int
        BY <4>2
      <4>a. Sum(G, Invoice) = Sum(F, Invoice) - F[i] + G[i]
        BY <4>2, <4>3, FiniteDocuments, SumChanges
      <4>b. Sum(F, Invoice) \in Int
        BY <4>3, FiniteDocuments, SumTakesOut
      <4>4. Sum(G, Invoice) = Sum(F, Invoice) - F[i] + G[i] /\ Sum(F, Invoice) \in Int
        BY <4>a, <4>b
      <4>5. Sum(G, Invoice) = Sum(F, Invoice) - F[i]
        BY <4>2, <4>3, <4>4
      <4> QED
        BY <4>1, <4>5 DEF Total, Sum
    <3>4. Released(p, i) = payment[p].amount - Total(applied'[p])
      <4>1. payment[p].unappliedAmount + applied[p][i]
               = payment[p].amount - Total(applied'[p])
        BY <2>1, <3>1, <3>2, <3>3, BoundsAssumption
      <4> QED
        BY <3>1, <3>2, <4>1, BoundsAssumption DEF Released
    <3>5. Released(p, i) \in 0 .. MaxAmount
      <4>1. Total(applied'[p]) <= payment[p].amount
        BY <2>1, <3>1, <3>2, <3>3, BoundsAssumption
      <4> QED
        BY <3>1, <3>2, <3>4, <4>1, BoundsAssumption
    <3>6. payment'[p] = [payment[p] EXCEPT !.unappliedAmount = Released(p, i)]
      BY <1>1, <2>4
    <3> DEFINE rest == Released(p, i)
    <3>7. rest \in 0 .. MaxAmount /\ rest = payment[p].amount - Total(applied'[p])
          /\ payment'[p] = [payment[p] EXCEPT !.unappliedAmount = rest]
      BY <3>4, <3>5, <3>6
    <3> HIDE DEF rest
    <3> QED
      BY <3>1, <3>7 DEF RestSound, PaymentRow
  <2> QED
    BY <2>3, <2>4
<1>3. ASSUME NEW j \in Invoice PROVE Settled(invoice'[j], AppliedTo(j)')
  <2>1. /\ Settled(invoice[j], AppliedTo(j))
        /\ AppliedTo(j) \in Nat
        /\ invoice[j] \in InvoiceRow
        /\ invoice[j].totalAmount \in Nat
    <3>1. Settled(invoice[j], AppliedTo(j))
      BY DEF PaymentsSound
    <3>2. AppliedTo(j) \in Nat
      BY <1>0, AppliedToStays
    <3>3. invoice[j] \in InvoiceRow
      BY <1>0
    <3>4. invoice[j].totalAmount \in Nat
      BY <3>3, BoundsAssumption DEF InvoiceRow, InvoiceTotal
    <3> QED
      BY <3>1, <3>2, <3>3, <3>4
  <2> DEFINE f == [q \in Payment |-> applied[q][j]]
             g == [q \in Payment |-> applied'[q][j]]
  <2>2. AppliedTo(j) = Sum(f, Payment) /\ AppliedTo(j)' = Sum(g, Payment)
    BY DEF AppliedTo, Sum, FoldFunctionOnSet, MapThenFoldSet
  <2>3. CASE j = i
    <3>1. \A q \in Payment : applied'[q][j] = 0
      BY <1>0, <1>1, <2>3
    <3>2. \A q \in Payment : g[q] \in Nat /\ g[q] = 0
      BY <3>1
    <3>3. Sum(g, Payment) = 0
      <4> HIDE DEF g
      <4>1. PICK G : G = g
        OBVIOUS
      <4>2. Sum(G, Payment) = 0
        BY <3>2, <4>1, FiniteDocuments, SumBounds
      <4> QED
        BY <4>1, <4>2
    <3>4. /\ invoice'[j].totalAmount = invoice[j].totalAmount
          /\ invoice'[j].balance = invoice[j].totalAmount
          /\ invoice'[j].status = "VOID"
      BY <1>0, <1>1, <2>1, <2>3 DEF Voided, InvoiceRow
    <3>5. Settled(invoice'[j], 0)
      BY <2>1, <3>4 DEF Settled
    <3> HIDE DEF g
    <3> QED
      BY <2>2, <3>3, <3>5
  <2>4. CASE j # i
    <3>1. \A q \in Payment : applied'[q][j] = applied[q][j]
      BY <1>0, <1>1, <2>4
    <3>2. f = g
      BY <3>1
    <3>3. invoice'[j] = invoice[j]
      BY <1>0, <1>1, <2>4
    <3> HIDE DEF f, g
    <3> QED
      BY <2>1, <2>2, <3>2, <3>3
  <2> QED
    BY <2>3, <2>4
<1>4. payment' \in [Payment -> PaymentRow]
  <2>1. \A p \in Payment : payment'[p] \in PaymentRow
    BY <1>2 DEF RestSound
  <2>2. payment' = [p \in Payment |-> payment'[p]]
    BY <1>1
  <2> QED
    BY <2>1, <2>2
<1>5. /\ \A p \in Payment : RestSound(payment[p], applied[p])'
      /\ \A j \in Invoice : Settled(invoice[j], AppliedTo(j))'
  BY <1>2, <1>3 DEF RestSound, Settled, Total, FoldFunctionOnSet, MapThenFoldSet
<1> QED
  BY <1>1, <1>4, <1>5 DEF PaymentsSound

(* At the start there are no payments and no totals.                       *)
LEMMA PaymentsSoundInit == Init => PaymentsSound
<1> SUFFICES ASSUME Init PROVE PaymentsSound
  OBVIOUS
<1>0. applied \in [Payment -> [Invoice -> 0 .. MaxAmount]]
  BY BoundsAssumption DEF Init
<1>1. payment \in [Payment -> PaymentRow]
  BY BoundsAssumption DEF Init, NoPayment, PaymentRow, NoEntry
<1>2. \A p \in Payment : RestSound(payment[p], applied[p])
  BY <1>1 DEF Init, NoPayment, RestSound
<1>3. ASSUME NEW i \in Invoice PROVE Settled(invoice[i], AppliedTo(i))
  <2>1. AppliedTo(i) \in Nat
    BY <1>0, AppliedToStays
  <2> QED
    BY <2>1 DEF Init, NoInvoice, Settled
<1>4. todo.step \in Steps
  BY DEF Init, Nothing, Steps
<1> QED
  BY <1>1, <1>2, <1>3, <1>4 DEF PaymentsSound

(* Amounts and applications agree in every reachable state: what a payment *)
(* has left is its amount less what is applied of it, and no invoice is    *)
(* settled by more than its payments.                                      *)
THEOREM PaymentsAlwaysSound == Spec => []PaymentsSound
<1>1. Init => PaymentsSound
  BY PaymentsSoundInit
<1>2. BooksSound /\ BooksSound' /\ PaymentsSound /\ [Next]_vars => PaymentsSound'
  <2> SUFFICES ASSUME BooksSound, BooksSound', PaymentsSound, [Next]_vars
               PROVE  PaymentsSound'
    OBVIOUS
  <2>1. CASE \/ \E i \in Invoice : InvoiceStep(i)
             \/ FetchInvoice \/ PostInvoice \/ Fail \/ UNCHANGED vars
    BY <2>1, InvoicesStaySettled
  <2>2. ASSUME NEW p \in Payment, PaymentStep(p) PROVE PaymentsSound'
    BY <2>2, RecordPaymentStaysSettled, ApplyPaymentStaysSettled,
       ReplaceAllocationsStaysSettled, VoidPaymentStaysSettled DEF PaymentStep
  <2>3. CASE FinishVoidInvoice
    BY <2>3, FinishVoidStaysSettled
  <2>4. CASE PostPayment \/ ReversePayment
    BY <2>4, PostingsStaySettled
  <2> QED
    BY <2>1, <2>2, <2>3, <2>4 DEF Next
<1> QED
  BY <1>1, <1>2, BooksAlwaysSound, PTL DEF Spec

(* What is left of a payment is its amount less what is applied of it, and *)
(* a voided payment is applied to nothing: over any sequence of recording, *)
(* applying, replacing and voiding, for any amounts.                       *)
THEOREM UnappliedAlwaysTheRest == Spec => []UnappliedIsTheRest
<1>1. BooksSound /\ PaymentsSound => UnappliedIsTheRest
  <2> SUFFICES ASSUME BooksSound, PaymentsSound PROVE UnappliedIsTheRest
    OBVIOUS
  <2>1. \A p \in Payment : RestSound(payment[p], applied[p]) /\ applied[p] \in Allocations
    BY DEF BooksSound, RowsSound, PaymentsSound, Allocations
  <2>2. \A p \in Live : payment[p].unappliedAmount = payment[p].amount - AppliedOf(p)
    BY <2>1 DEF Live, RestSound, AppliedOf
  <2>3. \A p \in Payment \ Live : AppliedOf(p) = 0
    <3>1. \A p \in Payment \ Live : \A i \in Invoice : applied[p][i] = 0
      BY <2>1 DEF Live, RestSound
    <3> QED
      BY <2>1, <3>1, TotalType DEF AppliedOf
  <2> QED
    BY <2>2, <2>3 DEF UnappliedIsTheRest
<1> QED
  BY <1>1, BooksAlwaysSound, PaymentsAlwaysSound, PTL

(* No invoice is settled by more than was paid, and PAID means that its    *)
(* whole total is applied to it, whatever payments were moved or voided.   *)
THEOREM NeverSettledByMore == Spec => []SettledByPayments
<1>1. PaymentsSound => SettledByPayments
  BY DEF PaymentsSound, Settled, SettledByPayments
<1> QED
  BY <1>1, PaymentsAlwaysSound, PTL

(* Rows are well formed, and links lead to entries there are.              *)
THEOREM ReceivablesTypeCorrect == Spec => []TypeOK
<1>1. BooksSound /\ PaymentsSound => TypeOK
  <2> SUFFICES ASSUME BooksSound, PaymentsSound PROVE TypeOK
    OBVIOUS
  <2>1. \A i \in Invoice : invoice[i].journalEntryId \in {NoEntry} \cup DOMAIN journal
    BY DEF BooksSound, InvoiceSound, AlreadyPosted
  <2>2. \A p \in Payment : payment[p].journalEntryId \in {NoEntry} \cup DOMAIN journal
    BY DEF BooksSound, RowsSound, PaymentSound, AlreadyPosted
  <2>3. invoice \in [Invoice -> [status : InvoiceStatus, totalAmount : InvoiceTotal,
                                 balance : Nat, pastDue : BOOLEAN,
                                 journalEntryId : {NoEntry} \cup DOMAIN journal]]
    BY <2>1 DEF BooksSound, RowsSound, InvoiceRow
  <2>4. payment \in [Payment -> [state : {"NONE", "LIVE", "DELETED"},
                                 amount : 0 .. MaxAmount,
                                 unappliedAmount : 0 .. MaxAmount,
                                 journalEntryId : {NoEntry} \cup DOMAIN journal]]
    BY <2>2 DEF PaymentsSound, PaymentRow
  <2> QED
    BY <2>3, <2>4 DEF BooksSound, RowsSound, PaymentsSound, Steps, TypeOK, Allocations
<1> QED
  BY <1>1, BooksAlwaysSound, PaymentsAlwaysSound, PTL

-----------------------------------------------------------------------------
(* Deposits change nothing that Receivables has, and what else a step does *)
(* is a step of Receivables.                                               *)
LEMMA DepositsStepIsStep ==
    ASSUME [DepositsNext]_<<vars, depositVars>>
    PROVE  [Next]_vars
<1>1. CASE \E p \in Payment : ReceivePayment(p)
  BY <1>1 DEF ReceivePayment, Next, PaymentStep
<1>2. CASE ReceivablesStep
  BY <1>2 DEF ReceivablesStep, Next, InvoiceStep, PaymentStep
<1>3. CASE \E d \in Deposit : CreateDeposit(d) \/ PostDeposit(d) \/ VoidDeposit(d)
  BY <1>3 DEF CreateDeposit, PostDeposit, VoidDeposit
<1> QED
  BY <1>1, <1>2, <1>3 DEF DepositsNext

(* So everything proved of Receivables holds with deposits beside it, too: *)
(* taking payments to the bank disturbs neither invoices nor books.        *)
THEOREM DepositsAreReceivables == DepositsSpec => Spec
<1>1. DepositsInit => Init
  BY DEF DepositsInit
<1>2. [DepositsNext]_<<vars, depositVars>> => [Next]_vars
  BY DepositsStepIsStep
<1> QED
  BY <1>1, <1>2, PTL DEF DepositsSpec, Spec

DepositRow == [status : DepositStatus, lines : SUBSET Payment]

(* A payment in the deposits: one that was not recorded is in none and not *)
(* flagged; of the others, HeldOnce.                                       *)
HeldSound(p) ==
    /\ payment[p].state = "NONE" => p \notin deposited /\ Takers(p) = {}
    /\ Takers(p) \cap reposted = {} =>
          /\ \A d, e \in Holders(p) : d = e
          /\ Holders(p) # {} => p \in deposited
          /\ p \in deposited /\ Takers(p) # {} => Holders(p) # {}

DepositsSound ==
    /\ deposit \in [Deposit -> DepositRow]
    /\ deposited \subseteq Payment
    /\ reposted \subseteq Deposits
    /\ \A d \in Deposit \ Deposits : deposit[d].lines = {}
    /\ \A p \in Payment : HeldSound(p)

(* No deposits, no payments.                                               *)
LEMMA DepositsSoundInit == DepositsInit => DepositsSound
  BY DEF DepositsInit, NoDeposit, DepositStatus, DepositRow, DepositsSound, HeldSound,
         Deposits, Takers, Holders

(* A payment that is recorded stays so, live or deleted.                   *)
LEMMA RecordedStays ==
    ASSUME BooksSound, ReceivablesStep \/ (\E q \in Payment : ReceivePayment(q)),
           NEW p \in Payment, payment[p].state # "NONE"
    PROVE  payment'[p].state # "NONE"
<1>0. /\ DOMAIN payment = Payment
      /\ \A q \in Payment :
            DOMAIN payment[q] = {"state", "amount", "unappliedAmount", "journalEntryId"}
  BY DEF BooksSound, RowsSound, PaymentSound
<1>1. CASE \E q \in Payment : ReceivePayment(q)
  <2>1. PICK q \in Payment :
           \E row : payment[q].state = "NONE" /\ payment' = [payment EXCEPT ![q] = row]
    BY <1>1 DEF ReceivePayment, RecordPayment, Recorded
  <2> QED
    BY <1>0, <2>1
<1>2. CASE \E q \in Payment : ApplyPayment(q) \/ ReplaceAllocations(q)
  <2>1. PICK q \in Payment :
           \E rest : payment' = [payment EXCEPT ![q].unappliedAmount = rest]
    BY <1>2 DEF ApplyPayment, ReplaceAllocations
  <2> QED
    BY <1>0, <2>1
<1>3. CASE \E q \in Payment : VoidPayment(q)
  <2>1. PICK q \in Payment : payment' = [payment EXCEPT ![q].state = "DELETED"]
    BY <1>3 DEF VoidPayment
  <2> QED
    BY <1>0, <2>1
<1>4. CASE FinishVoidInvoice
  BY <1>0, <1>4 DEF FinishVoidInvoice
<1>5. CASE PostPayment \/ ReversePayment
  <2>1. CASE payment' = payment
    BY <2>1
  <2>2. CASE payment' # payment
    <3>1. PICK e : payment' = [payment EXCEPT ![todo.doc].journalEntryId = e]
      BY <1>5, <2>2 DEF PostPayment, ReversePayment
    <3> QED
      BY <1>0, <3>1
  <2> QED
    BY <2>1, <2>2
<1>6. CASE \/ \E i \in Invoice : CreateInvoice(i) \/ UpdateInvoice(i) \/ FallDue(i)
                               \/ SendInvoice(i) \/ VoidInvoice(i)
           \/ FetchInvoice \/ PostInvoice \/ Fail
  BY <1>6 DEF CreateInvoice, UpdateInvoice, FallDue, SendInvoice, VoidInvoice,
              FetchInvoice, PostInvoice, Fail
<1> QED
  BY <1>1, <1>2, <1>3, <1>4, <1>5, <1>6 DEF ReceivablesStep

(* The payments of a new deposit were flagged in no other.                 *)
LEMMA CreateDepositHolds ==
    ASSUME DepositsSound, NEW d \in Deposit, CreateDeposit(d)
    PROVE  DepositsSound'
<1>1. PICK payments \in SUBSET Payment \ {{}} :
         /\ \A p \in payments : Depositable(p)
         /\ deposit' = [deposit EXCEPT ![d] = [status |-> "DRAFT", lines |-> payments]]
         /\ deposited' = deposited \cup payments
  BY DEF CreateDeposit
<1>2. /\ payment' = payment /\ reposted' = reposted
      /\ d \notin Deposits /\ d \notin reposted /\ deposit[d].lines = {}
  BY DEF CreateDeposit, vars, DepositsSound
<1>3. /\ deposit' \in [Deposit -> DepositRow]
      /\ deposited' \subseteq Payment
      /\ \A e \in Deposit \ {d} : deposit'[e] = deposit[e]
      /\ deposit'[d].status = "DRAFT" /\ deposit'[d].lines = payments
  BY <1>1 DEF DepositsSound, DepositRow, DepositStatus
<1>4. Deposits' = Deposits \cup {d}
  BY <1>3 DEF Deposits
<1>5. ASSUME NEW p \in Payment PROVE HeldSound(p)'
  <2>1. CASE p \in payments
    <3>1. p \notin deposited /\ payment[p].state = "LIVE"
      BY <1>1, <2>1 DEF Depositable, Live
    <3>2. Takers(p)' = Takers(p) \cup {d} /\ Holders(p)' = Holders(p) \cup {d}
      BY <1>3, <2>1 DEF Takers, Holders
    <3>3. Takers(p) \cap reposted = {} => Holders(p) = {}
      BY <3>1 DEF DepositsSound, HeldSound
    <3>4. p \in deposited'
      BY <1>1, <2>1
    <3> QED
      BY <1>2, <3>1, <3>2, <3>3, <3>4 DEF HeldSound
  <2>2. CASE p \notin payments
    <3>1. Takers(p)' = Takers(p) /\ Holders(p)' = Holders(p)
      BY <1>2, <1>3, <2>2 DEF Takers, Holders
    <3> QED
      BY <1>1, <1>2, <2>2, <3>1 DEF DepositsSound, HeldSound
  <2> QED
    BY <2>1, <2>2
<1> QED
  BY <1>2, <1>3, <1>4, <1>5 DEF DepositsSound

(* Posting a deposit that is not void moves nothing; posting a void one is *)
(* remembered.                                                             *)
LEMMA PostDepositHolds ==
    ASSUME DepositsSound, NEW d \in Deposit, PostDeposit(d)
    PROVE  DepositsSound'
<1>1. /\ payment' = payment /\ deposited' = deposited
      /\ d \in Deposits
  BY DEF PostDeposit, vars
<1>2. /\ deposit' \in [Deposit -> DepositRow]
      /\ \A e \in Deposit \ {d} : deposit'[e] = deposit[e]
      /\ deposit'[d].status = "POSTED" /\ deposit'[d].lines = deposit[d].lines
  BY DEF PostDeposit, DepositsSound, DepositRow, DepositStatus
<1>3. Deposits' = Deposits
  BY <1>1, <1>2 DEF Deposits
<1>4. /\ reposted' \subseteq Deposits /\ reposted \subseteq reposted'
      /\ deposit[d].status = "VOID" => d \in reposted'
  BY <1>1 DEF PostDeposit, DepositsSound
<1>5. ASSUME NEW p \in Payment PROVE HeldSound(p)'
  <2>1. Takers(p)' = Takers(p)
    BY <1>2 DEF Takers
  <2>2. Takers(p) \cap reposted' = {} => Holders(p)' = Holders(p)
    BY <1>2, <1>4, <2>1 DEF Takers, Holders
  <2>3. Takers(p) \cap reposted' = {} => Takers(p) \cap reposted = {}
    BY <1>4
  <2> QED
    BY <1>1, <2>1, <2>2, <2>3 DEF DepositsSound, HeldSound
<1> QED
  BY <1>1, <1>2, <1>3, <1>4, <1>5 DEF DepositsSound

(* A payment that is freed was in the deposit that is void now, and in no  *)
(* other.                                                                  *)
LEMMA VoidDepositHolds ==
    ASSUME DepositsSound, NEW d \in Deposit, VoidDeposit(d)
    PROVE  DepositsSound'
<1>1. /\ payment' = payment /\ reposted' = reposted
      /\ deposited' = deposited \ deposit[d].lines
      /\ d \in Deposits /\ deposit[d].status # "VOID"
  BY DEF VoidDeposit, vars, Freed
<1>2. /\ deposit' \in [Deposit -> DepositRow]
      /\ \A e \in Deposit \ {d} : deposit'[e] = deposit[e]
      /\ deposit'[d].status = "VOID" /\ deposit'[d].lines = deposit[d].lines
  BY DEF VoidDeposit, DepositsSound, DepositRow, DepositStatus
<1>3. Deposits' = Deposits
  BY <1>1, <1>2 DEF Deposits
<1>4. ASSUME NEW p \in Payment PROVE HeldSound(p)'
  <2>1. Takers(p)' = Takers(p) /\ Holders(p)' = Holders(p) \ {d}
    BY <1>1, <1>2 DEF Takers, Holders
  <2>2. CASE p \in deposit[d].lines
    <3>1. d \in Holders(p) /\ p \notin deposited'
      BY <1>1, <2>2 DEF Takers, Holders
    <3> QED
      BY <1>1, <2>1, <3>1 DEF DepositsSound, HeldSound
  <2>3. CASE p \notin deposit[d].lines
    <3>1. Holders(p)' = Holders(p)
      BY <2>1, <2>3 DEF Takers, Holders
    <3> QED
      BY <1>1, <2>1, <2>3, <3>1 DEF DepositsSound, HeldSound
  <2> QED
    BY <2>2, <2>3
<1> QED
  BY <1>1, <1>2, <1>3, <1>4 DEF DepositsSound

(* Each step keeps DepositsSound.                                          *)
LEMMA DepositsSoundStep ==
    ASSUME BooksSound, DepositsSound, [DepositsNext]_<<vars, depositVars>>
    PROVE  DepositsSound'
<1>1. CASE \E q \in Payment : ReceivePayment(q)
  <2>1. PICK q \in Payment : ReceivePayment(q)
    BY <1>1
  <2>2. /\ deposit' = deposit /\ reposted' = reposted
        /\ deposited' \in {deposited, deposited \cup {q}}
        /\ payment[q].state = "NONE"
    BY <2>1 DEF ReceivePayment, RecordPayment, Recorded
  <2>3. /\ payment'[q].state = "LIVE"
        /\ \A p \in Payment \ {q} : payment'[p] = payment[p]
    <3>1. DOMAIN payment = Payment
      BY DEF BooksSound, RowsSound
    <3>2. PICK amount, rest :
             payment' = [payment EXCEPT ![q] = [NoPayment EXCEPT
                !.state = "LIVE", !.amount = amount, !.unappliedAmount = rest]]
      BY <2>1 DEF ReceivePayment, RecordPayment
    <3>3. payment'[q] = [NoPayment EXCEPT
                !.state = "LIVE", !.amount = amount, !.unappliedAmount = rest]
      BY <3>1, <3>2
    <3> QED
      BY <3>1, <3>2, <3>3 DEF NoPayment
  <2>4. ASSUME NEW p \in Payment PROVE HeldSound(p)'
    <3>1. Takers(p)' = Takers(p) /\ Holders(p)' = Holders(p)
      BY <2>2 DEF Takers, Holders
    <3>2. payment[p].state # "NONE" => payment'[p].state # "NONE"
      BY <1>1, RecordedStays
    <3>3. CASE p = q
      <4>1. Takers(p) = {} /\ Holders(p) = {}
        BY <2>2, <3>3 DEF DepositsSound, HeldSound, Takers, Holders
      <4> QED
        BY <2>3, <3>1, <3>3, <4>1 DEF HeldSound
    <3>4. CASE p # q
      <4>1. payment'[p] = payment[p]
        BY <2>3, <3>4
      <4> QED
        BY <2>2, <3>1, <3>4, <4>1 DEF DepositsSound, HeldSound
    <3> QED
      BY <3>3, <3>4
  <2>5. Deposits' = Deposits
    BY <2>2 DEF Deposits
  <2> QED
    BY <2>2, <2>4, <2>5 DEF DepositsSound
<1>2. CASE ReceivablesStep
  <2>1. deposit' = deposit /\ reposted' = reposted /\ deposited' = deposited
    BY <1>2 DEF ReceivablesStep, depositVars
  <2>2. ASSUME NEW p \in Payment PROVE HeldSound(p)'
    <3>1. payment[p].state # "NONE" => payment'[p].state # "NONE"
      BY <1>2, RecordedStays
    <3>2. Takers(p)' = Takers(p) /\ Holders(p)' = Holders(p)
      BY <2>1 DEF Takers, Holders
    <3> QED
      BY <2>1, <3>1, <3>2 DEF DepositsSound, HeldSound
  <2>3. Deposits' = Deposits
    BY <2>1 DEF Deposits
  <2> QED
    BY <2>1, <2>2, <2>3 DEF DepositsSound
<1>3. CASE \E d \in Deposit : CreateDeposit(d) \/ PostDeposit(d) \/ VoidDeposit(d)
  BY <1>3, CreateDepositHolds, PostDepositHolds, VoidDepositHolds
<1>4. CASE UNCHANGED <<vars, depositVars>>
  BY <1>4 DEF vars, depositVars, DepositsSound, HeldSound, Deposits, Takers, Holders
<1> QED
  BY <1>1, <1>2, <1>3, <1>4 DEF DepositsNext

(* The inductive invariant of the deposits, which rests on that of the     *)
(* books: a payment that was recorded stays so.                            *)
THEOREM DepositsStaySound == DepositsSpec => []DepositsSound
<1>1. DepositsSpec => []BooksSound
  BY DepositsAreReceivables, BooksAlwaysSound, PTL
<1> QED
  BY <1>1, DepositsSoundInit, DepositsSoundStep, PTL DEF DepositsSpec

(* The flag isDeposited tells whether a payment is in a deposit, and it is *)
(* in one at most, over any sequence of deposits and voids, until a void   *)
(* deposit that had the payment is posted again (postDeposit asks for no   *)
(* status).                                                                *)
THEOREM PaymentsHeldOnce == DepositsSpec => []HeldOnce
<1>1. DepositsSound => HeldOnce
  BY DEF DepositsSound, HeldSound, HeldOnce
<1> QED
  BY <1>1, DepositsStaySound, PTL

(* Rows of invoices, payments and deposits are well formed.                *)
THEOREM DepositsTypeCorrect == DepositsSpec => []DepositsTypeOK
<1>1. TypeOK /\ DepositsSound => DepositsTypeOK
  BY DEF DepositsSound, DepositRow, Deposits, DepositsTypeOK
<1> QED
  BY <1>1, DepositsAreReceivables, ReceivablesTypeCorrect, DepositsStaySound, PTL
=============================================================================
