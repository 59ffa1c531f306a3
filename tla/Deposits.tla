------------------------------ MODULE Deposits -------------------------------
(***************************************************************************)
(* Customer payments on their way to the bank: the deposits of             *)
(* banking.service.ts and banking.repository.ts, beside everything that    *)
(* Receivables does to the payments.                                       *)
(*                                                                         *)
(* A payment is flagged deposited (isDeposited) when a deposit takes it    *)
(* and freed when the deposit is void.  The flag does not say which        *)
(* deposit; the lines of the deposits do, and a void deposit keeps its     *)
(* lines.  A void deposit can be posted again, and then voided again, when *)
(* other deposits have taken its payments: `reposted' remembers where that *)
(* happened, which the code does not.                                      *)
(*                                                                         *)
(* A deposit does not reach the journal.  The entry that is made for it    *)
(* when it is posted names a bank account where a ledger account belongs,  *)
(* which the foreign key of the entry's lines refuses; by then the deposit *)
(* is marked POSTED.  So it never has an entry that voiding could reverse. *)
(***************************************************************************)
EXTENDS Receivables

CONSTANTS
    Deposit,        \* the deposits there can be
    Destinations    \* bound: where callers send the payments they record

ASSUME DestinationsAssumption ==
    Destinations \subseteq {"UNDEPOSITED_FUNDS", "BANK_ACCOUNT"}

VARIABLES
    deposit,     \* the BankDeposit rows with their lines
    deposited,   \* the payments that are flagged isDeposited
    reposted     \* history: the deposits that were posted when they were VOID

depositVars == <<deposit, deposited, reposted>>

-----------------------------------------------------------------------------
DepositStatus == {"NONE", "DRAFT", "POSTED", "VOID"}

NoDeposit == [status |-> "NONE", lines |-> {}]

Deposits == {d \in Deposit : deposit[d].status # "NONE"}

(* The bound on the documents made counts the deposits, too.               *)
RoomForAnother ==
    Cardinality(Invoices) + Cardinality(Recorded) + Cardinality(Deposits) < MaxDocuments

DepositsInit ==
    /\ Init
    /\ deposit = [d \in Deposit |-> NoDeposit]
    /\ deposited = {}
    /\ reposted = {}

(* recordPayment: a payment that goes straight to a bank account is        *)
(* flagged from the start.                                                 *)
ReceivePayment(p) ==
    /\ RoomForAnother
    /\ RecordPayment(p)
    /\ \E destination \in Destinations :
          deposited' = IF destination = "BANK_ACCOUNT" THEN deposited \cup {p} ELSE deposited
    /\ UNCHANGED <<deposit, reposted>>

(* createDeposit refuses payments that are deleted or flagged.  Whether a  *)
(* payment is posted, or to what account, it does not ask.                 *)
Depositable_Flagged(p) == p \in Live
Depositable(p) == p \in Live \ deposited

CreateDeposit(d) ==
    /\ todo = Nothing
    /\ d \notin Deposits /\ RoomForAnother
    /\ \E payments \in SUBSET Payment \ {{}} :
          /\ \A p \in payments : Depositable(p)
          /\ deposit' = [deposit EXCEPT ![d] = [status |-> "DRAFT", lines |-> payments]]
          /\ deposited' = deposited \cup payments
    /\ UNCHANGED <<vars, reposted>>

(* postDeposit looks up the deposit and nothing of it.                     *)
PostDeposit(d) ==
    /\ todo = Nothing
    /\ d \in Deposits
    /\ deposit' = [deposit EXCEPT ![d].status = "POSTED"]
    /\ reposted' = IF deposit[d].status = "VOID" THEN reposted \cup {d} ELSE reposted
    /\ UNCHANGED <<vars, deposited>>

(* voidDeposit frees every payment of its lines, deleted ones included.    *)
Freed_None(d) == {}
Freed(d) == deposit[d].lines

VoidDeposit(d) ==
    /\ todo = Nothing
    /\ d \in Deposits
    /\ deposit[d].status # "VOID"
    /\ deposit' = [deposit EXCEPT ![d].status = "VOID"]
    /\ deposited' = deposited \ Freed(d)
    /\ UNCHANGED <<vars, reposted>>

(* The other operations of Receivables.  None of them asks whether a       *)
(* payment is in a deposit.                                                *)
ReceivablesStep ==
    /\ \/ \E i \in Invoice : RoomForAnother /\ CreateInvoice(i)
       \/ \E i \in Invoice :
             UpdateInvoice(i) \/ FallDue(i) \/ SendInvoice(i) \/ VoidInvoice(i)
       \/ \E p \in Payment :
             ApplyPayment(p) \/ ReplaceAllocations(p) \/ VoidPayment(p)
       \/ FetchInvoice \/ FinishVoidInvoice
       \/ PostInvoice \/ PostPayment \/ ReversePayment
       \/ Fail
    /\ UNCHANGED depositVars

DepositsNext ==
    \/ \E p \in Payment : ReceivePayment(p)
    \/ ReceivablesStep
    \/ \E d \in Deposit : CreateDeposit(d) \/ PostDeposit(d) \/ VoidDeposit(d)

DepositsSpec == DepositsInit /\ [][DepositsNext]_<<vars, depositVars>>

-----------------------------------------------------------------------------
DepositsTypeOK ==
    /\ TypeOK
    /\ deposit \in [Deposit -> [status : DepositStatus, lines : SUBSET Payment]]
    /\ deposited \subseteq Payment
    /\ reposted \subseteq Deposit

(* The deposits that have payment p, and those that had it or have it.     *)
Takers(p) == {d \in Deposit : p \in deposit[d].lines}
Holders(p) == {d \in Takers(p) : deposit[d].status # "VOID"}

(* The list of undeposited funds is right: a payment that a deposit has    *)
(* taken is in one deposit exactly while it is flagged, and in none        *)
(* otherwise, over any sequence of deposits and voids, also when the       *)
(* payment was voided meanwhile.  A payment is deposited twice, or listed  *)
(* although it is in a deposit, only if one of the deposits that took it   *)
(* was posted when it was void.                                            *)
HeldOnce ==
    \A p \in Payment :
       Takers(p) \cap reposted = {} =>
          /\ \A d, e \in Holders(p) : d = e
          /\ Holders(p) # {} => p \in deposited
          /\ p \in deposited /\ Takers(p) # {} => Holders(p) # {}
=============================================================================
