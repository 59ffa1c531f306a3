----------------------------- MODULE PeriodClose -----------------------------
(***************************************************************************)
(* Closing and reopening an accounting period (closePeriod, reopenPeriod   *)
(* and completeCloseWorkflow), beside the requests of GeneralLedger.       *)
(*                                                                         *)
(* A close posts up to three entries: revenue accounts to Income Summary,  *)
(* expense accounts to Income Summary, and Income Summary to Retained      *)
(* Earnings.  It reads the accounts first and posts what it read; the rows *)
(* it posts to are locked from then until it commits, so reading and       *)
(* committing are its two steps.  If there is no income or expense to post *)
(* to Income Summary, it reads that balance, too, before it locks the row. *)
(***************************************************************************)
EXTENDS GeneralLedger, FiniteSets, Functions

CONSTANTS
    Manager,           \* the requests that close and reopen periods
    Revenue, Expense,  \* the accounts whose type is income, or expense
    IncomeSummary,
    RetainedEarnings

Nominal == Revenue \cup Expense

ASSUME ChartAssumption ==
    /\ Nominal \subseteq Account
    /\ Revenue \cap Expense = {}
    /\ {IncomeSummary, RetainedEarnings} \subseteq Account \ Nominal
    /\ IncomeSummary # RetainedEarnings

ASSUME PeriodOrderAssumption == Period \subseteq Nat \ {0}

VARIABLES
    closing,    \* the entries described as "Closing entry" of their date
    reversalOf, \* sourceReferenceId of the entries a reopening made, else 0
    task        \* where every manager is

closeVars == <<closing, reversalOf, task>>
allVars == <<vars, closeVars>>

NoTask == [phase |-> "none", period |-> 0, checked |-> FALSE,
           lines |-> [a \in Account |-> 0], entries |-> {}]

-----------------------------------------------------------------------------
CloseInit ==
    /\ Init
    /\ active = [a \in Account |-> TRUE]
    /\ closedAt = [p \in Period |-> FALSE]
    /\ closing = {}
    /\ reversalOf = << >>
    /\ task = [m \in Manager |-> NoTask]

(* A step of the journal service or of a document.  The entry that replaces *)
(* an edited closing entry may keep the description and the date.          *)
Unrelated ==
    /\ reversalOf' = [e \in DOMAIN journal' |-> IF e \in Entries THEN reversalOf[e] ELSE 0]
    /\ closing' \in {closing} \cup
           {closing \cup {e} : e \in {x \in DOMAIN journal' \ Entries :
                                         journal'[x].previousId \in closing}}
    /\ UNCHANGED task

LedgerStep == Next /\ Unrelated

DocumentStep == (\E r \in Request : CreateAndPostJE(r)) /\ Unrelated

-----------------------------------------------------------------------------
(* getTrialBalance: the POSTED lines of every active account, shown in the *)
(* column of its side when positive and as nothing when negative.          *)
PostedTotal(a) ==
    SumTo([e \in Entries |-> IF journal[e].postingStatus = "POSTED" /\ ~journal[e].deletedAt
                             THEN journal[e].lines[a] ELSE 0], Len(journal))

Column(side) ==
    SumTo([a \in Account |->
              LET shown == BalanceDelta(side, PostedTotal(a))
              IN  IF active[a] /\ effectiveNormalSide(a) = side /\ shown > 0
                  THEN shown ELSE 0], NumAccounts)

TrialBalanced == Column("DEBIT") = Column("CREDIT")

Drafts == {e \in Entries : journal[e].postingStatus = "DRAFT" /\ ~journal[e].deletedAt}

-----------------------------------------------------------------------------
(* completeCloseWorkflow: no drafts, a trial balance that balances, then   *)
(* close the latest open period.                                           *)
CompleteCloseWorkflow(m) ==
    /\ task[m] = NoTask
    /\ Drafts = {}
    /\ TrialBalanced
    /\ \E p \in Period :
          /\ ~closedAt[p]
          /\ \A q \in Period : ~closedAt[q] => q <= p
          /\ task' = [task EXCEPT ![m] = [NoTask EXCEPT !.phase = "begin", !.period = p,
                                                        !.checked = TRUE]]
    /\ UNCHANGED <<vars, closing, reversalOf>>

(* The lines that close every active income and expense account by its     *)
(* balance: income is debited, expense is credited.                        *)
ClosingLine_Mirrored(a) ==
    CASE ~active[a]     -> 0
      [] a \in Revenue  -> balance[a]
      [] a \in Expense  -> balance[a]
      [] OTHER          -> 0
ClosingLine(a) ==
    CASE ~active[a]     -> 0
      [] a \in Revenue  -> balance[a]
      [] a \in Expense  -> 0 - balance[a]
      [] OTHER          -> 0

(* closePeriod, called by a user or by the workflow.  It does not ask      *)
(* whether the period is closed already.                                   *)
CloseRead(m) ==
    /\ \E p \in Period :
          LET start == IF task[m] = NoTask THEN [NoTask EXCEPT !.period = p] ELSE task[m]
          IN  /\ task[m] \in {NoTask, [NoTask EXCEPT !.phase = "begin", !.period = p,
                                                           !.checked = TRUE]}
              /\ task' = [task EXCEPT ![m] =
                            [start EXCEPT !.phase = "close",
                                          !.lines = [a \in Account |-> ClosingLine(a)]]]
    /\ UNCHANGED <<vars, closing, reversalOf>>

(* The entry that moves the lines of some accounts to Income Summary.      *)
ToSummary(lines, accounts) ==
    LET part == [a \in Account |-> IF a \in accounts THEN lines[a] ELSE 0]
    IN  [part EXCEPT ![IncomeSummary] = 0 - SumTo(part, NumAccounts)]

(* The entry that moves Income Summary to Retained Earnings: a positive    *)
(* balance credits the first and debits the second.                        *)
ToRetained(amount) ==
    [a \in Account |-> CASE a = IncomeSummary    -> 0 - amount
                         [] a = RetainedEarnings -> amount
                         [] OTHER                -> 0]

NonZero(lines) == IF Touched(lines) = {} THEN << >> ELSE <<lines>>

(* The balances after createAndPostJE posted a sequence of lists of lines. *)
PostAll_DebitSide(bal, list) ==
    [a \in Account |-> bal[a] + SumTo([i \in DOMAIN list |-> list[i][a]], Len(list))]
PostAll(bal, list) ==
    [a \in Account |->
        bal[a] + BalanceDelta(effectiveNormalSide(a),
                              SumTo([i \in DOMAIN list |-> list[i][a]], Len(list)))]

(* Insert them as posted entries of period p.                              *)
Insert(list, p) ==
    /\ \A i \in DOMAIN list : IsBalanced(list[i])
    /\ Len(journal) + Len(list) <= MaxEntries
    /\ balance' = PostAll(balance, list)
    /\ journal' = journal \o [i \in DOMAIN list |-> NewEntry("POSTED", NoNumber, list[i], p)]

NominalEntries(lines) ==
    NonZero(ToSummary(lines, Revenue)) \o NonZero(ToSummary(lines, Expense))

CloseEntries(lines) ==
    NominalEntries(lines) \o
       NonZero(ToRetained(PostAll(balance, NominalEntries(lines))[IncomeSummary]))

(* With nothing to post to Income Summary, its row is not locked when its  *)
(* balance is read.                                                        *)
SummaryRead(m) ==
    /\ task[m].phase = "close"
    /\ NominalEntries(task[m].lines) = << >>
    /\ task' = [task EXCEPT ![m].phase = "transfer",
                            ![m].lines = ToRetained(balance[IncomeSummary])]
    /\ UNCHANGED <<vars, closing, reversalOf>>

(* What the close of a task posts.                                         *)
Prepared(t) == IF t.phase = "close" THEN CloseEntries(t.lines) ELSE NonZero(t.lines)

CloseCommit(m) ==
    /\ \/ task[m].phase = "close" /\ NominalEntries(task[m].lines) # << >>
       \/ task[m].phase = "transfer"
    /\ LET list == Prepared(task[m])
           p    == task[m].period
       IN  /\ Insert(list, p)
           /\ closing' = closing \cup {Len(journal) + i : i \in DOMAIN list}
           /\ reversalOf' = reversalOf \o [i \in DOMAIN list |-> 0]
           /\ closedAt' = [closedAt EXCEPT ![p] = TRUE]
    /\ task' = [task EXCEPT ![m] = NoTask]
    /\ UNCHANGED <<active, pc, work>>

-----------------------------------------------------------------------------
(* reopenPeriod, which does not ask whether the period is closed: read the *)
(* closing entries that are POSTED ...                                     *)
ClosingEntries_FirstOnly(p) ==
    {e \in closing : /\ journal[e].date = p /\ journal[e].postingStatus = "POSTED"
                     /\ \A f \in closing : e <= f}
ClosingEntries_AnyDescription(p) ==
    {e \in Entries : journal[e].date = p /\ journal[e].postingStatus = "POSTED"}
ClosingEntries(p) ==
    {e \in closing : journal[e].date = p /\ journal[e].postingStatus = "POSTED"}

ReopenRead(m) ==
    /\ task[m] = NoTask
    /\ \E p \in Period :
          task' = [task EXCEPT ![m] = [NoTask EXCEPT !.phase = "reopen", !.period = p,
                                                    !.entries = ClosingEntries(p)]]
    /\ UNCHANGED <<vars, closing, reversalOf>>

(* ... and post the mirror image of each, dated today.  The query does not *)
(* ask for an order.  The mirror images name 'system' as the user who made *)
(* them, which the foreign key of createdById may refuse: AbandonTask.     *)
ReopenCommit(m) ==
    /\ task[m].phase = "reopen"
    /\ \E originals \in Bijection(1 .. Cardinality(task[m].entries), task[m].entries),
          today \in Period :
          /\ Insert([i \in DOMAIN originals |-> Mirror(journal[originals[i]].lines)], today)
          /\ reversalOf' = reversalOf \o originals
    /\ closedAt' = [closedAt EXCEPT ![task[m].period] = FALSE]
    /\ task' = [task EXCEPT ![m] = NoTask]
    /\ UNCHANGED <<active, pc, work, closing>>

AbandonTask(m) ==
    /\ task[m] # NoTask
    /\ task' = [task EXCEPT ![m] = NoTask]
    /\ UNCHANGED <<vars, closing, reversalOf>>

PeriodStep(m) ==
    \/ CompleteCloseWorkflow(m) \/ CloseRead(m) \/ SummaryRead(m) \/ CloseCommit(m)
    \/ ReopenRead(m) \/ ReopenCommit(m) \/ AbandonTask(m)

CloseNext == LedgerStep \/ \E m \in Manager : PeriodStep(m)

CloseSpec == CloseInit /\ [][CloseNext]_allVars

(* A company whose entries all come from documents and from closing.       *)
DocumentsNext == DocumentStep \/ \E m \in Manager : PeriodStep(m)

DocumentsSpec == CloseInit /\ [][DocumentsNext]_allVars

-----------------------------------------------------------------------------
CloseTypeOK ==
    /\ TypeOK
    /\ closing \subseteq Entries
    /\ reversalOf \in Seq(Nat)
    /\ DOMAIN reversalOf = Entries
    /\ \A m \in Manager :
          /\ task[m].phase \in {"none", "begin", "close", "transfer", "reopen"}
          /\ task[m].phase # "none" => task[m].period \in Period
          /\ task[m].entries \subseteq closing
          /\ task[m].lines \in Net

(* A close leaves nothing on the accounts it closes: if nothing was posted *)
(* since it read them, every income account on the credit side and every   *)
(* expense account on the debit side stands at zero when it commits.       *)
CloseLeavesNothing ==
    [][\A m \in Manager, a \in Nominal :
          /\ task[m].phase = "close" /\ task'[m] = NoTask /\ journal' # journal
          /\ \A b \in Account : task[m].lines[b] = ClosingLine(b)
          /\ effectiveNormalSide(a) = IF a \in Revenue THEN "CREDIT" ELSE "DEBIT"
          => balance'[a] = 0]_allVars

(* While a period is open, what a close did to it is undone: every entry a *)
(* close posted has been reversed, by a reopening, a void or an edit.      *)
OpenPeriodIsUndone ==
    \A e \in closing :
       /\ ~closedAt[journal[e].date]
       /\ journal[e].previousId = 0
       /\ journal[e].postingStatus = "POSTED"
       => \E f \in Entries : reversalOf[f] = e /\ journal[f].lines = Mirror(journal[e].lines)

=============================================================================
