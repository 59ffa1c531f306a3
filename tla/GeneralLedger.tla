---------------------------- MODULE GeneralLedger ----------------------------
(***************************************************************************)
(* The journal of one company: accounting.repository.ts (entries made by   *)
(* users) and shared/gl-integration.ts (entries that bills, payments and   *)
(* the period close make), over the tables JournalEntry and Account.       *)
(*                                                                         *)
(* A request of the journal service works in steps: it reads the entry,    *)
(* checks what it read, and then runs ONE database transaction that uses   *)
(* the values it read.  Nothing locks the entry between the read and the   *)
(* transaction, so steps of other requests come between.  A transaction is *)
(* one action: its balance updates are increments of single rows, and its  *)
(* other writes do not depend on what it read inside.                      *)
(*                                                                         *)
(* A request may be abandoned before its transaction commits (the process  *)
(* stops, the connection drops, the transaction times out): the database   *)
(* rolls back and nothing of it is left.                                   *)
(***************************************************************************)
EXTENDS LedgerArithmetic, Sequences

CONSTANTS
    Request,     \* the requests the backend serves at the same time
    Period,      \* the accounting periods a date can fall in
    Lines,       \* the lists of lines a caller may submit
    MaxEntries   \* bound: the number of journal entries ever created

ASSUME LinesAssumption == Lines \subseteq Net
ASSUME PeriodAssumption == Period # {}
ASSUME MaxEntriesAssumption == MaxEntries \in Nat

VARIABLES
    balance,     \* Account.balance, the cached balance, on the account's side
    active,      \* Account.isActive
    closedAt,    \* whether AccountingPeriod.closedAt is set
    journal,     \* the JournalEntry rows in the order of their creation
    pc,          \* the next step of every request
    work         \* what every request has read or computed so far

vars == <<balance, active, closedAt, journal, pc, work>>

-----------------------------------------------------------------------------
(* JournalEntry.entryNumber: none, "JE-n", or a number with "VOID-" put in *)
(* front of it voids times; "VOID-" of an entry without a number is put in *)
(* front of the entry's id.                                                *)
EntryNumber == [voids : Nat, je : Nat, id : Nat]

NoNumber == [voids |-> 0, je |-> 0, id |-> 0]
JE_OffByTwo(n) == [voids |-> 0, je |-> n - 2, id |-> 0]
JE(n) == [voids |-> 0, je |-> n, id |-> 0]

VoidNumber(number, e) ==
    IF number = NoNumber THEN [voids |-> 1, je |-> 0, id |-> e]
                         ELSE [number EXCEPT !.voids = @ + 1]

Status == {"DRAFT", "POSTED", "VOIDED"}

Entry == [postingStatus : Status,
          deletedAt     : BOOLEAN,       \* whether deletedAt is set
          entryNumber   : EntryNumber,
          lines         : Net,
          date          : Period,        \* the period the date falls in
          previousId    : Nat,           \* the entry an edit replaced, or 0
          reverses      : Nat,           \* the entry a void reversed, or 0
          linked        : BOOLEAN]       \* made for a source document

NewEntry(status, number, lines, date) ==
    [postingStatus |-> status, deletedAt |-> FALSE, entryNumber |-> number,
     lines |-> lines, date |-> date, previousId |-> 0, reverses |-> 0,
     linked |-> FALSE]

Entries == DOMAIN journal

(* A unique index covers entryNumber: a write that would repeat a number   *)
(* of another row fails and its transaction rolls back.                    *)
NumberTaken(number, rows, e) ==
    /\ number # NoNumber
    /\ \E other \in DOMAIN rows \ {e} : rows[other].entryNumber = number

(* The highest n of the numbers "JE-n" in use, deleted entries included.   *)
JENumbers == {journal[e].entryNumber.je :
                 e \in {x \in Entries : journal[x].entryNumber.voids = 0}}

LastJENumber == CHOOSE n \in JENumbers \cup {0} :
                   \A m \in JENumbers : m <= n

NoWork == [id |-> 0, number |-> NoNumber,
           je |-> NewEntry("DRAFT", NoNumber, [a \in Account |-> 0],
                           CHOOSE p \in Period : TRUE)]

Finish(r) == /\ pc' = [pc EXCEPT ![r] = "idle"]
             /\ work' = [work EXCEPT ![r] = NoWork]

(* A request that starts, or goes on, with entry e as it reads it now.     *)
ReadEntry(r, e, next) ==
    /\ pc[r] = "idle"
    /\ pc' = [pc EXCEPT ![r] = next]
    /\ work' = [work EXCEPT ![r] = [NoWork EXCEPT !.id = e, !.je = journal[e]]]
    /\ UNCHANGED <<balance, active, closedAt, journal>>

(* What createJournalEntry and postJournalEntry ask of an entry: active     *)
(* accounts, and a date outside every closed period.                       *)
AllActive(lines) == \A a \in Touched(lines) : active[a]

Acceptable(lines, date) == AllActive(lines) /\ ~closedAt[date]

-----------------------------------------------------------------------------
Init == /\ balance = [a \in Account |-> 0]
        /\ active \in [Account -> BOOLEAN]
        /\ closedAt \in [Period -> BOOLEAN]
        /\ journal = << >>
        /\ pc = [r \in Request |-> "idle"]
        /\ work = [r \in Request |-> NoWork]

-----------------------------------------------------------------------------
(* createJournalEntry: validate, look at the accounts and at the period ... *)
CreateGuard(r) ==
    /\ pc[r] = "idle"
    /\ \E lines \in Lines, p \in Period :
          /\ IsBalanced(lines)
          /\ Acceptable(lines, p)
          /\ work' = [work EXCEPT ![r] =
                         [NoWork EXCEPT !.je = NewEntry("DRAFT", NoNumber, lines, p)]]
    /\ pc' = [pc EXCEPT ![r] = "create"]
    /\ UNCHANGED <<balance, active, closedAt, journal>>

(* ... then insert the draft.  The service always creates a draft; a       *)
(* caller who asked for POSTED goes on with PostRead on the new entry.     *)
CreateCommit(r) ==
    /\ pc[r] = "create"
    /\ Len(journal) < MaxEntries
    /\ journal' = Append(journal, work[r].je)
    /\ Finish(r)
    /\ UNCHANGED <<balance, active, closedAt>>

-----------------------------------------------------------------------------
(* postJournalEntry.                                                       *)
Postable_WrongStatus(e) == ~journal[e].deletedAt /\ journal[e].postingStatus # "POSTED"
Postable(e) == ~journal[e].deletedAt /\ journal[e].postingStatus = "DRAFT"

PostRead(r) == \E e \in Entries : Postable(e) /\ ReadEntry(r, e, "postGuard")

(* The accounts and the period are those of the entry as it was read; the  *)
(* number is the next free one now.                                        *)
PostGuard(r) ==
    /\ pc[r] = "postGuard"
    /\ IF Acceptable(work[r].je.lines, work[r].je.date)
       THEN /\ work' = [work EXCEPT ![r].number =
                           IF work[r].je.entryNumber = NoNumber
                           THEN JE(LastJENumber + 1)
                           ELSE work[r].je.entryNumber]
            /\ pc' = [pc EXCEPT ![r] = "postCommit"]
       ELSE Finish(r)
    /\ UNCHANGED <<balance, active, closedAt, journal>>

(* The transaction posts the lines that were read, whatever the entry is   *)
(* by now; only its status and its number are written.                     *)
PostCommit(r) ==
    /\ pc[r] = "postCommit"
    /\ LET e == work[r].id IN
       IF NumberTaken(work[r].number, journal, e)
       THEN UNCHANGED <<balance, journal>>
       ELSE /\ balance' = Apply(balance, work[r].je.lines)
            /\ journal' = [journal EXCEPT ![e].postingStatus = "POSTED",
                                          ![e].entryNumber = work[r].number]
    /\ Finish(r)
    /\ UNCHANGED <<active, closedAt>>

-----------------------------------------------------------------------------
(* voidJournalEntry of a draft and deleteJournalEntry do the same thing.   *)
DeleteRead(r) ==
    \E e \in Entries :
       /\ ~journal[e].deletedAt
       /\ journal[e].postingStatus = "DRAFT"
       /\ ReadEntry(r, e, "delete")

DeleteCommit(r) ==
    /\ pc[r] = "delete"
    /\ journal' = [journal EXCEPT ![work[r].id].deletedAt = TRUE]
    /\ Finish(r)
    /\ UNCHANGED <<balance, active, closedAt>>

(* voidJournalEntry of a posted entry: take its lines out of the balances, *)
(* mark it VOIDED, and insert its mirror image under a VOID- number.       *)
VoidRead(r) ==
    \E e \in Entries :
       /\ ~journal[e].deletedAt
       /\ journal[e].postingStatus = "POSTED"
       /\ ReadEntry(r, e, "void")

VoidCommit(r) ==
    /\ pc[r] = "void"
    /\ LET e      == work[r].id
           je     == work[r].je
           number == VoidNumber(je.entryNumber, e)
           mirror == [NewEntry("POSTED", number, Mirror(je.lines), je.date)
                         EXCEPT !.reverses = e]
       IN  IF NumberTaken(number, journal, 0)
           THEN UNCHANGED <<balance, journal>>
           ELSE /\ Len(journal) < MaxEntries
                /\ balance' = Unapply(balance, je.lines)
                /\ journal' = Append([journal EXCEPT ![e].postingStatus = "VOIDED"],
                                     mirror)
    /\ Finish(r)
    /\ UNCHANGED <<active, closedAt>>

-----------------------------------------------------------------------------
(* updateJournalEntry: the branch is chosen by the status that was read.   *)
EditBranch_InPlace(status) == "editDraft"
EditBranch(status) == IF status = "POSTED" THEN "editPosted" ELSE "editDraft"

EditRead(r) ==
    \E e \in Entries :
       /\ ~journal[e].deletedAt
       /\ journal[e].postingStatus # "VOIDED"
       /\ ReadEntry(r, e, EditBranch(journal[e].postingStatus))

(* New lines must balance; lines and date are optional.                    *)
NewLines(current) == {lines \in Lines : IsBalanced(lines)} \cup {current}

(* The later of two edits replaces the lines of the earlier one here.  If  *)
(* their transactions overlap, it may also leave them beside its own, for  *)
(* it deletes the lines it finds and inserts its own: two lists of lines   *)
(* that balance, which is again a list that does.                          *)
EditDraftCommit(r) ==
    /\ pc[r] = "editDraft"
    /\ LET e == work[r].id IN
       \E lines \in NewLines(journal[e].lines), p \in Period :
          journal' = [journal EXCEPT ![e].lines = lines, ![e].date = p]
    /\ Finish(r)
    /\ UNCHANGED <<balance, active, closedAt>>

(* A posted entry is not changed: it is marked VOIDED, gives up its number *)
(* and is replaced by a posted entry that carries the number on.           *)
ReplaceBalances_NoReversal(bal, old, new) == Apply(bal, new)
ReplaceBalances(bal, old, new) == Apply(Unapply(bal, old), new)

Replacement_NoNumber(e, je, lines, p) ==
    [NewEntry("POSTED", NoNumber, lines, p) EXCEPT !.previousId = e]
Replacement_NoLink(e, je, lines, p) == NewEntry("POSTED", je.entryNumber, lines, p)
Replacement(e, je, lines, p) ==
    [NewEntry("POSTED", je.entryNumber, lines, p) EXCEPT !.previousId = e]

EditPostedCommit(r) ==
    /\ pc[r] = "editPosted"
    /\ LET e    == work[r].id
           je   == work[r].je
           rest == [journal EXCEPT ![e].postingStatus = "VOIDED",
                                   ![e].entryNumber = NoNumber]
       IN  IF NumberTaken(je.entryNumber, rest, 0)
           THEN UNCHANGED <<balance, journal>>
           ELSE /\ Len(journal) < MaxEntries
                /\ \E lines \in NewLines(je.lines), p \in Period :
                      /\ balance' = ReplaceBalances(balance, je.lines, lines)
                      /\ journal' = Append(rest, Replacement(e, je, lines, p))
    /\ Finish(r)
    /\ UNCHANGED <<active, closedAt>>

-----------------------------------------------------------------------------
(* createAndPostJE, inside the transaction of the caller: the document's   *)
(* own change and this entry are committed together.  No account, period   *)
(* or number is looked at.                                                 *)
CreateAndPostJE(r) ==
    /\ pc[r] = "idle"
    /\ Len(journal) < MaxEntries
    /\ \E lines \in Lines, p \in Period :
          /\ IsBalanced(lines)
          /\ balance' = ApplyEffective(balance, lines)
          /\ journal' = Append(journal,
                [NewEntry("POSTED", NoNumber, lines, p) EXCEPT !.linked = TRUE])
    /\ UNCHANGED <<active, closedAt, pc, work>>

(* createReversingJE: read the document's entry, which may be deleted by   *)
(* now but not VOIDED ...                                                  *)
Reversible_Twice(e) == journal[e].linked
Reversible(e) == journal[e].linked /\ journal[e].postingStatus # "VOIDED"

ReverseRead(r) == \E e \in Entries : Reversible(e) /\ ReadEntry(r, e, "reverse")

(* ... post its mirror image, and mark it VOIDED.                          *)
ReverseCommit(r) ==
    /\ pc[r] = "reverse"
    /\ Len(journal) < MaxEntries
    /\ LET e     == work[r].id
           lines == Mirror(work[r].je.lines)
       IN  \E p \in Period :
              /\ balance' = ApplyEffective(balance, lines)
              /\ journal' = Append([journal EXCEPT ![e].postingStatus = "VOIDED"],
                    [NewEntry("POSTED", NoNumber, lines, p) EXCEPT !.reverses = e])
    /\ Finish(r)
    /\ UNCHANGED <<active, closedAt>>

-----------------------------------------------------------------------------
(* The request ends without its transaction.                               *)
Abandon(r) ==
    /\ pc[r] # "idle"
    /\ Finish(r)
    /\ UNCHANGED <<balance, active, closedAt, journal>>

Step(r) ==
    \/ CreateGuard(r) \/ CreateCommit(r)
    \/ PostRead(r) \/ PostGuard(r) \/ PostCommit(r)
    \/ DeleteRead(r) \/ DeleteCommit(r)
    \/ VoidRead(r) \/ VoidCommit(r)
    \/ EditRead(r) \/ EditDraftCommit(r) \/ EditPostedCommit(r)
    \/ CreateAndPostJE(r)
    \/ ReverseRead(r) \/ ReverseCommit(r)
    \/ Abandon(r)

Next == \E r \in Request : Step(r)

Spec == Init /\ [][Next]_vars

-----------------------------------------------------------------------------
TypeOK ==
    /\ balance \in [Account -> Int]
    /\ active \in [Account -> BOOLEAN]
    /\ closedAt \in [Period -> BOOLEAN]
    /\ journal \in Seq(Entry)
    /\ pc \in [Request -> {"idle", "create", "postGuard", "postCommit", "delete",
                          "void", "editDraft", "editPosted", "reverse"}]
    /\ work \in [Request -> [id : Nat, je : Entry, number : EntryNumber]]
    /\ \A r \in Request : pc[r] \notin {"idle", "create"} => work[r].id \in Entries

(* The cached balances stay in double-entry balance: over all accounts,    *)
(* debit balances and credit balances cancel, in every state and however   *)
(* the requests interleave.  A statement built from the cached balances    *)
(* balances only if they do.                                               *)
LedgerInBalance == SumTo(AsDebits(balance), NumAccounts) = 0

(* What the cached balances mean.  An entry is in the books when it is     *)
(* posted, and stays in the books after a reversal (then the reversal is   *)
(* in the books too); an entry that an edit replaced is not.               *)
InBooks(e) ==
    /\ ~journal[e].deletedAt
    /\ \/ journal[e].postingStatus = "POSTED"
       \/ /\ journal[e].postingStatus = "VOIDED"
          /\ \E m \in Entries : journal[m].reverses = e

BookTotal(a) ==
    SumTo([e \in Entries |-> IF InBooks(e) THEN journal[e].lines[a] ELSE 0],
          Len(journal))

(* Every cached balance equals the total of the entries in the books, over *)
(* any sequence of creates, posts, edits, voids, reversals and deletes.    *)
(* (It takes requests that do not overlap.)                                *)
BooksMatchJournal ==
    \A a \in Account :
       balance[a] = BalanceDelta(effectiveNormalSide(a), BookTotal(a))

(* An entry only ever goes DRAFT -> POSTED -> VOIDED, one step at a time.  *)
EntryLifecycle ==
    [][\A e \in Entries :
          LET old == journal[e].postingStatus
              new == journal'[e].postingStatus
          IN  \/ new = old
              \/ old = "DRAFT" /\ new = "POSTED"
              \/ old = "POSTED" /\ new = "VOIDED"]_vars

(* Once posted, an entry keeps its lines and its date and is never deleted:*)
(* a correction leaves a trace.                                            *)
PostedImmutable ==
    [][\A e \in Entries :
          journal[e].postingStatus # "DRAFT" =>
             /\ journal'[e].lines = journal[e].lines
             /\ journal'[e].date = journal[e].date
             /\ ~journal'[e].deletedAt]_vars

(* The JE- numbers in use are consecutive from 1: an edit passes the       *)
(* number on and nothing else gives one up, so no number of the register   *)
(* is missing.                                                             *)
NumbersGapFree == JENumbers \ {0} = 1 .. LastJENumber

(* An entry is corrected at most once, by one replacement or one reversal, *)
(* and is VOIDED from then on.                                             *)
CorrectedOnce ==
    \A e \in Entries :
       LET corrections == {m \in Entries : e \in {journal[m].previousId,
                                                 journal[m].reverses}}
       IN  corrections # {} =>
              /\ journal[e].postingStatus = "VOIDED"
              /\ \E m \in corrections : corrections = {m}

(* An entry is never just VOIDED: its replacement or its mirror image is   *)
(* in the journal too, however requests overlap, fail or are abandoned.    *)
VoidedLeavesTrace ==
    \A e \in Entries :
       journal[e].postingStatus = "VOIDED" =>
          \E m \in Entries : e \in {journal[m].previousId, journal[m].reverses}

=============================================================================
