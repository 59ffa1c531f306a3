---------------------------- MODULE ExpenseClaims ----------------------------
(***************************************************************************)
(* Expense claims: expenses.service.ts and the status guard, over the      *)
(* sub-ledger service, with requests that overlap.                         *)
(*                                                                         *)
(* A request reads the claim, checks its status and then runs the          *)
(* transaction that acts on what it read; at READ COMMITTED any number of  *)
(* other requests may commit in between.  A transaction writes the claim's *)
(* row before it looks for entries, so of two the second waits at the row  *)
(* and looks when the first is done: a commit is one step here.  The void  *)
(* alone looks at the entries first, without a lock; it looks in Begin.    *)
(*                                                                         *)
(* An edit that brings lines deletes those it finds before it writes the   *)
(* row and inserts its own after: the deletion, which sees no lines that   *)
(* others commit from then on, is a step of its own (DeleteLines).         *)
(*                                                                         *)
(* A claim is two documents: what is owed for it and what was paid out.    *)
(* `control' is the accrued expense account: positive is owed.  What is    *)
(* owed is the sum of the positive lines, what is paid out is the total,   *)
(* which negative lines make smaller.  A total is above zero here; the     *)
(* policy checks only refuse.                                              *)
(***************************************************************************)
EXTENDS SubLedger, FiniteSets, Functions

CONSTANTS
    Claim,      \* the claims there can be
    Request,    \* the requests that can run at a time
    LineList,   \* bound: the lists of lines that a claim can be told to have
    MaxClaimed  \* bound: what the positive lines of a list come to

Owed(c) == <<c, "claim">>
PaidOut(c) == <<c, "reimbursement">>

ASSUME ClaimsAssumption ==
    /\ Document = Claim \X {"claim", "reimbursement"}
    /\ IsFiniteSet(LineList)
    /\ MaxClaimed \in Nat \ {0}

VARIABLES
    claim,      \* the ExpenseClaim rows; `lines' is what the positive lines
                \* of each list in the table come to, 0 for one not there
    request,    \* what each running request does, the row that it read and
                \* the lists that it has deleted
    outrun      \* history: the claims that some transaction was committed to
                \* on a row that had changed since it was read

claimVars == <<claim, request, outrun, journal, control>>

-----------------------------------------------------------------------------
ClaimStatus == {"DRAFT", "SUBMITTED", "APPROVED", "PAID", "REJECTED", "VOIDED"}
ClaimTotal == 1 .. MaxClaimed
ClaimLines == [LineList -> 0 .. MaxClaimed]

NoLines == [l \in LineList |-> 0]
ListsIn(lines) == {l \in LineList : lines[l] > 0}
LinesPost(lines) == FoldFunctionOnSet(+, 0, lines, LineList)

NoClaim == [status |-> "NONE", postingStatus |-> "DRAFT", total |-> 0,
            lines |-> NoLines, journalEntryId |-> NoEntry]

Idle == [op |-> "idle"]

ClaimsInit ==
    /\ claim = [c \in Claim |-> NoClaim]
    /\ request = [r \in Request |-> Idle]
    /\ outrun = {}
    /\ JournalInit

(* Posting a claim tests its link, posting a reimbursement looks for an    *)
(* entry that an earlier one made, reversed or not.                        *)
Reimbursed_Never(c) == FALSE
Reimbursed(c) == \E e \in DOMAIN journal :
                    journal[e].doc = PaidOut(c) /\ journal[e].amount < 0

(* Entries that one transaction adds to the journal, which it leaves as    *)
(* `kept' otherwise.                                                       *)
Booked(entries, d) ==
    FoldFunctionOnSet(+, 0, [i \in DOMAIN entries |-> entries[i].amount],
                      {i \in DOMAIN entries : entries[i].doc = d})

Book(kept, entries) ==
    /\ Len(journal) + Len(entries) <= MaxEntries
    /\ journal' = kept \o entries
    /\ control' = [d \in Document |-> control[d] + Booked(entries, d)]

(* postExpenseClaimToGL and postExpenseReimbursementToGL, in that order,   *)
(* each if it is among the `asked' and not done yet, for what the lines    *)
(* post and for the total; `row' is the claim as the transaction has       *)
(* written it so far.                                                      *)
Post(c, row, lines, total, asked) ==
    LET claimDue == "claim" \in asked /\ ~AlreadyPosted(row)
        payDue == "reimbursement" \in asked /\ ~Reimbursed(c)
    IN  /\ Book(journal,
                (IF claimDue THEN <<PostedEntry(Owed(c), LinesPost(lines))>> ELSE << >>) \o
                (IF payDue THEN <<PostedEntry(PaidOut(c), 0 - total)>> ELSE << >>))
        /\ claim' = [claim EXCEPT ![c] =
              IF claimDue THEN [row EXCEPT !.journalEntryId = NextEntry,
                                           !.postingStatus = "POSTED"]
              ELSE row]

(* What writing a status asks for: PAID asks for the claim, too.           *)
AskedFor_PaidOnly(status) ==
    {what \in {"claim", "reimbursement"} :
        status = IF what = "claim" THEN "APPROVED" ELSE "PAID"}

AskedFor(status) ==
    {what \in {"claim", "reimbursement"} :
        status = "PAID" \/ (status = "APPROVED" /\ what = "claim")}

(* A row as it is written, and posted as its status asks for.              *)
Write(c, old, status, total, lines) ==
    Post(c, [old EXCEPT !.status = status, !.total = total, !.lines = lines],
         lines, total, AskedFor(status))

(* createReimbursement, one transaction on a new row.                      *)
CreateClaim(c) ==
    /\ claim[c].status = "NONE"
    /\ \E status \in ClaimStatus, l \in LineList, amount \in ClaimTotal :
          \E total \in 1 .. amount :
             Write(c, NoClaim, status, total, [NoLines EXCEPT ![l] = amount])
    /\ UNCHANGED <<request, outrun>>

-----------------------------------------------------------------------------
(* assertValidTransition.                                                  *)
Ordered == <<"DRAFT", "SUBMITTED", "APPROVED", "PAID">>
Rank(status) == CHOOSE i \in DOMAIN Ordered : Ordered[i] = status

ValidTransition(old, new) ==
    \/ old = new
    \/ new = "VOIDED" /\ old # "REJECTED"
    \/ /\ old # "PAID"
       /\ {old, new} \subseteq {"DRAFT", "SUBMITTED", "APPROVED", "PAID"} =>
             Rank(new) > Rank(old)
       /\ old = "REJECTED" => new \in {"DRAFT", "SUBMITTED", "APPROVED"}

(* The entry that reimbursed a claim.                                      *)
ReimbursementOf(c) ==
    CHOOSE e \in DOMAIN journal :
       journal[e].doc = PaidOut(c) /\ journal[e].amount < 0

(* What each operation asks of the claim it has read.                      *)
Submittable(row) == row.status \in {"DRAFT", "REJECTED"}
Approvable(row) == row.status = "SUBMITTED"
Reimbursable(row) == row.status = "APPROVED"
Editable_Approved(row) == row.status \in {"DRAFT", "SUBMITTED", "REJECTED", "APPROVED"}
Editable(row) == row.status \in {"DRAFT", "SUBMITTED", "REJECTED"}
Deletable(row) == row.status \in {"DRAFT", "REJECTED"}
Voidable(c) ==
    /\ claim[c].status \in {"DRAFT", "SUBMITTED", "APPROVED", "PAID"}
    /\ claim[c].postingStatus # "VOIDED"
    /\ claim[c].status = "PAID" => Reimbursed(c) /\ MayReverse(ReimbursementOf(c))
    /\ claim[c].status \in {"APPROVED", "PAID"} =>
          AlreadyPosted(claim[c]) /\ MayReverse(claim[c].journalEntryId)

(* updateExpenseReport edits what is submitted, updateReimbursement only   *)
(* drafts and rejected ones: an edit of either is an edit of the first.    *)
Permitted(c, op) ==
    \/ op = "submit" /\ Submittable(claim[c])
    \/ op = "approve" /\ Approvable(claim[c])
    \/ op = "reimburse" /\ Reimbursable(claim[c])
    \/ op = "edit" /\ Editable(claim[c])
    \/ op = "delete" /\ Deletable(claim[c])
    \/ op = "void" /\ Voidable(c)

Begin(r, c) ==
    /\ request[r] = Idle
    /\ \E op \in {"submit", "approve", "reimburse", "edit", "delete", "void"} :
          /\ Permitted(c, op)
          /\ request' = [request EXCEPT ![r] = [op |-> op, claim |-> c, row |-> claim[c],
                                                  doomed |-> {}]]
    /\ UNCHANGED <<claim, outrun, journal, control>>

(* An edit that brings lines deletes those that are there.                 *)
DeleteLines(r, c) ==
    /\ request[r] # Idle /\ request[r].op = "edit" /\ request[r].claim = c
    /\ request' = [request EXCEPT ![r].op = "replace",
                                  ![r].doomed = ListsIn(claim[c].lines)]
    /\ UNCHANGED <<claim, outrun, journal, control>>

(* A policy, a closed period or the end of the process.                    *)
Abandon(r) ==
    /\ request[r] # Idle
    /\ request' = [request EXCEPT ![r] = Idle]
    /\ UNCHANGED <<claim, outrun, journal, control>>

(* What every commit has in common: the request ends, the row is still     *)
(* there, and history notes whether it was the row that was read.          *)
Commit(r, c, op) ==
    /\ request[r] # Idle /\ request[r].op = op /\ request[r].claim = c
    /\ claim[c].status # "DELETED"
    /\ request' = [request EXCEPT ![r] = Idle]
    /\ outrun' = IF claim[c] = request[r].row THEN outrun ELSE outrun \cup {c}

Submit(r, c) ==
    /\ Commit(r, c, "submit")
    /\ claim' = [claim EXCEPT ![c].status = "SUBMITTED"]
    /\ UNCHANGED <<journal, control>>

(* approveExpenseReport posts the lines that were read.                    *)
Approve(r, c) ==
    /\ Commit(r, c, "approve")
    /\ Post(c, [claim[c] EXCEPT !.status = "APPROVED"],
            request[r].row.lines, request[r].row.total, {"claim"})

Reimburse(r, c) ==
    /\ Commit(r, c, "reimburse")
    /\ Post(c, [claim[c] EXCEPT !.status = "PAID"],
            request[r].row.lines, request[r].row.total, {"reimbursement"})

(* An edit writes all columns back, those it does not change as they were  *)
(* read; a change of status posts the lines then in the table.             *)
Edit(r, c) ==
    /\ Commit(r, c, "edit")
    /\ \E status \in ClaimStatus :
          /\ ValidTransition(request[r].row.status, status)
          /\ Write(c, claim[c], status, request[r].row.total, claim[c].lines)

(* One that brings lines adds them to those that it did not find to delete.*)
(* Rows are never made twice: a list that some request knows of is not the *)
(* new one.                                                                *)
ListsKnown(c) ==
    ListsIn(claim[c].lines) \cup
    UNION {ListsIn(request[r].row.lines) \cup request[r].doomed :
              r \in {x \in Request : request[x] # Idle /\ request[x].claim = c}}

Replaced(lines, doomed, l, amount) ==
    [x \in LineList |-> IF x = l THEN amount ELSE IF x \in doomed THEN 0 ELSE lines[x]]

Replace(r, c) ==
    /\ Commit(r, c, "replace")
    /\ \E status \in ClaimStatus, l \in LineList \ ListsKnown(c), amount \in ClaimTotal :
          /\ ValidTransition(request[r].row.status, status)
          /\ \E total \in 1 .. amount :
                Write(c, claim[c], status, total,
                      Replaced(claim[c].lines, request[r].doomed, l, amount))

Delete(r, c) ==
    /\ Commit(r, c, "delete")
    /\ claim' = [claim EXCEPT ![c] = [NoClaim EXCEPT !.status = "DELETED"]]
    /\ UNCHANGED <<journal, control>>

(* voidExpenseClaim, by the status that it read: nothing to reverse, the   *)
(* claim, or the reimbursement and then the claim.  Its entries name no    *)
(* user, for which the mirror image has 'system', which the foreign key of *)
(* createdById may refuse: the transaction may fail, as any may (Abandon). *)
Reversals(c, row) ==
    (IF row.status = "PAID" THEN <<ReimbursementOf(c)>> ELSE << >>)
    \o (IF row.status \in {"APPROVED", "PAID"} THEN <<row.journalEntryId>> ELSE << >>)

Void(r, c) ==
    /\ Commit(r, c, "void")
    /\ LET entries == Reversals(c, request[r].row)
           reversed == Range(entries)
       IN  Book([e \in DOMAIN journal |->
                   IF e \in reversed THEN [journal[e] EXCEPT !.postingStatus = "VOIDED"]
                   ELSE journal[e]],
                [i \in DOMAIN entries |->
                   PostedEntry(journal[entries[i]].doc, 0 - journal[entries[i]].amount)])
    /\ claim' = [claim EXCEPT ![c].status = "VOIDED", ![c].postingStatus = "VOIDED"]

RequestStep(r, c) ==
    \/ Begin(r, c) \/ DeleteLines(r, c)
    \/ Submit(r, c) \/ Approve(r, c) \/ Reimburse(r, c)
    \/ Edit(r, c) \/ Replace(r, c) \/ Delete(r, c) \/ Void(r, c)

ClaimsNext ==
    \/ \E c \in Claim : CreateClaim(c) \/ \E r \in Request : RequestStep(r, c)
    \/ \E r \in Request : Abandon(r)

ClaimsSpec == ClaimsInit /\ [][ClaimsNext]_claimVars

-----------------------------------------------------------------------------
ClaimsTypeOK ==
    /\ claim \in [Claim -> [status : ClaimStatus \cup {"NONE", "DELETED"},
                            postingStatus : {"DRAFT", "POSTED", "VOIDED"},
                            total : {0} \cup ClaimTotal, lines : ClaimLines,
                            journalEntryId : {NoEntry} \cup DOMAIN journal]]
    /\ \A c \in Claim : claim[c].status \notin {"NONE", "DELETED"} =>
          ListsIn(claim[c].lines) # {}
    /\ outrun \subseteq Claim
    /\ \A r \in Request : request[r] # Idle => request[r].claim \in Claim

(* The entries that took an amount up, those that reverse one left out.    *)
Takes(d) ==
    {e \in DOMAIN journal :
        journal[e].doc = d /\ (journal[e].amount > 0 <=> d[2] = "claim")}

(* However requests overlap, a claim is posted once and reimbursed once:   *)
(* approving and reimbursing check the status before their transaction,    *)
(* and what saves them is what they look for after they wrote the row.     *)
PostedOnce == \A d \in Document : Cardinality(Takes(d)) <= 1

(* However requests overlap, nothing was reimbursed that was never owed,   *)
(* and no claim says it is approved or paid that was not posted.           *)
ReimbursedWasOwed ==
    \A c \in Claim :
       /\ Takes(PaidOut(c)) # {} => Takes(Owed(c)) # {}
       /\ claim[c].status = "APPROVED" => Takes(Owed(c)) # {}
       /\ claim[c].status = "PAID" => Takes(PaidOut(c)) # {}

(* The books agree with a claim, by its status, unless some transaction    *)
(* was outrun: committed on a row, or on lines, that were no longer those  *)
(* it had checked.  What is owed is what the lines now in the table post,  *)
(* what is paid out is the total now in the row, however often either was  *)
(* replaced before.                                                        *)
BooksFollowStatus ==
    \A c \in Claim \ outrun :
       /\ control[Owed(c)] =
             IF claim[c].status \in {"APPROVED", "PAID"} THEN LinesPost(claim[c].lines)
             ELSE 0
       /\ control[PaidOut(c)] =
             IF claim[c].status = "PAID" THEN 0 - claim[c].total ELSE 0
=============================================================================
