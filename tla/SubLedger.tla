------------------------------ MODULE SubLedger ------------------------------
(***************************************************************************)
(* What the documents of a ledger (invoices and payments; bills and their  *)
(* payments) do to the journal: createPostedJE of sub-ledger.service.ts    *)
(* and createReversingJE of gl-integration.ts, and how a document is       *)
(* linked to its entry.                                                    *)
(*                                                                         *)
(* A journal entry is reduced to the document it was made for, the amount  *)
(* it debits the control account (Accounts Receivable or Payable) with and *)
(* its status.  Every entry is created POSTED and moves the account's      *)
(* balance at that moment; a later change of its status moves nothing.     *)
(* `control' splits that balance by document.                              *)
(*                                                                         *)
(* That an entry balances, and what it does to the other accounts, is the  *)
(* subject of GeneralLedger.                                               *)
(***************************************************************************)
EXTENDS Integers, Sequences

CONSTANTS
    Document,    \* whatever posts to the control account
    MaxEntries   \* bound: the journal entries ever made

ASSUME MaxEntriesAssumption == MaxEntries \in Nat

VARIABLES
    journal,     \* the journal entries of these documents, in creation order
    control      \* the control account's balance, by document

(* A document's journalEntryId: the entry's place in the journal, or none. *)
NoEntry == 0

AlreadyPosted_Never(document) == FALSE
AlreadyPosted(document) == document.journalEntryId # NoEntry

NextEntry_OffByOne == Len(journal) + 2
NextEntry == Len(journal) + 1

JournalInit ==
    /\ journal = << >>
    /\ control = [d \in Document |-> 0]

PostedEntry(d, amount) ==
    [doc |-> d, amount |-> amount, postingStatus |-> "POSTED"]

(* createPostedJE.                                                         *)
CreatePosted(d, amount) ==
    /\ Len(journal) < MaxEntries
    /\ journal' = Append(journal, PostedEntry(d, amount))
    /\ control' = [control EXCEPT ![d] = @ + amount]

(* Post the mirror image of entry e and mark e VOIDED.                     *)
PostMirror(e) ==
    /\ Len(journal) < MaxEntries
    /\ journal' = Append([journal EXCEPT ![e].postingStatus = "VOIDED"],
                         PostedEntry(journal[e].doc, 0 - journal[e].amount))
    /\ control' = [control EXCEPT ![journal[e].doc] = @ - journal[e].amount]

(* createReversingJE throws for an entry that is VOIDED; the reversals of  *)
(* invoices and payments in the sub-ledger service do not ask.             *)
MayReverse(e) == journal[e].postingStatus # "VOIDED"

JournalTypeOK ==
    /\ journal \in Seq([doc : Document, amount : Int,
                        postingStatus : {"POSTED", "VOIDED"}])
    /\ control \in [Document -> Int]
=============================================================================
