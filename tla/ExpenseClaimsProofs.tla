------------------------- MODULE ExpenseClaimsProofs -------------------------
(***************************************************************************)
(* An expense claim is posted once and reimbursed once, and only what was  *)
(* owed is reimbursed, for any number of claims and of requests that       *)
(* overlap, whatever each of them read.  And the books say of a claim what *)
(* its status says, unless a request wrote over what it had not read.      *)
(***************************************************************************)
EXTENDS ExpenseClaims, SubLedgerProofs, FiniteSetTheorems

ClaimRow ==
    [status : ClaimStatus \cup {"NONE", "DELETED"},
     postingStatus : {"DRAFT", "POSTED", "VOIDED"},
     total : {0} \cup ClaimTotal,
     lines : ClaimLines,
     journalEntryId : Nat]

(* What the lines of a claim that there is can be.                         *)
LinesHeld == {lines \in ClaimLines : ListsIn(lines) # {}}

AtMostOne(S) == \A x, y \in S : x = y

(* No entry is of nothing: one either takes its document up or gives it up. *)
Booking == {x \in EntryRow : x.amount # 0}

JournalSound == journal \in Seq(Booking)

(* The link is what keeps a claim from being posted twice, so it has to be *)
(* exactly the entry that took the claim up, for as long as there is a row *)
(* to carry it; and a status that says there is an entry is true.          *)
ClaimSound(c) ==
    LET row == claim[c]
    IN  /\ row.status = "NONE" => ~AlreadyPosted(row)
        /\ row.status \notin {"NONE", "DELETED"} =>
              row.total \in ClaimTotal /\ row.lines \in LinesHeld
        /\ AlreadyPosted(row) => Takes(Owed(c)) = {row.journalEntryId}
        /\ ~AlreadyPosted(row) /\ row.status # "DELETED" => Takes(Owed(c)) = {}
        /\ AtMostOne(Takes(Owed(c))) /\ AtMostOne(Takes(PaidOut(c)))
        /\ Takes(PaidOut(c)) # {} => Takes(Owed(c)) # {}
        /\ row.status \in {"APPROVED", "PAID"} => Takes(Owed(c)) # {}
        /\ row.status = "PAID" => Takes(PaidOut(c)) # {}

RequestRow ==
    [op : {"submit", "approve", "reimburse", "edit", "replace", "delete", "void"},
     claim : Claim, row : ClaimRow, doomed : SUBSET LineList]

(* Of what a request has read, this stays true whatever others commit: the *)
(* claim was there, and the entries it was told of are in the journal.     *)
RequestSound(r) ==
    request[r] # Idle =>
       LET c == request[r].claim
           row == request[r].row
       IN  /\ request[r] \in RequestRow
           /\ row.total \in ClaimTotal /\ row.lines \in LinesHeld
           /\ claim[c].status # "NONE"
           /\ request[r].op = "reimburse" => row.status = "APPROVED"
           /\ row.status \in {"APPROVED", "PAID"} => Takes(Owed(c)) # {}
           /\ request[r].op = "void" =>
                 /\ row.status \in {"APPROVED", "PAID"} =>
                       row.journalEntryId \in Takes(Owed(c))
                 /\ row.status = "PAID" => Takes(PaidOut(c)) # {}

ClaimsInv ==
    /\ claim \in [Claim -> ClaimRow]
    /\ request = [r \in Request |-> request[r]]
    /\ outrun \subseteq Claim
    /\ JournalSound
    /\ \A c \in Claim : ClaimSound(c)
    /\ \A r \in Request : RequestSound(r)

-----------------------------------------------------------------------------
(* Lines that there are post something.                                    *)
LEMMA LinesPostPositive ==
    ASSUME NEW lines \in LinesHeld
    PROVE  LinesPost(lines) \in Int /\ LinesPost(lines) > 0
<1>0. LinesPost(lines) = Sum(lines, LineList)
  BY DEF LinesPost, Sum
<1>1. IsFiniteSet(LineList) /\ \A l \in LineList : lines[l] \in Nat
  BY ClaimsAssumption DEF LinesHeld, ClaimLines
<1>2. PICK l \in LineList : lines[l] > 0
  BY DEF LinesHeld, ListsIn
<1>3. Sum(lines, LineList) \in Nat /\ lines[l] <= Sum(lines, LineList)
  BY <1>1, SumIsNatural, SumBounds
<1>4. lines[l] \in Nat
  BY <1>1
<1> QED
  BY <1>0, <1>2, <1>3, <1>4

(* The lines that a new claim and an edit write.                           *)
LEMMA LinesWritten ==
    ASSUME NEW l \in LineList, NEW amount \in ClaimTotal
    PROVE  /\ NoLines \in ClaimLines
           /\ [NoLines EXCEPT ![l] = amount] \in LinesHeld
           /\ \A doomed : \A lines \in ClaimLines :
                 Replaced(lines, doomed, l, amount) \in LinesHeld
<1>1. amount \in 0 .. MaxClaimed /\ amount > 0 /\ 0 \in 0 .. MaxClaimed
  BY ClaimsAssumption DEF ClaimTotal
<1>2. NoLines \in ClaimLines
  BY <1>1 DEF NoLines, ClaimLines
<1>3. [NoLines EXCEPT ![l] = amount] \in LinesHeld
  BY <1>1, <1>2 DEF LinesHeld, ClaimLines, ListsIn
<1>4. ASSUME NEW lines \in ClaimLines, NEW doomed
      PROVE  Replaced(lines, doomed, l, amount) \in LinesHeld
  BY <1>1 DEF Replaced, LinesHeld, ClaimLines, ListsIn
<1> QED
  BY <1>2, <1>3, <1>4

(* The two documents of a claim are two, and no other claim's.             *)
LEMMA ClaimDocuments ==
    ASSUME NEW c \in Claim
    PROVE  /\ Owed(c) \in Document /\ PaidOut(c) \in Document
           /\ Owed(c) # PaidOut(c)
           /\ Owed(c)[2] = "claim" /\ PaidOut(c)[2] = "reimbursement"
           /\ \A x \in Claim \ {c} : /\ Owed(x) \notin {Owed(c), PaidOut(c)}
                                     /\ PaidOut(x) \notin {Owed(c), PaidOut(c)}
BY ClaimsAssumption DEF Owed, PaidOut

(* Looking for the entry of a reimbursement finds one that took it up.     *)
LEMMA ReimbursedTakes ==
    ASSUME JournalSound, NEW c \in Claim
    PROVE  /\ Reimbursed(c) <=> Takes(PaidOut(c)) # {}
           /\ Reimbursed(c) => /\ ReimbursementOf(c) \in DOMAIN journal
                               /\ journal[ReimbursementOf(c)].doc = PaidOut(c)
                               /\ journal[ReimbursementOf(c)].amount < 0
<1>0. \A e \in DOMAIN journal : journal[e] \in Booking
  BY DEF JournalSound
<1>1. \A e \in DOMAIN journal : journal[e].amount \in Int /\ journal[e].amount # 0
  BY <1>0 DEF Booking, EntryRow
<1>2. Takes(PaidOut(c)) =
         {e \in DOMAIN journal : journal[e].doc = PaidOut(c) /\ journal[e].amount < 0}
  BY <1>1, ClaimDocuments DEF Takes
<1>3. Reimbursed(c) <=> Takes(PaidOut(c)) # {}
  BY <1>2 DEF Reimbursed
<1>4. Reimbursed(c) => /\ ReimbursementOf(c) \in DOMAIN journal
                       /\ journal[ReimbursementOf(c)].doc = PaidOut(c)
                       /\ journal[ReimbursementOf(c)].amount < 0
  BY DEF Reimbursed, ReimbursementOf
<1> QED
  BY <1>3, <1>4

(* What a transaction adds to the entries that took d up, when it leaves   *)
(* the document and the amount of every entry there is alone.              *)
NewTakes(entries, d) ==
    {Len(journal) + i : i \in {j \in DOMAIN entries :
        entries[j].doc = d /\ (entries[j].amount > 0 <=> d[2] = "claim")}}

(* A transaction adds its entries to the journal and no others, each of    *)
(* them to the balance of its document.                                    *)
LEMMA BookWrites ==
    ASSUME JournalSound,
           NEW kept \in Seq(Booking), Len(kept) = Len(journal),
           \A e \in DOMAIN journal : /\ kept[e].doc = journal[e].doc
                                     /\ kept[e].amount = journal[e].amount,
           NEW entries \in Seq(Booking),
           Book(kept, entries)
    PROVE  /\ JournalSound'
           /\ \A e \in DOMAIN journal : /\ e \in DOMAIN journal'
                                         /\ journal'[e].doc = journal[e].doc
                                         /\ journal'[e].amount = journal[e].amount
           /\ \A i \in DOMAIN entries : /\ Len(journal) + i \in DOMAIN journal'
                                         /\ journal'[Len(journal) + i] = entries[i]
           /\ \A e \in DOMAIN journal' \ DOMAIN journal :
                 \E i \in DOMAIN entries : e = Len(journal) + i
           /\ \A d \in Document : control'[d] = control[d] + Booked(entries, d)
<1>1. /\ kept \in Seq(Booking) /\ entries \in Seq(Booking) /\ journal \in Seq(Booking)
      /\ journal' = kept \o entries
  BY DEF Book, JournalSound
<1>2. /\ journal' \in Seq(Booking)
      /\ Len(journal') = Len(journal) + Len(entries)
      /\ \A i \in 1 .. Len(kept) + Len(entries) :
            journal'[i] = IF i <= Len(kept) THEN kept[i] ELSE entries[i - Len(kept)]
  <2>1. kept \o entries \in Seq(Booking)
    BY <1>1
  <2>2. Len(kept \o entries) = Len(kept) + Len(entries)
    BY <1>1
  <2>3. \A i \in 1 .. Len(kept) + Len(entries) :
           (kept \o entries)[i] =
              IF i <= Len(kept) THEN kept[i] ELSE entries[i - Len(kept)]
    BY <1>1
  <2> QED
    BY <1>1, <2>1, <2>2, <2>3
<1>3. /\ DOMAIN journal' = 1 .. Len(journal') /\ DOMAIN journal = 1 .. Len(journal)
      /\ DOMAIN entries = 1 .. Len(entries)
      /\ Len(journal) \in Nat /\ Len(entries) \in Nat
  BY <1>1, <1>2
<1>4. ASSUME NEW e \in DOMAIN journal
      PROVE  /\ e \in DOMAIN journal'
             /\ journal'[e].doc = journal[e].doc
             /\ journal'[e].amount = journal[e].amount
  BY <1>2, <1>3
<1>5. ASSUME NEW i \in DOMAIN entries
      PROVE  /\ Len(journal) + i \in DOMAIN journal'
             /\ journal'[Len(journal) + i] = entries[i]
  <2>1. /\ Len(journal) + i \in 1 .. Len(journal')
        /\ ~(Len(journal) + i <= Len(kept))
        /\ (Len(journal) + i) - Len(kept) = i
    BY <1>2, <1>3
  <2> QED
    BY <1>2, <1>3, <2>1
<1>6. ASSUME NEW e \in DOMAIN journal', e \notin DOMAIN journal
      PROVE  \E i \in DOMAIN entries : e = Len(journal) + i
  <2>1. e - Len(journal) \in DOMAIN entries /\ e = Len(journal) + (e - Len(journal))
    BY <1>2, <1>3, <1>6
  <2> QED
    BY <2>1
<1>7. \A d \in Document : control'[d] = control[d] + Booked(entries, d)
  BY DEF Book
<1> QED
  BY <1>2, <1>4, <1>5, <1>6, <1>7 DEF JournalSound

(* What took a document up still does, and what takes it up now is new.    *)
LEMMA BookTakes ==
    ASSUME JournalSound,
           NEW kept \in Seq(Booking), Len(kept) = Len(journal),
           \A e \in DOMAIN journal : /\ kept[e].doc = journal[e].doc
                                     /\ kept[e].amount = journal[e].amount,
           NEW entries \in Seq(Booking),
           Book(kept, entries)
    PROVE  /\ JournalSound'
           /\ DOMAIN journal \subseteq DOMAIN journal'
           /\ \A d \in Document : Takes(d)' = Takes(d) \cup NewTakes(entries, d)
<1>1. ASSUME NEW d \in Document PROVE Takes(d)' = Takes(d) \cup NewTakes(entries, d)
  BY BookWrites DEF Takes, NewTakes
<1> QED
  BY <1>1, BookWrites

(* One list after another, each of one element or none.                    *)
LEMMA TwoAtMost ==
    ASSUME NEW S, NEW a, NEW b, NEW p \in BOOLEAN, NEW q \in BOOLEAN,
           p => a \in S, q => b \in S,
           NEW s, s = (IF p THEN <<a>> ELSE << >>) \o (IF q THEN <<b>> ELSE << >>)
    PROVE  /\ s \in Seq(S)
           /\ p /\ q => DOMAIN s = {1, 2} /\ s[1] = a /\ s[2] = b
           /\ p /\ ~q => DOMAIN s = {1} /\ s[1] = a
           /\ ~p /\ q => DOMAIN s = {1} /\ s[1] = b
           /\ ~p /\ ~q => DOMAIN s = {}
<1> DEFINE u == IF p THEN <<a>> ELSE << >>
           v == IF q THEN <<b>> ELSE << >>
<1>1. /\ u \in Seq(S)
      /\ p => Len(u) = 1 /\ u[1] = a
      /\ ~p => Len(u) = 0
  <2>1. CASE p
    BY <2>1
  <2>2. CASE ~p
    BY <2>2
  <2> QED
    BY <2>1, <2>2
<1>2. /\ v \in Seq(S)
      /\ q => Len(v) = 1 /\ v[1] = b
      /\ ~q => Len(v) = 0
  <2>1. CASE q
    BY <2>1
  <2>2. CASE ~q
    BY <2>2
  <2> QED
    BY <2>1, <2>2
<1>3. s = u \o v
  OBVIOUS
<1> HIDE DEF u, v
<1>4. /\ s \in Seq(S)
      /\ Len(s) = Len(u) + Len(v)
      /\ \A i \in 1 .. Len(u) + Len(v) :
            s[i] = IF i <= Len(u) THEN u[i] ELSE v[i - Len(u)]
  BY <1>1, <1>2, <1>3
<1>5. DOMAIN s = 1 .. Len(s)
  BY <1>4
<1>6. CASE p /\ q
  BY <1>1, <1>2, <1>4, <1>5, <1>6
<1>7. CASE p /\ ~q
  BY <1>1, <1>2, <1>4, <1>5, <1>7
<1>8. CASE ~p /\ q
  BY <1>1, <1>2, <1>4, <1>5, <1>8
<1>9. CASE ~p /\ ~q
  BY <1>1, <1>2, <1>4, <1>5, <1>9
<1> QED
  BY <1>4, <1>6, <1>7, <1>8, <1>9

-----------------------------------------------------------------------------
(* What a step of claim c leaves alone: the entries that took another      *)
(* claim up, the rows of the others; and nothing is ever un-taken.         *)
OthersKept(c) ==
    \A x \in Claim \ {c} : /\ claim'[x] = claim[x]
                           /\ Takes(Owed(x))' = Takes(Owed(x))
                           /\ Takes(PaidOut(x))' = Takes(PaidOut(x))

(* Posting takes a claim up if its row has no link, and pays it out if     *)
(* there is no entry of that yet; it adds no other entry.                  *)
LEMMA PostTakes ==
    ASSUME JournalSound, claim \in [Claim -> ClaimRow],
           NEW c \in Claim, NEW row \in ClaimRow,
           NEW lines \in LinesHeld, NEW total \in ClaimTotal, NEW asked,
           Post(c, row, lines, total, asked)
    PROVE  /\ JournalSound' /\ OthersKept(c)
           /\ claim' \in [Claim -> ClaimRow]
           /\ "claim" \in asked /\ ~AlreadyPosted(row) =>
                 /\ claim'[c] = [row EXCEPT !.journalEntryId = NextEntry,
                                            !.postingStatus = "POSTED"]
                 /\ Takes(Owed(c))' = Takes(Owed(c)) \cup {NextEntry}
           /\ ~("claim" \in asked /\ ~AlreadyPosted(row)) =>
                 claim'[c] = row /\ Takes(Owed(c))' = Takes(Owed(c))
           /\ "reimbursement" \in asked /\ ~Reimbursed(c) =>
                 \E e : Takes(PaidOut(c))' = Takes(PaidOut(c)) \cup {e}
           /\ ~("reimbursement" \in asked /\ ~Reimbursed(c)) =>
                 Takes(PaidOut(c))' = Takes(PaidOut(c))
<1> DEFINE claimDue == "claim" \in asked /\ ~AlreadyPosted(row)
           payDue == "reimbursement" \in asked /\ ~Reimbursed(c)
           owed == PostedEntry(Owed(c), LinesPost(lines))
           paid == PostedEntry(PaidOut(c), 0 - total)
           entries == (IF claimDue THEN <<owed>> ELSE << >>) \o
                      (IF payDue THEN <<paid>> ELSE << >>)
<1>1. /\ claimDue \in BOOLEAN /\ payDue \in BOOLEAN
  BY DEF Reimbursed, AlreadyPosted
<1>2. /\ LinesPost(lines) \in Int /\ LinesPost(lines) > 0
      /\ 0 - total \in Int /\ ~(0 - total > 0) /\ 0 - total # 0
  BY LinesPostPositive, ClaimsAssumption DEF ClaimTotal
<1>3. /\ owed \in Booking /\ paid \in Booking
      /\ owed.doc = Owed(c) /\ owed.amount > 0
      /\ paid.doc = PaidOut(c) /\ ~(paid.amount > 0)
  BY <1>2, ClaimDocuments DEF PostedEntry, Booking, EntryRow
<1>4. Book(journal, entries)
  BY DEF Post
<1>5. claim' = [claim EXCEPT ![c] =
         IF claimDue THEN [row EXCEPT !.journalEntryId = NextEntry,
                                      !.postingStatus = "POSTED"]
         ELSE row]
  BY DEF Post
<1>6. /\ entries \in Seq(Booking)
      /\ claimDue /\ payDue =>
            DOMAIN entries = {1, 2} /\ entries[1] = owed /\ entries[2] = paid
      /\ claimDue /\ ~payDue => DOMAIN entries = {1} /\ entries[1] = owed
      /\ ~claimDue /\ payDue => DOMAIN entries = {1} /\ entries[1] = paid
      /\ ~claimDue /\ ~payDue => DOMAIN entries = {}
  <2> HIDE DEF claimDue, payDue, owed, paid
  <2>1. owed \in Booking /\ paid \in Booking
    BY <1>3
  <2> QED
    BY <1>1, <2>1, TwoAtMost
<1> HIDE DEF claimDue, payDue, owed, paid, entries
<1>7. /\ JournalSound'
      /\ \A d \in Document : Takes(d)' = Takes(d) \cup NewTakes(entries, d)
  BY <1>4, <1>6, BookTakes DEF JournalSound
<1>8. Len(journal) \in Nat
  BY DEF JournalSound
<1>9. /\ NewTakes(entries, Owed(c)) = IF claimDue THEN {NextEntry} ELSE {}
      /\ payDue => \E e : NewTakes(entries, PaidOut(c)) = {e}
      /\ ~payDue => NewTakes(entries, PaidOut(c)) = {}
      /\ \A d \in Document \ {Owed(c), PaidOut(c)} : NewTakes(entries, d) = {}
  <2>1. CASE claimDue /\ payDue
    <3>1. /\ NewTakes(entries, Owed(c)) = {Len(journal) + 1}
          /\ NewTakes(entries, PaidOut(c)) = {Len(journal) + 2}
          /\ \A d \in Document \ {Owed(c), PaidOut(c)} : NewTakes(entries, d) = {}
      BY <1>3, <1>6, <2>1, ClaimDocuments DEF NewTakes
    <3> QED
      BY <2>1, <3>1 DEF NextEntry
  <2>2. CASE claimDue /\ ~payDue
    <3>1. /\ NewTakes(entries, Owed(c)) = {Len(journal) + 1}
          /\ NewTakes(entries, PaidOut(c)) = {}
          /\ \A d \in Document \ {Owed(c), PaidOut(c)} : NewTakes(entries, d) = {}
      BY <1>3, <1>6, <2>2, ClaimDocuments DEF NewTakes
    <3> QED
      BY <2>2, <3>1 DEF NextEntry
  <2>3. CASE ~claimDue /\ payDue
    <3>1. /\ NewTakes(entries, Owed(c)) = {}
          /\ NewTakes(entries, PaidOut(c)) = {Len(journal) + 1}
          /\ \A d \in Document \ {Owed(c), PaidOut(c)} : NewTakes(entries, d) = {}
      BY <1>3, <1>6, <2>3, ClaimDocuments DEF NewTakes
    <3> QED
      BY <2>3, <3>1
  <2>4. CASE ~claimDue /\ ~payDue
    BY <1>6, <2>4 DEF NewTakes
  <2> QED
    BY <1>1, <2>1, <2>2, <2>3, <2>4
<1>10. \A x \in Claim \ {c} : /\ Takes(Owed(x))' = Takes(Owed(x))
                              /\ Takes(PaidOut(x))' = Takes(PaidOut(x))
  <2> SUFFICES ASSUME NEW x \in Claim \ {c}
               PROVE  /\ Takes(Owed(x))' = Takes(Owed(x))
                      /\ Takes(PaidOut(x))' = Takes(PaidOut(x))
    OBVIOUS
  <2>1. /\ Owed(x) \in Document \ {Owed(c), PaidOut(c)}
        /\ PaidOut(x) \in Document \ {Owed(c), PaidOut(c)}
    BY ClaimDocuments
  <2>2. /\ Takes(Owed(x))' = Takes(Owed(x)) \cup NewTakes(entries, Owed(x))
        /\ Takes(PaidOut(x))' = Takes(PaidOut(x)) \cup NewTakes(entries, PaidOut(x))
    BY <1>7, <2>1
  <2>3. NewTakes(entries, Owed(x)) = {} /\ NewTakes(entries, PaidOut(x)) = {}
    BY <1>9, <2>1
  <2> QED
    BY <2>2, <2>3
<1>11. /\ claim' \in [Claim -> ClaimRow]
       /\ \A x \in Claim \ {c} : claim'[x] = claim[x]
       /\ claim'[c] = IF claimDue THEN [row EXCEPT !.journalEntryId = NextEntry,
                                                   !.postingStatus = "POSTED"]
                      ELSE row
  <2> DEFINE written == IF claimDue THEN [row EXCEPT !.journalEntryId = NextEntry,
                                                     !.postingStatus = "POSTED"]
                        ELSE row
  <2>1. written \in ClaimRow
    <3>1. [row EXCEPT !.journalEntryId = NextEntry, !.postingStatus = "POSTED"] \in ClaimRow
      <4>1. NextEntry \in Nat
        BY <1>8 DEF NextEntry
      <4> QED
        BY <4>1 DEF ClaimRow
    <3> QED
      BY <1>1, <3>1
  <2>2. claim' = [claim EXCEPT ![c] = written]
    BY <1>5
  <2> HIDE DEF written
  <2>3. /\ claim' \in [Claim -> ClaimRow] /\ claim'[c] = written
        /\ \A x \in Claim \ {c} : claim'[x] = claim[x]
    BY <2>1, <2>2
  <2> QED
    BY <2>3 DEF written
<1>12. /\ Takes(Owed(c))' = IF claimDue THEN Takes(Owed(c)) \cup {NextEntry}
                            ELSE Takes(Owed(c))
       /\ payDue => \E e : Takes(PaidOut(c))' = Takes(PaidOut(c)) \cup {e}
       /\ ~payDue => Takes(PaidOut(c))' = Takes(PaidOut(c))
  <2>1. /\ Takes(Owed(c))' = Takes(Owed(c)) \cup NewTakes(entries, Owed(c))
        /\ Takes(PaidOut(c))' = Takes(PaidOut(c)) \cup NewTakes(entries, PaidOut(c))
    <3>1. Owed(c) \in Document /\ PaidOut(c) \in Document
      BY ClaimDocuments
    <3> QED
      BY <1>7, <3>1
  <2> QED
    BY <1>1, <1>9, <2>1
<1> QED
  BY <1>1, <1>7, <1>10, <1>11, <1>12 DEF OthersKept, claimDue, payDue

-----------------------------------------------------------------------------
(* Other claims are as sound as they were.                                 *)
LEMMA OthersSound ==
    ASSUME ClaimsInv, NEW c \in Claim, OthersKept(c), NEW x \in Claim \ {c}
    PROVE  ClaimSound(x)'
<1>1. ClaimSound(x)
  BY DEF ClaimsInv
<1>2. /\ claim'[x] = claim[x]
      /\ Takes(Owed(x))' = Takes(Owed(x))
      /\ Takes(PaidOut(x))' = Takes(PaidOut(x))
  BY DEF OthersKept
<1> QED
  BY <1>1, <1>2 DEF ClaimSound, AlreadyPosted, AtMostOne

(* What a step of c may do to the requests, and to the entries of c.       *)
RequestsEnd ==
    /\ request' = [r \in Request |-> request'[r]]
    /\ \A r \in Request : request'[r] = request[r] \/ request'[r] = Idle

EntriesStay(c) ==
    /\ Takes(Owed(c)) \subseteq Takes(Owed(c))'
    /\ Takes(PaidOut(c)) \subseteq Takes(PaidOut(c))'

(* What the requests under way were told stays true.                       *)
LEMMA RequestsSound ==
    ASSUME ClaimsInv, NEW c \in Claim, OthersKept(c), EntriesStay(c),
           RequestsEnd, claim'[c].status # "NONE", NEW r \in Request
    PROVE  RequestSound(r)'
<1>1. RequestSound(r)
  BY DEF ClaimsInv
<1>2. CASE request'[r] = Idle
  BY <1>2 DEF RequestSound, Idle
<1>3. CASE request'[r] = request[r]
  <2> SUFFICES ASSUME request[r] # Idle PROVE RequestSound(r)'
    BY <1>3 DEF RequestSound
  <2>1. PICK x \in Claim : x = request[r].claim /\ claim[x].status # "NONE"
    BY <1>1 DEF RequestSound, RequestRow
  <2>2. /\ claim'[x].status # "NONE"
        /\ Takes(Owed(x)) \subseteq Takes(Owed(x))'
        /\ Takes(PaidOut(x)) \subseteq Takes(PaidOut(x))'
    <3>1. CASE x = c
      BY <3>1 DEF EntriesStay
    <3>2. CASE x # c
      BY <2>1, <3>2 DEF OthersKept
    <3> QED
      BY <3>1, <3>2
  <2> QED
    BY <1>1, <1>3, <2>1, <2>2 DEF RequestSound
<1> QED
  BY <1>2, <1>3 DEF RequestsEnd

(* What remains to be shown of a step of c.                                *)
LEMMA ClaimKeeps ==
    ASSUME ClaimsInv, NEW c \in Claim,
           claim' \in [Claim -> ClaimRow], JournalSound', outrun' \subseteq Claim,
           OthersKept(c), EntriesStay(c), RequestsEnd,
           claim'[c].status # "NONE", ClaimSound(c)'
    PROVE  ClaimsInv'
<1>1. \A x \in Claim : ClaimSound(x)'
  BY OthersSound
<1>2. \A r \in Request : RequestSound(r)'
  BY RequestsSound
<1>3. request' = [r \in Request |-> request'[r]]
  BY DEF RequestsEnd
<1> QED
  BY <1>1, <1>2, <1>3 DEF ClaimsInv

(* A step of c that leaves the journal alone.                              *)
LEMMA WritingKeeps ==
    ASSUME ClaimsInv, NEW c \in Claim, NEW row \in ClaimRow,
           claim' = [claim EXCEPT ![c] = row], UNCHANGED journal,
           outrun' \subseteq Claim, RequestsEnd,
           row.status \notin {"NONE", "APPROVED", "PAID"},
           row.status # "DELETED" =>
              /\ claim[c].status # "DELETED"
              /\ row.total \in ClaimTotal /\ row.lines \in LinesHeld
              /\ row.journalEntryId = claim[c].journalEntryId,
           row.status = "DELETED" => ~AlreadyPosted(row)
    PROVE  ClaimsInv'
<1>1. ClaimSound(c) /\ JournalSound /\ claim \in [Claim -> ClaimRow]
  BY DEF ClaimsInv
<1>2. /\ claim' \in [Claim -> ClaimRow] /\ claim'[c] = row
      /\ \A x \in Claim \ {c} : claim'[x] = claim[x]
  BY <1>1
<1>3. /\ JournalSound'
      /\ \A d : Takes(d)' = Takes(d)
  BY <1>1 DEF JournalSound, Takes
<1>4. OthersKept(c) /\ EntriesStay(c)
  BY <1>2, <1>3 DEF OthersKept, EntriesStay
<1>5. Takes(Owed(c))' = Takes(Owed(c)) /\ Takes(PaidOut(c))' = Takes(PaidOut(c))
  BY <1>3
<1>6. ClaimSound(c)'
  BY <1>1, <1>2, <1>5 DEF ClaimSound, AlreadyPosted, AtMostOne
<1> QED
  BY <1>2, <1>3, <1>4, <1>6, ClaimKeeps

(* A step of c that posts: the row keeps its link, what it says of itself  *)
(* is posted now or was before, and only what is owed is paid.             *)
LEMMA PostKeeps ==
    ASSUME ClaimsInv, NEW c \in Claim, NEW row \in ClaimRow,
           NEW lines \in LinesHeld, NEW total \in ClaimTotal, NEW asked,
           Post(c, row, lines, total, asked),
           outrun' \subseteq Claim, RequestsEnd,
           claim[c].status # "DELETED",
           row.status \notin {"NONE", "DELETED"},
           row.total \in ClaimTotal, row.lines \in LinesHeld,
           row.journalEntryId = claim[c].journalEntryId,
           "reimbursement" \in asked \/ row.status \in {"APPROVED", "PAID"} =>
              "claim" \in asked \/ Takes(Owed(c)) # {},
           row.status = "PAID" => "reimbursement" \in asked
    PROVE  ClaimsInv'
<1>1. ClaimSound(c) /\ JournalSound /\ claim \in [Claim -> ClaimRow]
  BY DEF ClaimsInv
<1>2. /\ JournalSound' /\ OthersKept(c)
      /\ claim' \in [Claim -> ClaimRow]
      /\ "claim" \in asked /\ ~AlreadyPosted(row) =>
            /\ claim'[c] = [row EXCEPT !.journalEntryId = NextEntry,
                                       !.postingStatus = "POSTED"]
            /\ Takes(Owed(c))' = Takes(Owed(c)) \cup {NextEntry}
      /\ ~("claim" \in asked /\ ~AlreadyPosted(row)) =>
            claim'[c] = row /\ Takes(Owed(c))' = Takes(Owed(c))
      /\ "reimbursement" \in asked /\ ~Reimbursed(c) =>
            \E e : Takes(PaidOut(c))' = Takes(PaidOut(c)) \cup {e}
      /\ ~("reimbursement" \in asked /\ ~Reimbursed(c)) =>
            Takes(PaidOut(c))' = Takes(PaidOut(c))
  BY <1>1, PostTakes
<1> DEFINE due == "claim" \in asked /\ ~AlreadyPosted(row)
<1>3. AlreadyPosted(row) <=> AlreadyPosted(claim[c])
  BY DEF AlreadyPosted
<1>4. Reimbursed(c) <=> Takes(PaidOut(c)) # {}
  BY <1>1, ReimbursedTakes
<1>5. EntriesStay(c)
  BY <1>2 DEF EntriesStay
<1>6. /\ AtMostOne(Takes(PaidOut(c)))'
      /\ "reimbursement" \in asked => Takes(PaidOut(c))' # {}
      /\ "reimbursement" \notin asked => Takes(PaidOut(c))' = Takes(PaidOut(c))
  <2>1. AtMostOne(Takes(PaidOut(c)))
    BY <1>1 DEF ClaimSound
  <2>2. CASE "reimbursement" \in asked /\ ~Reimbursed(c)
    BY <1>2, <1>4, <2>2 DEF AtMostOne
  <2>3. CASE ~("reimbursement" \in asked /\ ~Reimbursed(c))
    BY <1>2, <1>4, <2>1, <2>3 DEF AtMostOne
  <2> QED
    BY <2>2, <2>3
<1>7. /\ claim'[c].status = row.status /\ claim'[c].total = row.total
      /\ claim'[c].lines = row.lines
      /\ due => claim'[c].journalEntryId = NextEntry
      /\ ~due => claim'[c].journalEntryId = row.journalEntryId
  BY <1>2 DEF ClaimRow
<1>8. NextEntry # NoEntry
  BY <1>1 DEF JournalSound, NextEntry, NoEntry
<1> HIDE DEF due
<1>9. /\ AlreadyPosted(claim'[c]) => Takes(Owed(c))' = {claim'[c].journalEntryId}
      /\ ~AlreadyPosted(claim'[c]) => Takes(Owed(c))' = {}
  <2>1. CASE due
    <3>1. ~AlreadyPosted(claim[c])
      BY <1>3, <2>1 DEF due
    <3>2. Takes(Owed(c)) = {}
      BY <1>1, <3>1 DEF ClaimSound
    <3> QED
      BY <1>2, <1>7, <1>8, <2>1, <3>2 DEF due, AlreadyPosted
  <2>2. CASE ~due
    BY <1>1, <1>2, <1>3, <1>7, <2>2 DEF due, ClaimSound, AlreadyPosted
  <2> QED
    BY <2>1, <2>2
<1>10. "claim" \in asked => Takes(Owed(c))' # {}
  <2>1. CASE due
    BY <1>2, <2>1 DEF due
  <2>2. CASE "claim" \in asked /\ ~due
    BY <1>1, <1>2, <1>3, <2>2 DEF due, ClaimSound
  <2> QED
    BY <2>1, <2>2
<1>11. AtMostOne(Takes(Owed(c)))'
  BY <1>9 DEF AtMostOne
<1>12. Takes(PaidOut(c))' # {} => Takes(Owed(c))' # {}
  <2>1. CASE "reimbursement" \in asked
    BY <1>5, <1>10, <2>1 DEF EntriesStay
  <2>2. CASE "reimbursement" \notin asked
    BY <1>1, <1>5, <1>6, <2>2 DEF EntriesStay, ClaimSound
  <2> QED
    BY <2>1, <2>2
<1>13. row.status \in {"APPROVED", "PAID"} => Takes(Owed(c))' # {}
  BY <1>5, <1>10 DEF EntriesStay
<1>14. ClaimSound(c)'
  BY <1>6, <1>7, <1>9, <1>11, <1>12, <1>13 DEF ClaimSound, AlreadyPosted
<1> QED
  BY <1>2, <1>5, <1>7, <1>14, ClaimKeeps

(* What a commit has in common, and what its request has read.             *)
LEMMA CommitFacts ==
    ASSUME ClaimsInv, NEW r \in Request, NEW c \in Claim, NEW op,
           Commit(r, c, op)
    PROVE  /\ outrun' \subseteq Claim /\ RequestsEnd
           /\ claim[c] \in ClaimRow /\ claim[c].status \notin {"NONE", "DELETED"}
           /\ claim[c].total \in ClaimTotal /\ claim[c].lines \in LinesHeld
           /\ request[r].row \in ClaimRow
           /\ request[r].row.total \in ClaimTotal /\ request[r].row.lines \in LinesHeld
           /\ op = "reimburse" => Takes(Owed(c)) # {}
           /\ op = "void" =>
                 /\ request[r].row.status \in {"APPROVED", "PAID"} =>
                       request[r].row.journalEntryId \in Takes(Owed(c))
                 /\ request[r].row.status = "PAID" => Takes(PaidOut(c)) # {}
<1>1. /\ RequestSound(r) /\ request[r] # Idle
      /\ request[r].op = op /\ request[r].claim = c
      /\ request = [s \in Request |-> request[s]]
      /\ outrun \subseteq Claim /\ claim \in [Claim -> ClaimRow]
  BY DEF ClaimsInv, Commit
<1>2. outrun' \subseteq Claim
  BY <1>1 DEF Commit
<1>3. request' = [request EXCEPT ![r] = Idle]
  BY DEF Commit
<1>4. RequestsEnd
  BY <1>1, <1>3 DEF RequestsEnd
<1>5. claim[c].status \notin {"NONE", "DELETED"}
  BY <1>1 DEF Commit, RequestSound
<1>6. claim[c].total \in ClaimTotal /\ claim[c].lines \in LinesHeld
  BY <1>5 DEF ClaimsInv, ClaimSound
<1> QED
  BY <1>1, <1>2, <1>4, <1>5, <1>6 DEF RequestSound, RequestRow

(* What took claim c up or paid it out; the mirror images of some entries, *)
(* and the journal with them marked as reversed.                           *)
TakenBy(c) ==
    {e \in DOMAIN journal :
        \/ journal[e].doc = PaidOut(c) /\ journal[e].amount < 0
        \/ journal[e].doc = Owed(c) /\ journal[e].amount > 0}

Mirrors(entries) ==
    [i \in DOMAIN entries |->
        PostedEntry(journal[entries[i]].doc, 0 - journal[entries[i]].amount)]

Marked(entries) ==
    [e \in DOMAIN journal |->
        IF e \in Range(entries) THEN [journal[e] EXCEPT !.postingStatus = "VOIDED"]
        ELSE journal[e]]

(* A void reverses entries that took up what it has read, and marks them.  *)
LEMMA VoidWrites ==
    ASSUME ClaimsInv, NEW r \in Request, NEW c \in Claim, Void(r, c),
           NEW entries, entries = Reversals(c, request[r].row)
    PROVE  /\ entries \in Seq(TakenBy(c))
           /\ Marked(entries) \in Seq(Booking) /\ Len(Marked(entries)) = Len(journal)
           /\ \A e \in DOMAIN journal : /\ Marked(entries)[e].doc = journal[e].doc
                                         /\ Marked(entries)[e].amount = journal[e].amount
           /\ Mirrors(entries) \in Seq(Booking)
           /\ Book(Marked(entries), Mirrors(entries))
<1> DEFINE read == request[r].row
           paid == ReimbursementOf(c)
           owed == read.journalEntryId
<1>1. /\ read.status \in {"APPROVED", "PAID"} => owed \in Takes(Owed(c))
      /\ read.status = "PAID" => Takes(PaidOut(c)) # {}
  BY CommitFacts DEF Void
<1>2. JournalSound /\ journal \in Seq(Booking)
  BY DEF ClaimsInv, JournalSound
<1>3. Book(Marked(entries), Mirrors(entries))
  BY DEF Void, Marked, Mirrors
<1>4. \A e \in DOMAIN journal : journal[e] \in Booking
  BY <1>2
<1>5. read.status = "PAID" => paid \in TakenBy(c)
  BY <1>1, <1>2, ReimbursedTakes DEF TakenBy
<1>6. read.status \in {"APPROVED", "PAID"} => owed \in TakenBy(c)
  BY <1>1, ClaimDocuments DEF Takes, TakenBy
<1>7. entries \in Seq(TakenBy(c))
  <2> DEFINE p == read.status = "PAID"
             q == read.status \in {"APPROVED", "PAID"}
  <2>1. /\ p \in BOOLEAN /\ q \in BOOLEAN
        /\ p => paid \in TakenBy(c)
        /\ q => owed \in TakenBy(c)
    BY <1>5, <1>6
  <2>2. entries = (IF p THEN <<paid>> ELSE << >>) \o (IF q THEN <<owed>> ELSE << >>)
    BY DEF Reversals
  <2> HIDE DEF p, q, paid, owed
  <2> QED
    BY <2>1, <2>2, TwoAtMost
<1> DEFINE kept == Marked(entries)
           mirrors == Mirrors(entries)
<1>8. /\ kept \in Seq(Booking) /\ Len(kept) = Len(journal)
      /\ \A e \in DOMAIN journal : /\ kept[e].doc = journal[e].doc
                                    /\ kept[e].amount = journal[e].amount
  <2>1. \A e \in DOMAIN journal : /\ kept[e] \in Booking
                                   /\ kept[e].doc = journal[e].doc
                                   /\ kept[e].amount = journal[e].amount
    <3> TAKE e \in DOMAIN journal
    <3> DEFINE marked == [journal[e] EXCEPT !.postingStatus = "VOIDED"]
    <3>1. kept[e] = marked \/ kept[e] = journal[e]
      BY DEF Marked
    <3>2. /\ journal[e] \in Booking /\ marked \in Booking
          /\ marked.doc = journal[e].doc /\ marked.amount = journal[e].amount
      BY <1>4 DEF Booking, EntryRow
    <3> HIDE DEF kept, marked
    <3> QED
      BY <3>1, <3>2
  <2>2. /\ DOMAIN kept = 1 .. Len(journal) /\ DOMAIN journal = 1 .. Len(journal)
        /\ Len(journal) \in Nat
    BY <1>2 DEF Marked
  <2>3. kept = [e \in 1 .. Len(journal) |-> kept[e]]
    BY <2>2 DEF Marked
  <2> HIDE DEF kept
  <2>4. kept \in [1 .. Len(journal) -> Booking]
    BY <2>1, <2>2, <2>3
  <2>5. kept \in Seq(Booking)
    BY <2>2, <2>4
  <2>6. Len(kept) = Len(journal)
    BY <2>2, <2>5
  <2> QED
    BY <2>1, <2>5, <2>6
<1>9. mirrors \in Seq(Booking)
  <2>1. ASSUME NEW i \in DOMAIN entries PROVE mirrors[i] \in Booking
    <3>1. PICK e \in DOMAIN journal : e = entries[i] /\ journal[e] \in Booking
      BY <1>4, <1>7 DEF TakenBy
    <3>2. mirrors[i] = PostedEntry(journal[e].doc, 0 - journal[e].amount)
      BY <3>1 DEF Mirrors
    <3> HIDE DEF mirrors
    <3> QED
      BY <3>1, <3>2 DEF PostedEntry, Booking, EntryRow
  <2>2. /\ DOMAIN mirrors = 1 .. Len(entries) /\ DOMAIN entries = 1 .. Len(entries)
        /\ Len(entries) \in Nat
    BY <1>7 DEF Mirrors
  <2>3. mirrors = [i \in 1 .. Len(entries) |-> mirrors[i]]
    BY <2>2 DEF Mirrors
  <2> HIDE DEF mirrors
  <2> QED
    BY <2>1, <2>2, <2>3
<1> QED
  BY <1>3, <1>7, <1>8, <1>9

(* The mirror image of an entry is of its document and of minus its amount.*)
LEMMA MirrorOf ==
    ASSUME JournalSound, NEW c \in Claim, NEW entries \in Seq(TakenBy(c)),
           NEW i \in DOMAIN entries
    PROVE  /\ entries[i] \in TakenBy(c) /\ i \in DOMAIN Mirrors(entries)
           /\ journal[entries[i]].amount \in Int
           /\ Mirrors(entries)[i].doc = journal[entries[i]].doc
           /\ Mirrors(entries)[i].amount = 0 - journal[entries[i]].amount
<1>1. entries[i] \in TakenBy(c)
  OBVIOUS
<1>2. journal[entries[i]] \in Booking
  BY <1>1 DEF JournalSound, TakenBy
<1>3. Mirrors(entries)[i] =
         PostedEntry(journal[entries[i]].doc, 0 - journal[entries[i]].amount)
  BY DEF Mirrors
<1> QED
  BY <1>1, <1>2, <1>3 DEF PostedEntry, Booking, EntryRow, Mirrors

(* The reversals of a void are of entries that took the claim up, so none  *)
(* of them does: nothing is posted again.                                  *)
LEMMA VoidKeeps ==
    ASSUME ClaimsInv, NEW r \in Request, NEW c \in Claim, Void(r, c)
    PROVE  ClaimsInv' /\ OthersKept(c)
<1> DEFINE row == [claim[c] EXCEPT !.status = "VOIDED", !.postingStatus = "VOIDED"]
<1>1. /\ outrun' \subseteq Claim /\ RequestsEnd
      /\ claim[c] \in ClaimRow /\ claim[c].status \notin {"NONE", "DELETED"}
  BY CommitFacts DEF Void
<1>2. ClaimSound(c) /\ JournalSound /\ claim \in [Claim -> ClaimRow]
  BY DEF ClaimsInv
<1>3. claim' = [claim EXCEPT ![c] = row]
  BY <1>1, <1>2 DEF Void
<1>4. /\ row \in ClaimRow /\ row.status = "VOIDED"
      /\ row.total = claim[c].total /\ row.lines = claim[c].lines
      /\ row.journalEntryId = claim[c].journalEntryId
  BY <1>1 DEF ClaimRow, ClaimStatus
<1> HIDE DEF row
<1>5. PICK entries : entries = Reversals(c, request[r].row)
  OBVIOUS
<1>6. /\ entries \in Seq(TakenBy(c))
      /\ Marked(entries) \in Seq(Booking) /\ Len(Marked(entries)) = Len(journal)
      /\ \A e \in DOMAIN journal : /\ Marked(entries)[e].doc = journal[e].doc
                                    /\ Marked(entries)[e].amount = journal[e].amount
      /\ Mirrors(entries) \in Seq(Booking)
      /\ Book(Marked(entries), Mirrors(entries))
  BY <1>5, VoidWrites
<1>7. \A d \in Document : NewTakes(Mirrors(entries), d) = {}
  <2>1. DOMAIN Mirrors(entries) = DOMAIN entries
    BY DEF Mirrors
  <2>2. ASSUME NEW i \in DOMAIN entries
        PROVE  \/ /\ Mirrors(entries)[i].doc = PaidOut(c)
                  /\ Mirrors(entries)[i].amount > 0
               \/ /\ Mirrors(entries)[i].doc = Owed(c)
                  /\ ~(Mirrors(entries)[i].amount > 0)
    <3>1. /\ entries[i] \in TakenBy(c)
          /\ journal[entries[i]].amount \in Int
          /\ Mirrors(entries)[i].doc = journal[entries[i]].doc
          /\ Mirrors(entries)[i].amount = 0 - journal[entries[i]].amount
      BY <1>2, <1>6, MirrorOf
    <3> QED
      BY <3>1 DEF TakenBy
  <2> QED
    BY <2>1, <2>2, ClaimDocuments DEF NewTakes
<1>8. /\ JournalSound'
      /\ \A d \in Document : Takes(d)' = Takes(d)
  <2>1. /\ JournalSound'
        /\ \A d \in Document : Takes(d)' = Takes(d) \cup NewTakes(Mirrors(entries), d)
    BY <1>2, <1>6, BookTakes
  <2> QED
    BY <1>7, <2>1
<1>9. \A x \in Claim : /\ Takes(Owed(x))' = Takes(Owed(x))
                        /\ Takes(PaidOut(x))' = Takes(PaidOut(x))
  BY <1>8, ClaimDocuments
<1>10. /\ claim' \in [Claim -> ClaimRow] /\ claim'[c] = row
       /\ \A x \in Claim \ {c} : claim'[x] = claim[x]
  BY <1>2, <1>3, <1>4
<1>11. OthersKept(c) /\ EntriesStay(c)
  BY <1>9, <1>10 DEF OthersKept, EntriesStay
<1>12. ClaimSound(c)'
  BY <1>1, <1>2, <1>4, <1>9, <1>10 DEF ClaimSound, AlreadyPosted, AtMostOne
<1> QED
  BY <1>1, <1>4, <1>8, <1>10, <1>11, <1>12, ClaimKeeps

-----------------------------------------------------------------------------
(* No claims, no requests, no entries.                                     *)
LEMMA ClaimsInvInit == ClaimsInit => ClaimsInv
<1> SUFFICES ASSUME ClaimsInit PROVE ClaimsInv
  OBVIOUS
<1>1. NoClaim \in ClaimRow
  BY ClaimsAssumption DEF NoClaim, ClaimRow, NoEntry, NoLines, ClaimLines
<1>2. claim \in [Claim -> ClaimRow] /\ \A c \in Claim : claim[c] = NoClaim
  BY <1>1 DEF ClaimsInit
<1>3. journal = << >> /\ JournalSound
  BY DEF ClaimsInit, JournalInit, JournalSound
<1>4. \A d : Takes(d) = {}
  BY <1>3 DEF Takes
<1>5. \A c \in Claim : ClaimSound(c)
  BY <1>2, <1>4 DEF ClaimSound, NoClaim, AlreadyPosted, AtMostOne, NoEntry
<1>6. \A r \in Request : RequestSound(r)
  BY DEF ClaimsInit, RequestSound, Idle
<1>7. request = [r \in Request |-> request[r]] /\ outrun \subseteq Claim
  BY DEF ClaimsInit
<1> QED
  BY <1>2, <1>3, <1>5, <1>6, <1>7 DEF ClaimsInv

(* A request reads the row of a sound claim.                               *)
LEMMA BeginKeeps ==
    ASSUME ClaimsInv, NEW r \in Request, NEW c \in Claim, Begin(r, c)
    PROVE  ClaimsInv'
<1>1. PICK op \in {"submit", "approve", "reimburse", "edit", "delete", "void"} :
         /\ Permitted(c, op)
         /\ request' = [request EXCEPT ![r] = [op |-> op, claim |-> c, row |-> claim[c],
                                               doomed |-> {}]]
  BY DEF Begin
<1>2. /\ ClaimSound(c) /\ claim[c] \in ClaimRow /\ JournalSound
      /\ request = [s \in Request |-> request[s]]
      /\ \A s \in Request : RequestSound(s)
  BY DEF ClaimsInv
<1>3. UNCHANGED <<claim, outrun, journal, control>>
  BY DEF Begin
<1>4. \A d : Takes(d)' = Takes(d)
  BY <1>3 DEF Takes
<1>5. /\ claim[c].status \notin {"NONE", "DELETED"}
      /\ op = "reimburse" => claim[c].status = "APPROVED"
  BY <1>1 DEF Permitted, Submittable, Approvable, Reimbursable, Editable,
              Deletable, Voidable
<1>6. op = "void" /\ claim[c].status \in {"APPROVED", "PAID"} => AlreadyPosted(claim[c])
  BY <1>1 DEF Permitted, Voidable
<1>7. /\ request'[r] = [op |-> op, claim |-> c, row |-> claim[c], doomed |-> {}]
      /\ \A s \in Request \ {r} : request'[s] = request[s]
      /\ request' = [s \in Request |-> request'[s]]
  BY <1>1, <1>2
<1>8. RequestSound(r)'
  <2>1. /\ claim[c].total \in ClaimTotal /\ claim[c].lines \in LinesHeld
        /\ claim[c].status \in {"APPROVED", "PAID"} => Takes(Owed(c)) # {}
        /\ claim[c].status = "PAID" => Takes(PaidOut(c)) # {}
        /\ AlreadyPosted(claim[c]) => claim[c].journalEntryId \in Takes(Owed(c))
    BY <1>2, <1>5 DEF ClaimSound
  <2>2. Takes(Owed(c))' = Takes(Owed(c)) /\ Takes(PaidOut(c))' = Takes(PaidOut(c))
    BY <1>4
  <2> QED
    BY <1>2, <1>3, <1>5, <1>6, <1>7, <2>1, <2>2 DEF RequestSound, RequestRow
<1>9. ASSUME NEW s \in Request \ {r} PROVE RequestSound(s)'
  <2>1. request'[s] = request[s] /\ claim' = claim /\ RequestSound(s)
    BY <1>2, <1>3, <1>7
  <2> QED
    BY <1>4, <2>1 DEF RequestSound
<1>10. ASSUME NEW x \in Claim PROVE ClaimSound(x)'
  <2>1. ClaimSound(x)
    BY DEF ClaimsInv
  <2>2. /\ claim'[x] = claim[x]
        /\ Takes(Owed(x))' = Takes(Owed(x)) /\ Takes(PaidOut(x))' = Takes(PaidOut(x))
    BY <1>3, <1>4
  <2> QED
    BY <2>1, <2>2 DEF ClaimSound, AlreadyPosted, AtMostOne
<1>11. JournalSound' /\ claim' \in [Claim -> ClaimRow] /\ outrun' \subseteq Claim
  BY <1>2, <1>3 DEF JournalSound, ClaimsInv
<1>12. \A s \in Request : RequestSound(s)'
  BY <1>8, <1>9
<1> QED
  BY <1>7, <1>10, <1>11, <1>12 DEF ClaimsInv

(* A row that is written is posted as its status asks for.                 *)
LEMMA WriteKeeps ==
    ASSUME ClaimsInv, NEW c \in Claim, claim[c].status # "DELETED",
           NEW old \in ClaimRow, old.journalEntryId = claim[c].journalEntryId,
           NEW status \in ClaimStatus, NEW total \in ClaimTotal,
           NEW lines \in LinesHeld,
           Write(c, old, status, total, lines),
           outrun' \subseteq Claim, RequestsEnd
    PROVE  ClaimsInv'
<1> DEFINE row == [old EXCEPT !.status = status, !.total = total, !.lines = lines]
<1>1. /\ row \in ClaimRow /\ row.status = status
      /\ row.total = total /\ row.lines = lines
      /\ row.journalEntryId = claim[c].journalEntryId
      /\ status \notin {"NONE", "DELETED"}
  BY DEF ClaimRow, ClaimStatus, LinesHeld
<1>2. /\ "reimbursement" \in AskedFor(status) \/ status \in {"APPROVED", "PAID"} =>
            "claim" \in AskedFor(status)
      /\ status = "PAID" => "reimbursement" \in AskedFor(status)
  BY DEF AskedFor
<1>3. Post(c, row, lines, total, AskedFor(status))
  BY DEF Write
<1> HIDE DEF row
<1> QED
  BY <1>1, <1>2, <1>3, PostKeeps

(* A new claim posts what its status asks for.                             *)
LEMMA CreateKeeps ==
    ASSUME ClaimsInv, NEW c \in Claim, CreateClaim(c)
    PROVE  ClaimsInv'
<1>0. PICK status \in ClaimStatus, l \in LineList, amount \in ClaimTotal :
         \E total \in 1 .. amount :
            Write(c, NoClaim, status, total, [NoLines EXCEPT ![l] = amount])
  BY DEF CreateClaim
<1>1. PICK total \in 1 .. amount :
         Write(c, NoClaim, status, total, [NoLines EXCEPT ![l] = amount])
  BY <1>0
<1>2. /\ NoClaim \in ClaimRow /\ total \in ClaimTotal
      /\ [NoLines EXCEPT ![l] = amount] \in LinesHeld
  BY LinesWritten, ClaimsAssumption DEF NoClaim, ClaimRow, NoEntry, ClaimTotal
<1>3. /\ claim[c].status = "NONE" /\ claim[c].journalEntryId = NoEntry
      /\ NoClaim.journalEntryId = NoEntry
  BY DEF CreateClaim, ClaimsInv, ClaimSound, AlreadyPosted, NoClaim
<1>4. RequestsEnd /\ outrun' \subseteq Claim
  BY DEF CreateClaim, RequestsEnd, ClaimsInv
<1> QED
  BY <1>1, <1>2, <1>3, <1>4, WriteKeeps

(* Submitting writes the status.                                           *)
LEMMA SubmitKeeps ==
    ASSUME ClaimsInv, NEW r \in Request, NEW c \in Claim, Submit(r, c)
    PROVE  ClaimsInv'
<1> DEFINE row == [claim[c] EXCEPT !.status = "SUBMITTED"]
<1>1. /\ outrun' \subseteq Claim /\ RequestsEnd
      /\ claim[c] \in ClaimRow /\ claim[c].status \notin {"NONE", "DELETED"}
      /\ claim[c].total \in ClaimTotal /\ claim[c].lines \in LinesHeld
  BY CommitFacts DEF Submit
<1>2. claim \in [Claim -> ClaimRow]
  BY DEF ClaimsInv
<1>3. claim' = [claim EXCEPT ![c] = row] /\ UNCHANGED journal
  BY <1>2 DEF Submit
<1>4. /\ row \in ClaimRow /\ row.status = "SUBMITTED"
      /\ row.total = claim[c].total /\ row.lines = claim[c].lines
      /\ row.journalEntryId = claim[c].journalEntryId
  BY <1>1 DEF ClaimRow, ClaimStatus
<1> HIDE DEF row
<1> QED
  BY <1>1, <1>2, <1>3, <1>4, WritingKeeps

(* Deleting clears the row, which is never written again.                   *)
LEMMA DeleteKeeps ==
    ASSUME ClaimsInv, NEW r \in Request, NEW c \in Claim, Delete(r, c)
    PROVE  ClaimsInv'
<1> DEFINE row == [NoClaim EXCEPT !.status = "DELETED"]
<1>1. outrun' \subseteq Claim /\ RequestsEnd
  BY CommitFacts DEF Delete
<1>2. claim' = [claim EXCEPT ![c] = row] /\ UNCHANGED journal
  BY DEF Delete
<1>3. row \in ClaimRow /\ row.status = "DELETED" /\ ~AlreadyPosted(row)
  BY ClaimsAssumption DEF NoClaim, ClaimRow, NoEntry, AlreadyPosted, NoLines, ClaimLines
<1> HIDE DEF row
<1> QED
  BY <1>1, <1>2, <1>3, WritingKeeps

(* Approving posts the claim.                                              *)
LEMMA ApproveKeeps ==
    ASSUME ClaimsInv, NEW r \in Request, NEW c \in Claim, Approve(r, c)
    PROVE  ClaimsInv'
<1> DEFINE row == [claim[c] EXCEPT !.status = "APPROVED"]
<1>1. /\ outrun' \subseteq Claim /\ RequestsEnd
      /\ claim[c] \in ClaimRow /\ claim[c].status \notin {"NONE", "DELETED"}
      /\ request[r].row.total \in ClaimTotal /\ request[r].row.lines \in LinesHeld
      /\ claim[c].total \in ClaimTotal /\ claim[c].lines \in LinesHeld
  BY CommitFacts DEF Approve
<1>2. /\ row \in ClaimRow /\ row.status = "APPROVED"
      /\ row.total = claim[c].total /\ row.lines = claim[c].lines
      /\ row.journalEntryId = claim[c].journalEntryId
  BY <1>1 DEF ClaimRow, ClaimStatus
<1>3. Post(c, row, request[r].row.lines, request[r].row.total, {"claim"})
  BY DEF Approve
<1>4. "claim" \in {"claim"} /\ "reimbursement" \notin {"claim"}
  OBVIOUS
<1> HIDE DEF row
<1> QED
  BY <1>1, <1>2, <1>3, <1>4, PostKeeps

(* Reimbursing posts the payment alone: the claim it has read was posted.  *)
LEMMA ReimburseKeeps ==
    ASSUME ClaimsInv, NEW r \in Request, NEW c \in Claim, Reimburse(r, c)
    PROVE  ClaimsInv'
<1> DEFINE row == [claim[c] EXCEPT !.status = "PAID"]
<1>1. /\ outrun' \subseteq Claim /\ RequestsEnd
      /\ claim[c] \in ClaimRow /\ claim[c].status \notin {"NONE", "DELETED"}
      /\ request[r].row.total \in ClaimTotal /\ request[r].row.lines \in LinesHeld
      /\ claim[c].total \in ClaimTotal /\ claim[c].lines \in LinesHeld
      /\ Takes(Owed(c)) # {}
  BY CommitFacts DEF Reimburse
<1>2. /\ row \in ClaimRow /\ row.status = "PAID"
      /\ row.total = claim[c].total /\ row.lines = claim[c].lines
      /\ row.journalEntryId = claim[c].journalEntryId
  BY <1>1 DEF ClaimRow, ClaimStatus
<1>3. Post(c, row, request[r].row.lines, request[r].row.total, {"reimbursement"})
  BY DEF Reimburse
<1>4. "reimbursement" \in {"reimbursement"}
  OBVIOUS
<1> HIDE DEF row
<1> QED
  BY <1>1, <1>2, <1>3, <1>4, PostKeeps

(* An edit posts what the status it writes asks for.                       *)
LEMMA EditKeeps ==
    ASSUME ClaimsInv, NEW r \in Request, NEW c \in Claim, Edit(r, c)
    PROVE  ClaimsInv'
<1>1. PICK status \in ClaimStatus :
         Write(c, claim[c], status, request[r].row.total, claim[c].lines)
  BY DEF Edit
<1>2. /\ outrun' \subseteq Claim /\ RequestsEnd
      /\ claim[c] \in ClaimRow /\ claim[c].status \notin {"NONE", "DELETED"}
      /\ claim[c].lines \in LinesHeld /\ request[r].row.total \in ClaimTotal
  BY CommitFacts DEF Edit
<1> QED
  BY <1>1, <1>2, WriteKeeps

(* One that brings lines does so, too.                                     *)
LEMMA ReplaceKeeps ==
    ASSUME ClaimsInv, NEW r \in Request, NEW c \in Claim, Replace(r, c)
    PROVE  ClaimsInv'
<1>0. PICK status \in ClaimStatus, l \in LineList \ ListsKnown(c),
           amount \in ClaimTotal :
         /\ ValidTransition(request[r].row.status, status)
         /\ \E total \in 1 .. amount :
               Write(c, claim[c], status, total,
                     Replaced(claim[c].lines, request[r].doomed, l, amount))
  BY DEF Replace
<1>1. PICK total \in 1 .. amount :
         Write(c, claim[c], status, total,
               Replaced(claim[c].lines, request[r].doomed, l, amount))
  BY <1>0
<1>2. /\ outrun' \subseteq Claim /\ RequestsEnd
      /\ claim[c] \in ClaimRow /\ claim[c].status \notin {"NONE", "DELETED"}
  BY CommitFacts DEF Replace
<1>3. total \in ClaimTotal
  BY ClaimsAssumption DEF ClaimTotal
<1>4. Replaced(claim[c].lines, request[r].doomed, l, amount) \in LinesHeld
  <2>1. claim[c].lines \in ClaimLines
    BY <1>2 DEF ClaimRow
  <2> QED
    BY <2>1, LinesWritten
<1> QED
  BY <1>1, <1>2, <1>3, <1>4, WriteKeeps

(* Deleting the lines is seen by nobody until the edit is committed.       *)
LEMMA DeleteLinesKeeps ==
    ASSUME ClaimsInv, NEW r \in Request, NEW c \in Claim, DeleteLines(r, c)
    PROVE  ClaimsInv'
<1>1. /\ request' = [s \in Request |-> request'[s]]
      /\ request[r] # Idle /\ request[r].op = "edit"
      /\ request'[r] = [request[r] EXCEPT !.op = "replace",
                                          !.doomed = ListsIn(claim[c].lines)]
      /\ \A s \in Request \ {r} : request'[s] = request[s]
      /\ UNCHANGED <<claim, outrun, journal, control>>
  BY DEF DeleteLines, ClaimsInv
<1>2. \A d : Takes(d)' = Takes(d)
  BY <1>1 DEF Takes
<1>3. ASSUME NEW s \in Request PROVE RequestSound(s)'
  <2>1. RequestSound(s)
    BY DEF ClaimsInv
  <2>2. CASE s = r
    <3>1. /\ request'[r] \in RequestRow /\ request'[r].op = "replace"
          /\ request'[r].claim = request[r].claim /\ request'[r].row = request[r].row
      BY <1>1, <2>1, <2>2 DEF RequestSound, RequestRow, ListsIn
    <3> DEFINE x == request[r].claim
    <3>2. Takes(Owed(x))' = Takes(Owed(x)) /\ claim'[x] = claim[x]
      BY <1>1, <1>2
    <3>3. RequestSound(r)'
      BY <1>1, <2>1, <2>2, <3>1, <3>2 DEF RequestSound
    <3> QED
      BY <2>2, <3>3
  <2>3. CASE s # r
    BY <1>1, <1>2, <2>1, <2>3 DEF RequestSound
  <2> QED
    BY <2>2, <2>3
<1>4. ASSUME NEW x \in Claim PROVE ClaimSound(x)'
  <2>1. ClaimSound(x)
    BY DEF ClaimsInv
  <2>2. Takes(Owed(x))' = Takes(Owed(x)) /\ Takes(PaidOut(x))' = Takes(PaidOut(x))
    BY <1>2
  <2> QED
    BY <1>1, <2>1, <2>2 DEF ClaimSound, AlreadyPosted, AtMostOne
<1> QED
  BY <1>1, <1>3, <1>4 DEF ClaimsInv, JournalSound

(* A request that stops has done nothing, and so has a step of nobody.     *)
LEMMA RestKeeps ==
    ASSUME ClaimsInv, UNCHANGED <<claim, outrun, journal, control>>,
           request' = request \/ \E r \in Request : Abandon(r)
    PROVE  ClaimsInv'
<1>1. \A d : Takes(d)' = Takes(d)
  BY DEF Takes
<1>2. /\ request' = [r \in Request |-> request'[r]]
      /\ \A r \in Request : request'[r] = request[r] \/ request'[r] = Idle
  BY DEF ClaimsInv, Abandon
<1>3. ASSUME NEW r \in Request PROVE RequestSound(r)'
  <2>1. RequestSound(r)
    BY DEF ClaimsInv
  <2>2. CASE request'[r] = Idle
    BY <2>2 DEF RequestSound, Idle
  <2>3. CASE request'[r] = request[r]
    BY <1>1, <2>1, <2>3 DEF RequestSound
  <2> QED
    BY <1>2, <2>2, <2>3
<1>4. ASSUME NEW c \in Claim PROVE ClaimSound(c)'
  <2>1. ClaimSound(c)
    BY DEF ClaimsInv
  <2>2. Takes(Owed(c))' = Takes(Owed(c)) /\ Takes(PaidOut(c))' = Takes(PaidOut(c))
    BY <1>1
  <2> QED
    BY <2>1, <2>2 DEF ClaimSound, AlreadyPosted, AtMostOne
<1> QED
  BY <1>2, <1>3, <1>4 DEF ClaimsInv, JournalSound

(* The inductive invariant.                                                *)
THEOREM ClaimsStaySound == ClaimsSpec => []ClaimsInv
<1>1. ASSUME ClaimsInv, ClaimsNext PROVE ClaimsInv'
  <2>1. ASSUME NEW c \in Claim, CreateClaim(c) PROVE ClaimsInv'
    BY <1>1, <2>1, CreateKeeps
  <2>2. ASSUME NEW r \in Request, NEW c \in Claim, RequestStep(r, c) PROVE ClaimsInv'
    BY <1>1, <2>2, BeginKeeps, DeleteLinesKeeps, SubmitKeeps, ApproveKeeps,
       ReimburseKeeps, EditKeeps, ReplaceKeeps, DeleteKeeps, VoidKeeps DEF RequestStep
  <2>3. ASSUME NEW r \in Request, Abandon(r) PROVE ClaimsInv'
    BY <1>1, <2>3, RestKeeps DEF Abandon
  <2> QED
    BY <1>1, <2>1, <2>2, <2>3 DEF ClaimsNext
<1>2. ASSUME ClaimsInv, UNCHANGED claimVars PROVE ClaimsInv'
  BY <1>2, RestKeeps DEF claimVars
<1> QED
  BY <1>1, <1>2, ClaimsInvInit, PTL DEF ClaimsSpec

(* Rows are well formed, and a link leads to an entry there is.            *)
THEOREM ClaimsTypeCorrect == ClaimsSpec => []ClaimsTypeOK
<1>1. ClaimsInv => ClaimsTypeOK
  <2> SUFFICES ASSUME ClaimsInv PROVE ClaimsTypeOK
    OBVIOUS
  <2>1. ASSUME NEW c \in Claim
        PROVE  claim[c] \in [status : ClaimStatus \cup {"NONE", "DELETED"},
                             postingStatus : {"DRAFT", "POSTED", "VOIDED"},
                             total : {0} \cup ClaimTotal,
                             lines : ClaimLines,
                             journalEntryId : {NoEntry} \cup DOMAIN journal]
    <3>1. claim[c] \in ClaimRow /\ ClaimSound(c)
      BY DEF ClaimsInv
    <3>2. claim[c].journalEntryId \in {NoEntry} \cup DOMAIN journal
      BY <3>1 DEF ClaimSound, AlreadyPosted, Takes
    <3> QED
      BY <3>1, <3>2 DEF ClaimRow
  <2>2. claim = [c \in Claim |-> claim[c]]
    BY DEF ClaimsInv
  <2>3. \A r \in Request : request[r] # Idle => request[r].claim \in Claim
    BY DEF ClaimsInv, RequestSound, RequestRow
  <2>4. \A c \in Claim : claim[c].status \notin {"NONE", "DELETED"} =>
           ListsIn(claim[c].lines) # {}
    BY DEF ClaimsInv, ClaimSound, LinesHeld
  <2> QED
    BY <2>1, <2>2, <2>3, <2>4 DEF ClaimsInv, ClaimsTypeOK
<1> QED
  BY <1>1, ClaimsStaySound, PTL

(* However requests overlap, a claim is posted once and reimbursed once:   *)
(* the link and the entry of the reimbursement are looked for after the    *)
(* row was written, and nothing but a deletion, which ends the claim,      *)
(* takes a link away.                                                      *)
THEOREM ClaimsPostedOnce == ClaimsSpec => []PostedOnce
<1>1. ClaimsInv => PostedOnce
  <2> SUFFICES ASSUME ClaimsInv, NEW d \in Document
               PROVE  Cardinality(Takes(d)) <= 1
    BY DEF PostedOnce
  <2>1. PICK c \in Claim : d = Owed(c) \/ d = PaidOut(c)
    BY ClaimsAssumption DEF Owed, PaidOut
  <2>2. AtMostOne(Takes(d))
    BY <2>1 DEF ClaimsInv, ClaimSound
  <2>3. CASE Takes(d) = {}
    BY <2>3, FS_EmptySet
  <2>4. CASE Takes(d) # {}
    <3>1. PICK e : Takes(d) = {e}
      BY <2>2, <2>4 DEF AtMostOne
    <3> QED
      <4>1. Cardinality({e}) = 1
        BY FS_Singleton
      <4> QED
        BY <3>1, <4>1
  <2> QED
    BY <2>3, <2>4
<1> QED
  BY <1>1, ClaimsStaySound, PTL

(* However requests overlap, what was reimbursed was owed, and what says   *)
(* that it is approved or paid was posted.                                 *)
THEOREM ClaimsReimbursedWereOwed == ClaimsSpec => []ReimbursedWasOwed
<1>1. ClaimsInv => ReimbursedWasOwed
  BY DEF ClaimsInv, ClaimSound, ReimbursedWasOwed
<1> QED
  BY <1>1, ClaimsStaySound, PTL
-----------------------------------------------------------------------------
(* The books.  A claim that no transaction has outrun went through its     *)
(* statuses one by one: what stands in the books for it is what its link   *)
(* and the entry of the reimbursement say, for the lines and the total it  *)
(* has now; and before it was approved there was no entry at all.          *)
Standing(row) == row.status \in {"APPROVED", "PAID"}

ClaimBooked(c) ==
    LET row == claim[c]
    IN  /\ Standing(row) =>
              AlreadyPosted(row)
              /\ journal[row.journalEntryId].amount = LinesPost(row.lines)
        /\ ~Standing(row) /\ row.status # "VOIDED" => ~AlreadyPosted(row)
        /\ row.status = "PAID" =>
              \A e \in Takes(PaidOut(c)) : journal[e].amount = 0 - row.total
        /\ row.status \notin {"PAID", "VOIDED"} => Takes(PaidOut(c)) = {}
        /\ control[Owed(c)] = IF Standing(row) THEN LinesPost(row.lines) ELSE 0
        /\ control[PaidOut(c)] = IF row.status = "PAID" THEN 0 - row.total ELSE 0

(* The status that a request has read is one that its operation starts     *)
(* from, also when the claim has left it since.                            *)
RequestRead(r) ==
    request[r] # Idle =>
       LET op == request[r].op
           status == request[r].row.status
       IN  /\ op = "submit" => status \in {"DRAFT", "REJECTED"}
           /\ op = "approve" => status = "SUBMITTED"
           /\ op = "reimburse" => status = "APPROVED"
           /\ op \in {"edit", "replace"} =>
                 status \in {"DRAFT", "SUBMITTED", "REJECTED"}
           /\ op = "delete" => status \in {"DRAFT", "REJECTED"}
           /\ op = "void" => status \in {"DRAFT", "SUBMITTED", "APPROVED", "PAID"}

BooksInv ==
    /\ \A d \in Document : control[d] \in Int
    /\ \A c \in Claim \ outrun : ClaimBooked(c)
    /\ \A r \in Request : RequestRead(r)

(* What a transaction books on a document that one of its entries is for,  *)
(* or none.                                                                *)
LEMMA BookedSums ==
    ASSUME NEW entries \in Seq(Booking), NEW d
    PROVE  /\ Booked(entries, d) \in Int
           /\ (\A i \in DOMAIN entries : entries[i].doc # d) => Booked(entries, d) = 0
           /\ \A i \in DOMAIN entries :
                 /\ entries[i].doc = d
                 /\ \A j \in DOMAIN entries \ {i} : entries[j].doc # d
                 => Booked(entries, d) = entries[i].amount
<1> DEFINE f == [i \in DOMAIN entries |-> entries[i].amount]
           S == {i \in DOMAIN entries : entries[i].doc = d}
<1>1. Booked(entries, d) = Sum(f, S)
  BY DEF Booked, Sum
<1>2. IsFiniteSet(S)
  <2>1. IsFiniteSet(1 .. Len(entries)) /\ S \subseteq 1 .. Len(entries)
    BY FS_Interval
  <2> QED
    BY <2>1, FS_Subset
<1>3. \A i \in S : f[i] \in Int /\ f[i] = entries[i].amount
  BY DEF Booking, EntryRow
<1> HIDE DEF f
<1>4. Sum(f, S) \in Int
  <2> HIDE DEF S
  <2> QED
    BY <1>2, <1>3, SumTakesOut
<1>5. Sum(f, {}) = 0
  BY FS_EmptySet, SumUnfolds
<1>6. ASSUME \A i \in DOMAIN entries : entries[i].doc # d PROVE Booked(entries, d) = 0
  <2>1. S = {}
    BY <1>6
  <2> QED
    BY <1>1, <1>5, <2>1
<1>7. ASSUME NEW i \in DOMAIN entries, entries[i].doc = d,
             \A j \in DOMAIN entries \ {i} : entries[j].doc # d
      PROVE  Booked(entries, d) = entries[i].amount
  <2>1. i \in S /\ S \ {i} = {}
    BY <1>7
  <2> HIDE DEF S
  <2>2. Sum(f, S) = f[i] + Sum(f, S \ {i})
    BY <1>2, <1>3, <2>1, SumTakesOut
  <2>3. Sum(f, S) = f[i] + 0 /\ f[i] \in Int
    BY <1>3, <1>5, <2>1, <2>2
  <2> QED
    BY <1>1, <1>3, <2>1, <2>3
<1> QED
  BY <1>1, <1>4, <1>6, <1>7

(* What a transaction on claim c does to the books: the other claims'      *)
(* documents and the amounts of the entries there are stay as they were.   *)
BooksElsewhere(c) ==
    /\ \A d \in Document : control'[d] \in Int
    /\ \A d \in Document \ {Owed(c), PaidOut(c)} : control'[d] = control[d]
    /\ \A e \in DOMAIN journal : /\ e \in DOMAIN journal'
                                 /\ journal'[e].doc = journal[e].doc
                                 /\ journal'[e].amount = journal[e].amount

(* Posting books what is due once, and what it adds to the entries of a    *)
(* reimbursement is of the total.                                          *)
LEMMA PostBooks ==
    ASSUME JournalSound, \A d \in Document : control[d] \in Int,
           NEW c \in Claim, NEW row, NEW lines \in LinesHeld,
           NEW total \in ClaimTotal, NEW asked,
           Post(c, row, lines, total, asked)
    PROVE  /\ BooksElsewhere(c)
           /\ "claim" \in asked /\ ~AlreadyPosted(row) =>
                 /\ journal'[NextEntry].amount = LinesPost(lines)
                 /\ control'[Owed(c)] = control[Owed(c)] + LinesPost(lines)
           /\ ~("claim" \in asked /\ ~AlreadyPosted(row)) =>
                 control'[Owed(c)] = control[Owed(c)]
           /\ "reimbursement" \in asked /\ ~Reimbursed(c) =>
                 control'[PaidOut(c)] = control[PaidOut(c)] - total
           /\ ~("reimbursement" \in asked /\ ~Reimbursed(c)) =>
                 control'[PaidOut(c)] = control[PaidOut(c)]
           /\ \A e \in DOMAIN journal' \ DOMAIN journal :
                 journal'[e].doc = PaidOut(c) => journal'[e].amount = 0 - total
<1> DEFINE claimDue == "claim" \in asked /\ ~AlreadyPosted(row)
           payDue == "reimbursement" \in asked /\ ~Reimbursed(c)
           owed == PostedEntry(Owed(c), LinesPost(lines))
           paid == PostedEntry(PaidOut(c), 0 - total)
           entries == (IF claimDue THEN <<owed>> ELSE << >>) \o
                      (IF payDue THEN <<paid>> ELSE << >>)
<1>1. /\ LinesPost(lines) \in Int /\ LinesPost(lines) > 0
      /\ total \in Int /\ total > 0 /\ 0 - total \in Int
  BY LinesPostPositive, ClaimsAssumption DEF ClaimTotal
<1>2. /\ owed \in Booking /\ paid \in Booking
      /\ owed.doc = Owed(c) /\ owed.amount = LinesPost(lines)
      /\ paid.doc = PaidOut(c) /\ paid.amount = 0 - total
  BY <1>1, ClaimDocuments DEF PostedEntry, Booking, EntryRow
<1>3. Book(journal, entries)
  BY DEF Post
<1>b. claimDue \in BOOLEAN /\ payDue \in BOOLEAN
  BY DEF Reimbursed, AlreadyPosted
<1>4. /\ entries \in Seq(Booking)
      /\ claimDue /\ payDue =>
            DOMAIN entries = {1, 2} /\ entries[1] = owed /\ entries[2] = paid
      /\ claimDue /\ ~payDue => DOMAIN entries = {1} /\ entries[1] = owed
      /\ ~claimDue /\ payDue => DOMAIN entries = {1} /\ entries[1] = paid
      /\ ~claimDue /\ ~payDue => DOMAIN entries = {}
  <2> HIDE DEF claimDue, payDue, owed, paid
  <2>1. owed \in Booking /\ paid \in Booking
    BY <1>2
  <2> QED
    BY <1>b, <2>1, TwoAtMost
<1> HIDE DEF claimDue, payDue, owed, paid, entries
<1>5. /\ \A e \in DOMAIN journal : /\ e \in DOMAIN journal'
                                   /\ journal'[e].doc = journal[e].doc
                                   /\ journal'[e].amount = journal[e].amount
      /\ \A i \in DOMAIN entries : journal'[Len(journal) + i] = entries[i]
      /\ \A e \in DOMAIN journal' \ DOMAIN journal :
            \E i \in DOMAIN entries : e = Len(journal) + i
      /\ \A d \in Document : control'[d] = control[d] + Booked(entries, d)
  BY <1>3, <1>4, BookWrites DEF JournalSound
<1>6. \A d \in Document : Booked(entries, d) \in Int
  BY <1>4, BookedSums
<1>7. /\ \A d \in Document \ {Owed(c), PaidOut(c)} : Booked(entries, d) = 0
      /\ Booked(entries, Owed(c)) = IF claimDue THEN LinesPost(lines) ELSE 0
      /\ Booked(entries, PaidOut(c)) = IF payDue THEN 0 - total ELSE 0
  <2>1. CASE claimDue /\ payDue
    BY <1>2, <1>4, <2>1, BookedSums, ClaimDocuments
  <2>2. CASE claimDue /\ ~payDue
    BY <1>2, <1>4, <2>2, BookedSums, ClaimDocuments
  <2>3. CASE ~claimDue /\ payDue
    BY <1>2, <1>4, <2>3, BookedSums, ClaimDocuments
  <2>4. CASE ~claimDue /\ ~payDue
    BY <1>2, <1>4, <2>4, BookedSums, ClaimDocuments
  <2> QED
    BY <1>b, <2>1, <2>2, <2>3, <2>4
<1>8. Owed(c) \in Document /\ PaidOut(c) \in Document /\ Owed(c) # PaidOut(c)
  BY ClaimDocuments
<1>9. \A d \in Document : control'[d] \in Int
  BY <1>5, <1>6
<1>10. \A d \in Document \ {Owed(c), PaidOut(c)} : control'[d] = control[d]
  BY <1>5, <1>7
<1>11. /\ claimDue => control'[Owed(c)] = control[Owed(c)] + LinesPost(lines)
       /\ ~claimDue => control'[Owed(c)] = control[Owed(c)]
       /\ payDue => control'[PaidOut(c)] = control[PaidOut(c)] - total
       /\ ~payDue => control'[PaidOut(c)] = control[PaidOut(c)]
  BY <1>1, <1>5, <1>7, <1>8
<1>12. claimDue => journal'[NextEntry].amount = LinesPost(lines)
  BY <1>2, <1>4, <1>5 DEF NextEntry
<1>13. \A i \in DOMAIN entries : entries[i].doc = PaidOut(c) =>
                                    entries[i].amount = 0 - total
  BY <1>2, <1>4, <1>8
<1>14. \A e \in DOMAIN journal' \ DOMAIN journal :
          journal'[e].doc = PaidOut(c) => journal'[e].amount = 0 - total
  BY <1>5, <1>13
<1> QED
  BY <1>5, <1>9, <1>10, <1>11, <1>12, <1>14 DEF BooksElsewhere, claimDue, payDue

(* The books of another claim.                                             *)
LEMMA OthersBooked ==
    ASSUME ClaimsInv, NEW c \in Claim, OthersKept(c), BooksElsewhere(c),
           NEW x \in Claim \ {c}, ClaimBooked(x)
    PROVE  ClaimBooked(x)'
<1>1. /\ claim'[x] = claim[x]
      /\ Takes(PaidOut(x))' = Takes(PaidOut(x))
  BY DEF OthersKept
<1>2. /\ control'[Owed(x)] = control[Owed(x)]
      /\ control'[PaidOut(x)] = control[PaidOut(x)]
  BY ClaimDocuments DEF BooksElsewhere
<1>3. AlreadyPosted(claim[x]) => claim[x].journalEntryId \in DOMAIN journal
  BY DEF ClaimsInv, ClaimSound, Takes
<1>4. Takes(PaidOut(x)) \subseteq DOMAIN journal
  BY DEF Takes
<1>5. \A e \in DOMAIN journal : journal'[e].amount = journal[e].amount
  BY DEF BooksElsewhere
<1>6. /\ Standing(claim[x]) =>
            AlreadyPosted(claim[x])
            /\ journal'[claim[x].journalEntryId].amount = LinesPost(claim[x].lines)
      /\ claim[x].status = "PAID" =>
            \A e \in Takes(PaidOut(x)) : journal'[e].amount = 0 - claim[x].total
  BY <1>3, <1>4, <1>5 DEF ClaimBooked
<1> QED
  BY <1>1, <1>2, <1>6 DEF ClaimBooked, Standing, AlreadyPosted

(* What is left to show of a step of c.                                    *)
LEMMA BooksKeep ==
    ASSUME ClaimsInv, BooksInv, NEW c \in Claim, OthersKept(c), BooksElsewhere(c),
           RequestsEnd, outrun' = outrun \/ outrun' = outrun \cup {c},
           c \notin outrun' => ClaimBooked(c)'
    PROVE  BooksInv'
<1>1. \A d \in Document : control'[d] \in Int
  BY DEF BooksElsewhere
<1>2. ASSUME NEW x \in Claim \ outrun' PROVE ClaimBooked(x)'
  BY OthersBooked DEF BooksInv
<1>3. ASSUME NEW r \in Request PROVE RequestRead(r)'
  <2>1. RequestRead(r)
    BY DEF BooksInv
  <2>2. CASE request'[r] = Idle
    BY <2>2 DEF RequestRead, Idle
  <2>3. CASE request'[r] = request[r]
    BY <2>1, <2>3 DEF RequestRead
  <2> QED
    BY <2>2, <2>3 DEF RequestsEnd
<1> QED
  BY <1>1, <1>2, <1>3 DEF BooksInv

(* A transaction that does not outrun its claim acts on the row it read.   *)
LEMMA CommitReads ==
    ASSUME ClaimsInv, BooksInv, NEW r \in Request, NEW c \in Claim, NEW op,
           Commit(r, c, op)
    PROVE  /\ outrun' = outrun \/ outrun' = outrun \cup {c}
           /\ request[r] # Idle /\ request[r].op = op /\ RequestRead(r)
           /\ c \notin outrun' => request[r].row = claim[c] /\ ClaimBooked(c)
BY DEF Commit, BooksInv

(* A step of c that leaves the journal alone, and the books of c.          *)
LEMMA WritingBooked ==
    ASSUME ClaimsInv, BooksInv, NEW c \in Claim, NEW row \in ClaimRow,
           claim' = [claim EXCEPT ![c] = row], UNCHANGED <<journal, control>>
    PROVE  /\ OthersKept(c) /\ BooksElsewhere(c)
           /\ /\ ClaimBooked(c)
              /\ claim[c].status \in {"DRAFT", "SUBMITTED", "REJECTED"}
              /\ row.status \in {"DRAFT", "SUBMITTED", "REJECTED", "DELETED"}
              /\ row.journalEntryId \in {claim[c].journalEntryId, NoEntry}
              => ClaimBooked(c)'
<1>1. /\ claim'[c] = row
      /\ \A x \in Claim \ {c} : claim'[x] = claim[x]
  BY DEF ClaimsInv
<1>2. \A d : Takes(d)' = Takes(d)
  BY DEF Takes
<1>3. OthersKept(c)
  BY <1>1, <1>2 DEF OthersKept
<1>4. BooksElsewhere(c)
  BY DEF BooksElsewhere, BooksInv
<1>5. ASSUME ClaimBooked(c),
             claim[c].status \in {"DRAFT", "SUBMITTED", "REJECTED"},
             row.status \in {"DRAFT", "SUBMITTED", "REJECTED", "DELETED"},
             row.journalEntryId \in {claim[c].journalEntryId, NoEntry}
      PROVE  ClaimBooked(c)'
  <2>1. /\ ~AlreadyPosted(row) /\ Takes(PaidOut(c)) = {}
        /\ control[Owed(c)] = 0 /\ control[PaidOut(c)] = 0
    BY <1>5 DEF ClaimBooked, Standing, AlreadyPosted
  <2>2. Takes(PaidOut(c))' = {}
    BY <1>2, <2>1
  <2> QED
    BY <1>1, <1>5, <2>1, <2>2 DEF ClaimBooked, Standing, AlreadyPosted
<1> QED
  BY <1>3, <1>4, <1>5

(* What takes up the reimbursement of c after a posting for c is new, if   *)
(* nothing took it up before.                                              *)
LEMMA PaidOutIsNew ==
    ASSUME NEW c \in Claim, BooksElsewhere(c), Takes(PaidOut(c)) = {},
           NEW e \in Takes(PaidOut(c))'
    PROVE  e \in DOMAIN journal' \ DOMAIN journal /\ journal'[e].doc = PaidOut(c)
<1>1. /\ e \in DOMAIN journal' /\ journal'[e].doc = PaidOut(c)
      /\ journal'[e].amount > 0 <=> PaidOut(c)[2] = "claim"
  BY DEF Takes
<1>2. ASSUME e \in DOMAIN journal PROVE FALSE
  <2>1. /\ journal[e].doc = PaidOut(c)
        /\ journal[e].amount > 0 <=> PaidOut(c)[2] = "claim"
    BY <1>1, <1>2 DEF BooksElsewhere
  <2>2. e \in Takes(PaidOut(c))
    BY <1>2, <2>1 DEF Takes
  <2> QED
    BY <2>2
<1> QED
  BY <1>1, <1>2

(* A claim that was not posted yet is posted as its new status asks for.   *)
LEMMA PostBooked ==
    ASSUME ClaimsInv, BooksInv, NEW c \in Claim, ClaimBooked(c),
           claim[c].status \in {"NONE", "DRAFT", "SUBMITTED", "REJECTED"},
           NEW row \in ClaimRow, row.total \in ClaimTotal, row.lines \in LinesHeld,
           row.status \in ClaimStatus,
           row.journalEntryId = claim[c].journalEntryId,
           NEW asked, asked = AskedFor(row.status),
           Post(c, row, row.lines, row.total, asked)
    PROVE  ClaimBooked(c)'
<1>1. JournalSound /\ claim \in [Claim -> ClaimRow] /\ \A d \in Document : control[d] \in Int
  BY DEF ClaimsInv, BooksInv
<1>2. /\ ~AlreadyPosted(row) /\ Takes(PaidOut(c)) = {} /\ ~Reimbursed(c)
      /\ control[Owed(c)] = 0 /\ control[PaidOut(c)] = 0
  <2>1. /\ ~AlreadyPosted(row) /\ Takes(PaidOut(c)) = {}
        /\ control[Owed(c)] = 0 /\ control[PaidOut(c)] = 0
    BY DEF ClaimBooked, Standing, AlreadyPosted
  <2> QED
    BY <1>1, <2>1, ReimbursedTakes
<1> DEFINE claimDue == Standing(row)
           payDue == row.status = "PAID"
<1>3. /\ claimDue \in BOOLEAN /\ payDue \in BOOLEAN
      /\ claimDue <=> "claim" \in asked /\ ~AlreadyPosted(row)
      /\ payDue <=> "reimbursement" \in asked /\ ~Reimbursed(c)
  <2>1. "claim" \in asked <=> row.status \in {"APPROVED", "PAID"}
    BY DEF AskedFor
  <2>2. "reimbursement" \in asked <=> row.status = "PAID"
    BY DEF AskedFor
  <2> QED
    BY <1>2, <2>1, <2>2 DEF Standing
<1> HIDE DEF claimDue, payDue
<1>4. /\ claimDue => claim'[c] = [row EXCEPT !.journalEntryId = NextEntry,
                                             !.postingStatus = "POSTED"]
      /\ ~claimDue => claim'[c] = row
      /\ ~payDue => Takes(PaidOut(c))' = Takes(PaidOut(c))
  BY <1>1, <1>3, PostTakes
<1>5. /\ BooksElsewhere(c)
      /\ claimDue => journal'[NextEntry].amount = LinesPost(row.lines)
      /\ claimDue => control'[Owed(c)] = control[Owed(c)] + LinesPost(row.lines)
      /\ ~claimDue => control'[Owed(c)] = control[Owed(c)]
      /\ payDue => control'[PaidOut(c)] = control[PaidOut(c)] - row.total
      /\ ~payDue => control'[PaidOut(c)] = control[PaidOut(c)]
      /\ \A e \in DOMAIN journal' \ DOMAIN journal :
            journal'[e].doc = PaidOut(c) => journal'[e].amount = 0 - row.total
  BY <1>1, <1>3, PostBooks
<1>6. row.total \in Int /\ LinesPost(row.lines) \in Int
  BY LinesPostPositive, ClaimsAssumption DEF ClaimTotal
<1>7. /\ claim'[c].status = row.status /\ claim'[c].total = row.total
      /\ claim'[c].lines = row.lines
      /\ claimDue => claim'[c].journalEntryId = NextEntry
      /\ ~claimDue => claim'[c].journalEntryId = row.journalEntryId
  BY <1>3, <1>4 DEF ClaimRow
<1>8. NextEntry # NoEntry
  BY <1>1 DEF JournalSound, NextEntry, NoEntry
<1>9. \A e \in Takes(PaidOut(c))' : journal'[e].amount = 0 - row.total
  BY <1>2, <1>5, PaidOutIsNew
<1>10. Standing(claim'[c]) <=> claimDue
  BY <1>7 DEF Standing, claimDue
<1>11. claim'[c].status = "PAID" <=> payDue
  BY <1>7 DEF payDue
<1>12. /\ claimDue => /\ AlreadyPosted(claim'[c])
                      /\ journal'[claim'[c].journalEntryId].amount =
                            LinesPost(claim'[c].lines)
       /\ ~claimDue => ~AlreadyPosted(claim'[c])
  BY <1>2, <1>5, <1>7, <1>8 DEF AlreadyPosted
<1>13. control'[Owed(c)] = IF claimDue THEN LinesPost(claim'[c].lines) ELSE 0
  BY <1>2, <1>3, <1>5, <1>6, <1>7
<1>14. control'[PaidOut(c)] = IF payDue THEN 0 - claim'[c].total ELSE 0
  BY <1>2, <1>3, <1>5, <1>6, <1>7
<1>15. ~payDue => Takes(PaidOut(c))' = {}
  BY <1>2, <1>4
<1> QED
  BY <1>7, <1>9, <1>10, <1>11, <1>12, <1>13, <1>14, <1>15
     DEF ClaimBooked, AlreadyPosted, Standing
-----------------------------------------------------------------------------
(* A row that is written, and what its status asks for is in the books.    *)
LEMMA WriteBooked ==
    ASSUME ClaimsInv, BooksInv, NEW c \in Claim,
           NEW old \in ClaimRow, old.journalEntryId = claim[c].journalEntryId,
           NEW status \in ClaimStatus, NEW total \in ClaimTotal,
           NEW lines \in LinesHeld,
           Write(c, old, status, total, lines)
    PROVE  /\ OthersKept(c) /\ BooksElsewhere(c)
           /\ /\ ClaimBooked(c)
              /\ claim[c].status \in {"NONE", "DRAFT", "SUBMITTED", "REJECTED"}
              => ClaimBooked(c)'
<1>0. JournalSound /\ claim \in [Claim -> ClaimRow] /\ \A d \in Document : control[d] \in Int
  BY DEF ClaimsInv, BooksInv
<1> DEFINE row == [old EXCEPT !.status = status, !.total = total, !.lines = lines]
<1>1. /\ row \in ClaimRow /\ row.status = status
      /\ row.total = total /\ row.lines = lines
      /\ row.journalEntryId = claim[c].journalEntryId
  BY DEF ClaimRow, ClaimStatus, LinesHeld
<1>2. Post(c, row, row.lines, row.total, AskedFor(row.status))
  BY <1>1 DEF Write
<1> HIDE DEF row
<1>3. row.lines \in LinesHeld /\ row.total \in ClaimTotal /\ row.status \in ClaimStatus
  BY <1>1
<1>4. OthersKept(c)
  BY <1>0, <1>1, <1>2, <1>3, PostTakes
<1>5. BooksElsewhere(c)
  BY <1>0, <1>2, <1>3, PostBooks
<1>6. ASSUME ClaimBooked(c),
             claim[c].status \in {"NONE", "DRAFT", "SUBMITTED", "REJECTED"}
      PROVE  ClaimBooked(c)'
  BY <1>1, <1>2, <1>3, <1>6, PostBooked
<1> QED
  BY <1>4, <1>5, <1>6

(* A new claim.                                                            *)
LEMMA CreateBooked ==
    ASSUME ClaimsInv, BooksInv, NEW c \in Claim, CreateClaim(c)
    PROVE  BooksInv'
<1>0. PICK status \in ClaimStatus, l \in LineList, amount \in ClaimTotal :
         \E total \in 1 .. amount :
            Write(c, NoClaim, status, total, [NoLines EXCEPT ![l] = amount])
  BY DEF CreateClaim
<1>1. PICK total \in 1 .. amount :
         Write(c, NoClaim, status, total, [NoLines EXCEPT ![l] = amount])
  BY <1>0
<1>2. /\ NoClaim \in ClaimRow /\ total \in ClaimTotal
      /\ [NoLines EXCEPT ![l] = amount] \in LinesHeld
  BY LinesWritten, ClaimsAssumption DEF NoClaim, ClaimRow, NoEntry, ClaimTotal
<1>3. /\ claim[c].status = "NONE" /\ claim[c].journalEntryId = NoEntry
      /\ NoClaim.journalEntryId = NoEntry
  BY DEF CreateClaim, ClaimsInv, ClaimSound, AlreadyPosted, NoClaim
<1>4. RequestsEnd /\ outrun' = outrun
  BY DEF CreateClaim, RequestsEnd, ClaimsInv
<1>5. c \notin outrun' => ClaimBooked(c)
  BY <1>4 DEF BooksInv
<1>6. OthersKept(c) /\ BooksElsewhere(c) /\ (ClaimBooked(c) => ClaimBooked(c)')
  BY <1>1, <1>2, <1>3, WriteBooked
<1> QED
  BY <1>4, <1>5, <1>6, BooksKeep

(* Submitting and deleting: there is nothing in the books before or after. *)
LEMMA SubmitBooked ==
    ASSUME ClaimsInv, BooksInv, NEW r \in Request, NEW c \in Claim, Submit(r, c)
    PROVE  BooksInv'
<1> DEFINE row == [claim[c] EXCEPT !.status = "SUBMITTED"]
<1>1. RequestsEnd /\ claim[c] \in ClaimRow
  BY CommitFacts DEF Submit
<1>2. /\ outrun' = outrun \/ outrun' = outrun \cup {c}
      /\ request[r] # Idle /\ request[r].op = "submit" /\ RequestRead(r)
      /\ c \notin outrun' => request[r].row = claim[c] /\ ClaimBooked(c)
  BY CommitReads DEF Submit
<1>3. claim' = [claim EXCEPT ![c] = row] /\ UNCHANGED <<journal, control>>
  BY DEF Submit, ClaimsInv
<1>4. /\ row \in ClaimRow /\ row.status = "SUBMITTED"
      /\ row.journalEntryId = claim[c].journalEntryId
  BY <1>1 DEF ClaimRow, ClaimStatus
<1> HIDE DEF row
<1>5. OthersKept(c) /\ BooksElsewhere(c)
  BY <1>3, <1>4, WritingBooked
<1>6. c \notin outrun' => ClaimBooked(c)'
  BY <1>2, <1>3, <1>4, WritingBooked DEF RequestRead
<1> QED
  BY <1>1, <1>2, <1>5, <1>6, BooksKeep

(* See SubmitBooked.                                                       *)
LEMMA DeleteBooked ==
    ASSUME ClaimsInv, BooksInv, NEW r \in Request, NEW c \in Claim, Delete(r, c)
    PROVE  BooksInv'
<1> DEFINE row == [NoClaim EXCEPT !.status = "DELETED"]
<1>1. RequestsEnd
  BY CommitFacts DEF Delete
<1>2. /\ outrun' = outrun \/ outrun' = outrun \cup {c}
      /\ request[r] # Idle /\ request[r].op = "delete" /\ RequestRead(r)
      /\ c \notin outrun' => request[r].row = claim[c] /\ ClaimBooked(c)
  BY CommitReads DEF Delete
<1>3. claim' = [claim EXCEPT ![c] = row] /\ UNCHANGED <<journal, control>>
  BY DEF Delete
<1>4. /\ row \in ClaimRow /\ row.status = "DELETED"
      /\ row.journalEntryId = NoEntry
  BY ClaimsAssumption DEF NoClaim, ClaimRow, NoEntry, NoLines, ClaimLines
<1> HIDE DEF row
<1>5. OthersKept(c) /\ BooksElsewhere(c)
  BY <1>3, <1>4, WritingBooked
<1>6. c \notin outrun' => ClaimBooked(c)'
  BY <1>2, <1>3, <1>4, WritingBooked DEF RequestRead
<1> QED
  BY <1>1, <1>2, <1>5, <1>6, BooksKeep

(* Approving books the lines that were read, which are the claim's.        *)
LEMMA ApproveBooked ==
    ASSUME ClaimsInv, BooksInv, NEW r \in Request, NEW c \in Claim, Approve(r, c)
    PROVE  BooksInv'
<1>0. JournalSound /\ claim \in [Claim -> ClaimRow] /\ \A d \in Document : control[d] \in Int
  BY DEF ClaimsInv, BooksInv
<1> DEFINE row == [claim[c] EXCEPT !.status = "APPROVED"]
<1>1. /\ RequestsEnd /\ claim[c] \in ClaimRow
      /\ request[r].row.total \in ClaimTotal /\ request[r].row.lines \in LinesHeld
  BY CommitFacts DEF Approve
<1>2. /\ outrun' = outrun \/ outrun' = outrun \cup {c}
      /\ request[r] # Idle /\ request[r].op = "approve" /\ RequestRead(r)
      /\ c \notin outrun' => request[r].row = claim[c] /\ ClaimBooked(c)
  BY CommitReads DEF Approve
<1>3. Post(c, row, request[r].row.lines, request[r].row.total, {"claim"})
  BY DEF Approve
<1>4. /\ row \in ClaimRow /\ row.status = "APPROVED" /\ row.total = claim[c].total
      /\ row.lines = claim[c].lines /\ row.journalEntryId = claim[c].journalEntryId
  BY <1>1 DEF ClaimRow, ClaimStatus
<1> HIDE DEF row
<1>5. OthersKept(c)
  BY <1>0, <1>1, <1>3, <1>4, PostTakes
<1>6. BooksElsewhere(c)
  BY <1>0, <1>1, <1>3, PostBooks
<1>7. ASSUME c \notin outrun' PROVE ClaimBooked(c)'
  <2>1. /\ request[r].row = claim[c] /\ ClaimBooked(c)
        /\ claim[c].status = "SUBMITTED"
    BY <1>2, <1>7 DEF RequestRead
  <2>2. {"claim"} = AskedFor(row.status)
    BY <1>4 DEF AskedFor
  <2>3. /\ Post(c, row, row.lines, row.total, {"claim"})
        /\ row.total \in ClaimTotal /\ row.lines \in LinesHeld
    BY <1>1, <1>3, <1>4, <2>1
  <2>4. row.status \in ClaimStatus
    BY <1>4 DEF ClaimStatus
  <2> QED
    BY <1>4, <2>1, <2>2, <2>3, <2>4, PostBooked
<1> QED
  BY <1>1, <1>2, <1>5, <1>6, <1>7, BooksKeep

(* An edit starts from a claim that was not posted.                        *)
LEMMA EditBooked ==
    ASSUME ClaimsInv, BooksInv, NEW r \in Request, NEW c \in Claim, Edit(r, c)
    PROVE  BooksInv'
<1>1. PICK status \in ClaimStatus :
         Write(c, claim[c], status, request[r].row.total, claim[c].lines)
  BY DEF Edit
<1>2. /\ RequestsEnd /\ claim[c] \in ClaimRow
      /\ claim[c].lines \in LinesHeld /\ request[r].row.total \in ClaimTotal
  BY CommitFacts DEF Edit
<1>3. /\ outrun' = outrun \/ outrun' = outrun \cup {c}
      /\ request[r] # Idle /\ request[r].op = "edit" /\ RequestRead(r)
      /\ c \notin outrun' => request[r].row = claim[c] /\ ClaimBooked(c)
  BY CommitReads DEF Edit
<1>4. c \notin outrun' => claim[c].status \in {"DRAFT", "SUBMITTED", "REJECTED"}
  BY <1>3 DEF RequestRead
<1>5. /\ OthersKept(c) /\ BooksElsewhere(c)
      /\ c \notin outrun' => ClaimBooked(c)'
  BY <1>1, <1>2, <1>3, <1>4, WriteBooked
<1> QED
  BY <1>2, <1>3, <1>5, BooksKeep

(* One that brings lines does so, too; what it books is what the lines now *)
(* in the table post.                                                      *)
LEMMA ReplaceBooked ==
    ASSUME ClaimsInv, BooksInv, NEW r \in Request, NEW c \in Claim, Replace(r, c)
    PROVE  BooksInv'
<1>0. PICK status \in ClaimStatus, l \in LineList \ ListsKnown(c),
           amount \in ClaimTotal :
         /\ ValidTransition(request[r].row.status, status)
         /\ \E total \in 1 .. amount :
               Write(c, claim[c], status, total,
                     Replaced(claim[c].lines, request[r].doomed, l, amount))
  BY DEF Replace
<1>1. PICK total \in 1 .. amount :
         Write(c, claim[c], status, total,
               Replaced(claim[c].lines, request[r].doomed, l, amount))
  BY <1>0
<1>2. RequestsEnd /\ claim[c] \in ClaimRow
  BY CommitFacts DEF Replace
<1>3. total \in ClaimTotal
  BY ClaimsAssumption DEF ClaimTotal
<1>4. Replaced(claim[c].lines, request[r].doomed, l, amount) \in LinesHeld
  <2>1. claim[c].lines \in ClaimLines
    BY <1>2 DEF ClaimRow
  <2> QED
    BY <2>1, LinesWritten
<1>5. /\ outrun' = outrun \/ outrun' = outrun \cup {c}
      /\ request[r] # Idle /\ request[r].op = "replace" /\ RequestRead(r)
      /\ c \notin outrun' => request[r].row = claim[c] /\ ClaimBooked(c)
  BY CommitReads DEF Replace
<1>6. c \notin outrun' => claim[c].status \in {"DRAFT", "SUBMITTED", "REJECTED"}
  BY <1>5 DEF RequestRead
<1>7. /\ OthersKept(c) /\ BooksElsewhere(c)
      /\ c \notin outrun' => ClaimBooked(c)'
  BY <1>1, <1>2, <1>3, <1>4, <1>5, <1>6, WriteBooked
<1> QED
  BY <1>2, <1>5, <1>7, BooksKeep

(* Deleting the lines books nothing.                                       *)
LEMMA DeleteLinesBooked ==
    ASSUME ClaimsInv, BooksInv, NEW r \in Request, NEW c \in Claim, DeleteLines(r, c)
    PROVE  BooksInv'
<1>1. /\ request[r] # Idle /\ request[r].op = "edit" /\ request[r] \in RequestRow
      /\ request'[r] = [request[r] EXCEPT !.op = "replace",
                                          !.doomed = ListsIn(claim[c].lines)]
      /\ \A s \in Request \ {r} : request'[s] = request[s]
      /\ UNCHANGED <<claim, outrun, journal, control>>
  BY DEF DeleteLines, ClaimsInv, RequestSound
<1>2. RequestRead(r)'
  BY <1>1 DEF RequestRead, RequestRow, BooksInv
<1>3. \A x \in Request \ {r} : RequestRead(x)'
  BY <1>1 DEF RequestRead, BooksInv
<1>4. /\ \A d \in Document : control'[d] \in Int
      /\ \A x \in Claim \ outrun' : ClaimBooked(x)'
  BY <1>1 DEF BooksInv, ClaimBooked, Standing, AlreadyPosted, Takes
<1> QED
  BY <1>2, <1>3, <1>4 DEF BooksInv

(* Reimbursing pays out the total that was read; what was booked for the   *)
(* claim stays.                                                            *)
LEMMA ReimburseBooked ==
    ASSUME ClaimsInv, BooksInv, NEW r \in Request, NEW c \in Claim, Reimburse(r, c)
    PROVE  BooksInv'
<1>0. JournalSound /\ claim \in [Claim -> ClaimRow] /\ \A d \in Document : control[d] \in Int
  BY DEF ClaimsInv, BooksInv
<1> DEFINE row == [claim[c] EXCEPT !.status = "PAID"]
           total == request[r].row.total
           lines == request[r].row.lines
<1>1. /\ RequestsEnd /\ claim[c] \in ClaimRow
      /\ total \in ClaimTotal /\ lines \in LinesHeld
  BY CommitFacts DEF Reimburse
<1>2. /\ outrun' = outrun \/ outrun' = outrun \cup {c}
      /\ request[r] # Idle /\ request[r].op = "reimburse" /\ RequestRead(r)
      /\ c \notin outrun' => request[r].row = claim[c] /\ ClaimBooked(c)
  BY CommitReads DEF Reimburse
<1>3. Post(c, row, lines, total, {"reimbursement"})
  BY DEF Reimburse
<1>a. PICK asked : asked = {"reimbursement"}
  OBVIOUS
<1>p. /\ Post(c, row, lines, total, asked)
      /\ "claim" \notin asked /\ "reimbursement" \in asked
  BY <1>3, <1>a
<1>4. /\ row \in ClaimRow /\ row.status = "PAID" /\ row.total = claim[c].total
      /\ row.lines = claim[c].lines /\ row.journalEntryId = claim[c].journalEntryId
  BY <1>1 DEF ClaimRow, ClaimStatus
<1>5. c \notin outrun' => total = claim[c].total /\ claim[c].status = "APPROVED"
  BY <1>2 DEF RequestRead
<1> HIDE DEF row, total, lines
<1>6. OthersKept(c) /\ claim'[c] = row
  BY <1>0, <1>1, <1>p, <1>4, PostTakes
<1>7. /\ BooksElsewhere(c)
      /\ control'[Owed(c)] = control[Owed(c)]
      /\ ~Reimbursed(c) => control'[PaidOut(c)] = control[PaidOut(c)] - total
      /\ \A e \in DOMAIN journal' \ DOMAIN journal :
            journal'[e].doc = PaidOut(c) => journal'[e].amount = 0 - total
  BY <1>0, <1>1, <1>p, PostBooks
<1>8. ASSUME c \notin outrun' PROVE ClaimBooked(c)'
  <2>1. /\ AlreadyPosted(claim[c])
        /\ journal[claim[c].journalEntryId].amount = LinesPost(claim[c].lines)
        /\ Takes(PaidOut(c)) = {}
        /\ control[Owed(c)] = LinesPost(claim[c].lines) /\ control[PaidOut(c)] = 0
    BY <1>2, <1>5, <1>8 DEF ClaimBooked, Standing
  <2>2. ~Reimbursed(c)
    BY <1>0, <2>1, ReimbursedTakes
  <2>3. claim[c].journalEntryId \in DOMAIN journal
    BY <2>1 DEF ClaimsInv, ClaimSound, Takes
  <2>4. journal'[claim[c].journalEntryId].amount = LinesPost(claim[c].lines)
    BY <1>7, <2>1, <2>3 DEF BooksElsewhere
  <2>5. \A e \in Takes(PaidOut(c))' : journal'[e].amount = 0 - total
    BY <1>7, <2>1, PaidOutIsNew
  <2>6. total \in Int
    BY <1>1, ClaimsAssumption DEF ClaimTotal
  <2>7. control'[Owed(c)] = LinesPost(claim[c].lines) /\ control'[PaidOut(c)] = 0 - total
    BY <1>7, <2>1, <2>2, <2>6
  <2>8. AlreadyPosted(row)
    BY <1>4, <2>1 DEF AlreadyPosted
  <2> QED
    BY <1>4, <1>5, <1>6, <1>8, <2>4, <2>5, <2>7, <2>8
       DEF ClaimBooked, Standing, AlreadyPosted
<1> QED
  BY <1>1, <1>2, <1>6, <1>7, <1>8, BooksKeep

(* What a void reverses: the reimbursement if it read that there was one,  *)
(* and the entry of its link if it read that there was one.                *)
LEMMA ReversalsAre ==
    ASSUME NEW c, NEW row, NEW entries, entries = Reversals(c, row)
    PROVE  /\ row.status = "PAID" => /\ DOMAIN entries = {1, 2}
                                     /\ entries[1] = ReimbursementOf(c)
                                     /\ entries[2] = row.journalEntryId
           /\ row.status = "APPROVED" => /\ DOMAIN entries = {1}
                                         /\ entries[1] = row.journalEntryId
           /\ ~Standing(row) => DOMAIN entries = {}
<1> DEFINE p == row.status = "PAID"
           q == row.status \in {"APPROVED", "PAID"}
           paid == ReimbursementOf(c)
           owed == row.journalEntryId
<1>1. p \in BOOLEAN /\ q \in BOOLEAN
  OBVIOUS
<1>2. PICK S : paid \in S /\ owed \in S
  <2>1. paid \in {paid, owed} /\ owed \in {paid, owed}
    OBVIOUS
  <2> QED
    BY <2>1
<1>3. entries = (IF p THEN <<paid>> ELSE << >>) \o (IF q THEN <<owed>> ELSE << >>)
  BY DEF Reversals
<1> HIDE DEF p, q, paid, owed
<1>4. /\ p /\ q => DOMAIN entries = {1, 2} /\ entries[1] = paid /\ entries[2] = owed
      /\ ~p /\ q => DOMAIN entries = {1} /\ entries[1] = owed
      /\ ~p /\ ~q => DOMAIN entries = {}
  BY <1>1, <1>2, <1>3, TwoAtMost
<1> QED
  BY <1>4 DEF p, q, paid, owed, Standing

(* A void takes out of the books what is in them for the claim.            *)
LEMMA VoidBooked ==
    ASSUME ClaimsInv, BooksInv, NEW r \in Request, NEW c \in Claim, Void(r, c)
    PROVE  BooksInv'
<1>0. /\ JournalSound /\ claim \in [Claim -> ClaimRow]
      /\ \A d \in Document : control[d] \in Int
  BY DEF ClaimsInv, BooksInv
<1>1. RequestsEnd /\ claim[c] \in ClaimRow
  BY CommitFacts DEF Void
<1>2. /\ outrun' = outrun \/ outrun' = outrun \cup {c}
      /\ request[r] # Idle /\ request[r].op = "void" /\ RequestRead(r)
      /\ c \notin outrun' => request[r].row = claim[c] /\ ClaimBooked(c)
  BY CommitReads DEF Void
<1>3. claim'[c].status = "VOIDED"
  BY <1>0, <1>1 DEF Void, ClaimRow
<1>4. OthersKept(c)
  BY VoidKeeps
<1>5. PICK entries : entries = Reversals(c, request[r].row)
  OBVIOUS
<1> DEFINE mirrors == Mirrors(entries)
<1>6. /\ entries \in Seq(TakenBy(c))
      /\ Marked(entries) \in Seq(Booking) /\ Len(Marked(entries)) = Len(journal)
      /\ \A e \in DOMAIN journal : /\ Marked(entries)[e].doc = journal[e].doc
                                    /\ Marked(entries)[e].amount = journal[e].amount
      /\ mirrors \in Seq(Booking)
      /\ Book(Marked(entries), mirrors)
  BY <1>5, VoidWrites
<1>7. /\ \A e \in DOMAIN journal : /\ e \in DOMAIN journal'
                                   /\ journal'[e].doc = journal[e].doc
                                   /\ journal'[e].amount = journal[e].amount
      /\ \A d \in Document : control'[d] = control[d] + Booked(mirrors, d)
  BY <1>0, <1>6, BookWrites
<1>8. DOMAIN mirrors = DOMAIN entries
  BY DEF Mirrors
<1>9. \A i \in DOMAIN entries :
         /\ entries[i] \in TakenBy(c)
         /\ mirrors[i].doc = journal[entries[i]].doc
         /\ mirrors[i].amount = 0 - journal[entries[i]].amount
  BY <1>0, <1>6, MirrorOf
<1> HIDE DEF mirrors
<1>10. \A i \in DOMAIN mirrors : mirrors[i].doc \in {Owed(c), PaidOut(c)}
  BY <1>8, <1>9 DEF TakenBy
<1>11. \A d \in Document : /\ Booked(mirrors, d) \in Int
                           /\ d \notin {Owed(c), PaidOut(c)} => Booked(mirrors, d) = 0
  BY <1>6, <1>10, BookedSums
<1>12. BooksElsewhere(c)
  <2>1. \A d \in Document : control'[d] \in Int
    BY <1>0, <1>7, <1>11
  <2>2. \A d \in Document \ {Owed(c), PaidOut(c)} : control'[d] = control[d]
    BY <1>0, <1>7, <1>11
  <2> QED
    BY <1>7, <2>1, <2>2 DEF BooksElsewhere
<1>13. ASSUME c \notin outrun' PROVE ClaimBooked(c)'
  <2>1. ClaimBooked(c) /\ request[r].row = claim[c]
    BY <1>2, <1>13
  <2>2. claim[c].status \in {"DRAFT", "SUBMITTED", "APPROVED", "PAID"}
    BY <1>2, <2>1 DEF RequestRead
  <2>3. /\ Owed(c) \in Document /\ PaidOut(c) \in Document /\ Owed(c) # PaidOut(c)
        /\ Owed(c)[2] = "claim" /\ PaidOut(c)[2] = "reimbursement"
    BY ClaimDocuments
  <2>4. control'[Owed(c)] = 0 /\ control'[PaidOut(c)] = 0
    <3>1. CASE claim[c].status \in {"DRAFT", "SUBMITTED"}
      <4>1. DOMAIN mirrors = {}
        BY <1>5, <1>8, <2>1, <3>1, ReversalsAre DEF Standing
      <4>2. Booked(mirrors, Owed(c)) = 0 /\ Booked(mirrors, PaidOut(c)) = 0
        BY <1>6, <4>1, BookedSums
      <4>3. control[Owed(c)] = 0 /\ control[PaidOut(c)] = 0
        BY <2>1, <3>1 DEF ClaimBooked, Standing
      <4> QED
        BY <1>7, <2>3, <4>2, <4>3
    <3>2. CASE claim[c].status = "APPROVED"
      <4>1. DOMAIN mirrors = {1} /\ entries[1] = claim[c].journalEntryId
        BY <1>5, <1>8, <2>1, <3>2, ReversalsAre
      <4>2. /\ journal[claim[c].journalEntryId].amount = LinesPost(claim[c].lines)
            /\ claim[c].journalEntryId \in Takes(Owed(c))
            /\ control[Owed(c)] = LinesPost(claim[c].lines) /\ control[PaidOut(c)] = 0
        BY <2>1, <3>2 DEF ClaimBooked, Standing, ClaimsInv, ClaimSound
      <4>3. mirrors[1].doc = Owed(c) /\ mirrors[1].amount = 0 - LinesPost(claim[c].lines)
        BY <1>8, <1>9, <4>1, <4>2 DEF Takes
      <4>4. /\ Booked(mirrors, Owed(c)) = 0 - LinesPost(claim[c].lines)
            /\ Booked(mirrors, PaidOut(c)) = 0
        BY <1>6, <2>3, <4>1, <4>3, BookedSums
      <4> QED
        BY <1>0, <1>7, <2>3, <4>2, <4>4
    <3>3. CASE claim[c].status = "PAID"
      <4>1. /\ DOMAIN mirrors = {1, 2} /\ entries[1] = ReimbursementOf(c)
            /\ entries[2] = claim[c].journalEntryId
        BY <1>5, <1>8, <2>1, <3>3, ReversalsAre
      <4>2. /\ journal[claim[c].journalEntryId].amount = LinesPost(claim[c].lines)
            /\ claim[c].journalEntryId \in Takes(Owed(c))
            /\ Takes(PaidOut(c)) # {}
            /\ \A e \in Takes(PaidOut(c)) : journal[e].amount = 0 - claim[c].total
            /\ control[Owed(c)] = LinesPost(claim[c].lines)
            /\ control[PaidOut(c)] = 0 - claim[c].total
        BY <2>1, <3>3 DEF ClaimBooked, Standing, ClaimsInv, ClaimSound
      <4>3. ReimbursementOf(c) \in Takes(PaidOut(c))
        <5>1. /\ ReimbursementOf(c) \in DOMAIN journal
              /\ journal[ReimbursementOf(c)].doc = PaidOut(c)
              /\ journal[ReimbursementOf(c)].amount < 0
          BY <1>0, <4>2, ReimbursedTakes
        <5>2. journal[ReimbursementOf(c)].amount \in Int
          BY <1>0, <5>1 DEF JournalSound, Booking, EntryRow
        <5> QED
          BY <2>3, <5>1, <5>2 DEF Takes
      <4>m. /\ mirrors[1].doc = PaidOut(c)
            /\ mirrors[1].amount = 0 - journal[ReimbursementOf(c)].amount
            /\ mirrors[2].doc = Owed(c)
            /\ mirrors[2].amount = 0 - journal[claim[c].journalEntryId].amount
        BY <1>8, <1>9, <4>1, <4>2, <4>3 DEF Takes
      <4>4. /\ mirrors[1].doc = PaidOut(c)
            /\ mirrors[1].amount = 0 - (0 - claim[c].total)
            /\ mirrors[2].doc = Owed(c)
            /\ mirrors[2].amount = 0 - LinesPost(claim[c].lines)
        BY <4>2, <4>3, <4>m
      <4>5. Booked(mirrors, Owed(c)) = mirrors[2].amount
        BY <1>6, <2>3, <4>1, <4>4, BookedSums
      <4>6. Booked(mirrors, PaidOut(c)) = mirrors[1].amount
        BY <1>6, <2>3, <4>1, <4>4, BookedSums
      <4> QED
        BY <1>0, <1>7, <2>3, <4>2, <4>4, <4>5, <4>6
    <3> QED
      BY <2>2, <3>1, <3>2, <3>3
  <2> QED
    BY <1>3, <2>4 DEF ClaimBooked, Standing
<1> QED
  BY <1>1, <1>2, <1>4, <1>12, <1>13, BooksKeep

(* A request reads a status that its operation starts from.                *)
LEMMA BeginBooked ==
    ASSUME ClaimsInv, BooksInv, NEW r \in Request, NEW c \in Claim, Begin(r, c)
    PROVE  BooksInv'
<1>1. PICK op \in {"submit", "approve", "reimburse", "edit", "delete", "void"} :
         /\ Permitted(c, op)
         /\ request' = [request EXCEPT ![r] = [op |-> op, claim |-> c, row |-> claim[c],
                                               doomed |-> {}]]
  BY DEF Begin
<1>2. UNCHANGED <<claim, outrun, journal, control>>
  BY DEF Begin
<1>3. /\ request'[r] = [op |-> op, claim |-> c, row |-> claim[c], doomed |-> {}]
      /\ \A x \in Request \ {r} : request'[x] = request[x]
  BY <1>1 DEF ClaimsInv
<1>4. /\ op = "submit" => claim[c].status \in {"DRAFT", "REJECTED"}
      /\ op = "approve" => claim[c].status = "SUBMITTED"
      /\ op = "reimburse" => claim[c].status = "APPROVED"
      /\ op = "edit" => claim[c].status \in {"DRAFT", "SUBMITTED", "REJECTED"}
      /\ op = "delete" => claim[c].status \in {"DRAFT", "REJECTED"}
      /\ op = "void" => claim[c].status \in {"DRAFT", "SUBMITTED", "APPROVED", "PAID"}
  BY <1>1 DEF Permitted, Submittable, Approvable, Reimbursable, Editable, Deletable,
              Voidable
<1>5. RequestRead(r)'
  BY <1>3, <1>4 DEF RequestRead
<1>6. \A x \in Request \ {r} : RequestRead(x)'
  BY <1>3 DEF RequestRead, BooksInv
<1>7. /\ \A d \in Document : control'[d] \in Int
      /\ \A x \in Claim \ outrun' : ClaimBooked(x)'
  BY <1>2 DEF BooksInv, ClaimBooked, Standing, AlreadyPosted, Takes
<1> QED
  BY <1>5, <1>6, <1>7 DEF BooksInv

(* A request that stops has booked nothing.                                *)
LEMMA RestBooked ==
    ASSUME ClaimsInv, BooksInv, UNCHANGED <<claim, outrun, journal, control>>,
           request' = request \/ \E r \in Request : Abandon(r)
    PROVE  BooksInv'
<1>1. \A r \in Request : request'[r] = request[r] \/ request'[r] = Idle
  BY DEF ClaimsInv, Abandon
<1>2. \A r \in Request : RequestRead(r)'
  BY <1>1 DEF RequestRead, BooksInv, Idle
<1>3. /\ \A d \in Document : control'[d] \in Int
      /\ \A x \in Claim \ outrun' : ClaimBooked(x)'
  BY DEF BooksInv, ClaimBooked, Standing, AlreadyPosted, Takes
<1> QED
  BY <1>2, <1>3 DEF BooksInv

(* The inductive invariant of the books.                                   *)
THEOREM ClaimsStayBooked == ClaimsSpec => []BooksInv
<1>1. ClaimsInit => BooksInv
  <2> SUFFICES ASSUME ClaimsInit PROVE BooksInv
    OBVIOUS
  <2>1. \A d \in Document : control[d] = 0
    BY DEF ClaimsInit, JournalInit
  <2>2. \A d : Takes(d) = {}
    <3>1. journal = << >>
      BY DEF ClaimsInit, JournalInit
    <3> QED
      BY <3>1 DEF Takes
  <2>3. ASSUME NEW c \in Claim PROVE ClaimBooked(c)
    <3>1. claim[c] = NoClaim /\ control[Owed(c)] = 0 /\ control[PaidOut(c)] = 0
      BY <2>1, ClaimDocuments DEF ClaimsInit
    <3>2. claim[c].status = "NONE" /\ ~AlreadyPosted(claim[c])
      BY <3>1 DEF NoClaim, AlreadyPosted
    <3> QED
      BY <2>2, <3>1, <3>2 DEF ClaimBooked, Standing
  <2>4. \A r \in Request : RequestRead(r)
    BY DEF ClaimsInit, RequestRead, Idle
  <2> QED
    BY <2>1, <2>3, <2>4 DEF BooksInv
<1>2. ASSUME ClaimsInv, BooksInv, ClaimsNext PROVE BooksInv'
  <2>1. ASSUME NEW c \in Claim, CreateClaim(c) PROVE BooksInv'
    BY <1>2, <2>1, CreateBooked
  <2>2. ASSUME NEW r \in Request, NEW c \in Claim, RequestStep(r, c) PROVE BooksInv'
    BY <1>2, <2>2, BeginBooked, DeleteLinesBooked, SubmitBooked, ApproveBooked,
       ReimburseBooked, EditBooked, ReplaceBooked, DeleteBooked, VoidBooked
       DEF RequestStep
  <2>3. ASSUME NEW r \in Request, Abandon(r) PROVE BooksInv'
    BY <1>2, <2>3, RestBooked DEF Abandon
  <2> QED
    BY <1>2, <2>1, <2>2, <2>3 DEF ClaimsNext
<1>3. ASSUME ClaimsInv, BooksInv, UNCHANGED claimVars PROVE BooksInv'
  BY <1>3, RestBooked DEF claimVars
<1> QED
  BY <1>1, <1>2, <1>3, ClaimsStaySound, PTL DEF ClaimsSpec

(* The books agree with a claim: by its status, what is owed is what the   *)
(* lines in the table post and what is paid out is the total in the row,   *)
(* unless some transaction was committed on a row that was no longer the   *)
(* one it had checked.                                                     *)
THEOREM ClaimsBooksFollowStatus == ClaimsSpec => []BooksFollowStatus
<1>1. BooksInv => BooksFollowStatus
  BY DEF BooksInv, ClaimBooked, Standing, BooksFollowStatus
<1> QED
  BY <1>1, ClaimsStayBooked, PTL
=============================================================================
