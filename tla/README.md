# Formal models of the HaypBooks backend

HaypBooks is an accounting product: a NestJS backend
(`src/Haypbooks/Backend/src`, TypeScript, Prisma over PostgreSQL at READ
COMMITTED) and a Next.js frontend. The state that has to be right is in the
backend: the journal, the account balances cached beside it, the accounting
periods, the tree of accounts, the documents (invoices, bills, payments,
credits, claims) that post to the journal, and the job that makes documents at
night. This directory models that core in TLA+, checks it with TLC and proves
part of it with TLAPS. Paths below are relative to
`src/Haypbooks/Backend/src` unless they start with `prisma/`.

## 1. Inventory

| Component | State | Operations | Interacts with |
|---|---|---|---|
| Journal service: `accounting/accounting.repository.ts`, `accounting.service.ts` | `JournalEntry` (status, number, lines, date, deletedAt, previousId), `Account.balance` | create, edit, post, void, delete | period gate, active accounts, balances |
| GL integration: `shared/gl-integration.ts` | the same tables | `createAndPostJE`, `createReversingJE`, `resolveAccount` | called inside the transactions of AP, AR, banking, period close, opening balances |
| Period close: same repository and service | `AccountingPeriod.status/closedAt` | create, close, reopen, complete close workflow | posts closing entries with `createAndPostJE`, reads drafts and trial balance |
| Chart of accounts: same service | `Account` (parentId, deletedAt, isActive, normalSide) | create (opening balance), update, move, deactivate, delete | the journal reads isActive and normalSide |
| Sub-ledger service: `shared/sub-ledger.service.ts` | `journalEntryId` of documents | post and reverse invoices, payments, bills, vendor credits, mileage, per diem, expense claims, credit notes, write-offs, deposits | journal, period gate, posting locks |
| Receivables: `ar/` | invoices, payments, credit notes, write-offs | create, send, void, pay, apply, write off | sub-ledger, GL integration |
| Payables: `ap/` | bills, bill payments, vendor credits, mileage logs, per diem claims | create, submit, approve, unapprove, edit, void, pay, apply, delete | sub-ledger, GL integration |
| Expense claims: `expenses/expenses.service.ts` | claims and their lines | create, submit, approve, reimburse, edit, void, delete | sub-ledger |
| Recurring expenses: `expenses/recurring-expense.*` | schedules | create, edit, pause, cancel; a job at 02:00, also started by hand | makes claims |
| Statement scheduler: `ar/statement.scheduler.ts` | schedules of statements | a daily job | mail |
| Banking: `banking/` | bank accounts, transactions, deposits, transfers, reconciliations | import, categorize, match, deposit, transfer, reconcile | GL integration, sub-ledger |
| Inventory: `inventory/` | stock, movements, fixed assets | receive, ship, adjust, depreciate | GL integration |
| Authentication: `auth/` | users, sessions, one-time codes, pending sign-ups | sign up, verify, log in, refresh | mail |
| Health page and reports: `reporting/`, `general-ledger/` | none | read-only checks | journal, accounts |
| Payroll, tax, projects, time, tenants, companies, onboarding | CRUD rows | | |
| Frontend | none that the books depend on | | calls the backend |

What is hard here:

* **Read, check, then write by id.** Every operation of the journal, of a claim
  and of the account tree reads a row, checks what it read, and later runs a
  transaction that writes to the row by its id. Nothing locks the row, and
  `JournalEntry.version` ("version counter for optimistic concurrency",
  `prisma/schema.prisma:5531`) is written by one branch and compared by none.
* **A cached balance beside the journal.** `Account.balance` is moved by
  increments computed from lines that were read earlier, by two services with
  two conventions for an unset `normalSide`.
* **Corrections.** A posted entry is never changed: an edit voids it and posts
  a replacement that takes its number; a void marks it and posts a mirror
  image. What is "in the books" is a question over the whole history.
* **Three columns that say one thing.** A document has a status, a
  `postingStatus` and a `journalEntryId`. Each operation tests one or two of
  them and writes another one or two; the link outlives the entry it points to.
* **Lost work.** A request can stop between any two of its steps, the nightly
  job between any two of its queries, and nothing remembers where.
* **Closing.** A close posts what it read of the balances, while documents
  post; a period can be closed, reopened, and closed again.
* **Walking what moves.** The cycle check of the account tree reads one account
  at a time, while others move.

What makes each component right is stated as properties; `hazards` in
`PROJECT.json` lists where it bites.

## 2. Modules

`LedgerArithmetic` - lines, balance test, mirror image, sides. A list of lines
is represented by its net debit per account, in the smallest currency unit:
everything the code computes from lines (the balance test, the change of every
account's balance, the mirror image) is linear in it, so lists with equal net
behave alike. The 0.001 tolerance of the code is below that unit.

`GeneralLedger` - the journal of one company. Rows are a sequence in the order
of creation (the position is the id). A `Request` has a program counter and what
it read (`work`); an operation is a read (`PostRead`), checks in the order of
the code (`PostGuard`), and a commit (`PostCommit`), each an action, so requests
interleave as queries do. A transaction is one action: its balance updates are
increments of single rows and its other writes do not depend on reads inside.
`Abandon` ends a request before its commit. The unique index on `entryNumber`
makes a commit that would repeat a number fail and roll back. Entry numbers are
records (how many `VOID-` prefixes, and the JE number or the id), not strings.
An edit of a draft replaces its lines in one action; two that overlap may also
leave the lines of both, each a list that balances, so that their sum is one
(`accounting/accounting.repository.ts:469-496`), which no property here tells
apart from an edit to that sum. The statuses REVIEWED and APPROVED exist in the
schema and no code writes them. `createJournalEntry` followed by
`postJournalEntry` (a caller who asks for POSTED) is `CreateCommit` followed by
`PostRead`, with other requests in between, as in the code. In this module
accounts do not change their active flag and periods do not close, but any of
them may be inactive or closed from the start.

`PeriodClose` - extends `GeneralLedger` with managers who close and reopen.
`CloseRead` reads the income and expense accounts, `CloseCommit` posts up to
three entries and closes the period; in between, other requests may post. From
its first write the close holds the row lock of Income Summary, so the balance
it reads there is its own, and the rest is one action. With no income and no
expense to close there is no such write before it reads that balance:
`SummaryRead` is then a step of its own, and of two closes each may post the
same balance to Retained Earnings. `ReopenRead` finds the closing entries that
are still POSTED, `ReopenCommit` posts their mirror images, in any order, since
the query asks for none. `CompleteCloseWorkflow` checks drafts and the trial
balance and then goes on as a close. Neither operation asks whether the period
is closed. `DocumentsSpec` is the same system with only documents beside the
managers; it is small enough for two managers and longer histories. `Unrelated`
says that the replacement of an edited closing entry may keep description and
date, which is how `reopenPeriod` recognises closing entries.

`DocumentBooks` - the abstract specification of a document's place in the
books: its amount is entered once, as a whole, and taken out once, as a whole.
It has a stage per document (out, in, gone) and what the books carry of it.
`Receivables` (for invoices) and `Vouchers` implement it: each instantiates it
with a refinement mapping from the link, the status of the linked entry and
the control account, and has `DocumentBooks!BooksSpec` as a property
(`InvoicesKeepBooks`, `VouchersKeepBooks`). `Payables` does not: a bill that is
unapproved, approved again and unapproved again is reversed twice, since
unapproving does not ask whether the entry is VOIDED; what does hold is
`BillCarriedOnce`. Neither does `ExpenseClaims`, where overlapping requests
break it.

`SubLedger` - how documents post. A journal entry is reduced to its document,
the amount it moves the control account (Accounts Receivable, Accounts Payable,
accrued expenses) by and its status; `control` is the balance of that account,
split by document, and is moved by increments as in the code.

`Receivables` extends it with invoices, customer payments and the applications
of one to the other. An operation that needs several transactions (send: mark,
then post; void: reverse, then void; record a payment: store and apply, then
post; void a payment: take back and reverse, then reverse again) is one action
per transaction, and `todo` is the transaction to come. `Fail` drops it: the
process stopped, the period is closed or locked, the number is taken, a system
account is missing. Nothing remembers it, and the caller may start over.
`FallDue` is time passing; overdue invoices are marked whenever invoices are
fetched, as in `transitionOverdueInvoices`. Requests do not overlap in this
module, because a transaction reads a balance and writes it back. Left out:
`postingStatus` and `paymentStatus` of an invoice, which no operation reads;
customers, credit limits, currencies; the other accounts of an entry. Amounts
are above the tolerances of the code (0.005, 0.01).

`Deposits` extends `Receivables` with the deposits that take payments to the
bank (`createDeposit`, `postDeposit`, `voidDeposit`); the two share the
payments, and a payment may be voided while a deposit has it. `deposited` is the
flag `isDeposited` of the payments; which deposit a payment is in only the lines
of the deposits say, and a void deposit keeps its lines. `reposted` is a history
variable: the deposits that were posted when they were void. `Destinations` is
where callers send payments: one that goes straight to a bank account is flagged
from the start. Posting a deposit fails after it marked the deposit (see below),
so deposits have no part in the journal. Left out: bank accounts, currencies,
the total, which follows from the lines.

`Payables` extends `SubLedger` with bills and bill payments. A bill goes from
draft over pending to approved and back; it is posted and reversed in the
transaction that approves and unapproves it. `recordBillPayment` has three
transactions - record and apply, post, mark POSTED - of which `paying` holds the
rest; `StopPaying` drops it, and nothing tries again. Posting may find no cash
account, and then posts nothing and says nothing. A purchase order that is
converted makes a bill as `CreateBill` does. There is no action for
`voidBillPayment`: it writes a column `status` that `BillPayment` does not have
(`ap/ap.repository.ts:429`, `prisma/schema.prisma:9578-9622`), so its
transaction can never commit. A bill has two amounts (`BillAmounts`): its total,
the sum of the amounts sent, which is what balances and payments go by, and what
its lines come to, which is what is posted: the positive ones only, and
`quantity * rate` where `updateBill` counts a missing amount as 0. So a bill may
be in the books at more than its total, which may even be negative, and never at
less. Left out: the lines one by one, taxes on a line and taxes withheld, which
no operation on bills in this code writes, vendors, currencies, the number of a
bill and its retry.

`Vouchers` extends it with vendor credits, mileage logs and per diem claims.
They are posted when somebody writes the status APPROVED into them (a vendor
credit: when it is applied), in the same transaction. What is delicate is that
an edit may write any status at any time: `UpdateVoucher` and
`UpdateVendorCredit` do. The lines of a vendor credit never change, because
their replacement is a nested create that the database client refuses
(`ap/ap.repository.ts:543`). Left out: a caller who writes `postingStatus` or
the link itself, which the unvalidated body of `updateVendorCredit` would let
it do; what a credit is applied to, which is not stored.

Where a mirror image is made by `createReversingJE` of an entry that names no
user - those of claims, mileage logs and per diem claims - or by `reopenPeriod`,
its `createdById` is the string `'system'` (`shared/gl-integration.ts:234`,
`accounting/accounting.repository.ts:901`), for which the foreign key to the
users (`prisma/schema.prisma:5524`) needs a user of that id. No code makes one;
without it these transactions always fail. The modules let them succeed or
fail, so that what they show holds either way.

`ExpenseClaims` extends `SubLedger` with expense claims, under requests that overlap.
`Begin` reads the claim and asks what the operation asks; the commit acts on
the row that was read, with `Commit` for what all of them share. A commit is
one action although it has several statements: it writes the claim's row first,
and of two the second waits there until the first is done. A void looks for the
entry to reverse before its transaction, so that it looks in `Begin`. The
policy checks only refuse, which `Abandon` does at any time. Each claim is two
documents, what is owed and what was paid out. `outrun` is a history variable:
the claims some transaction was committed to on a row, or on lines, that had
changed since they were read. A claim has lists of lines, each of which somebody
sent, by what its positive lines come to; a transaction inserts a list and
deletes those it finds. An edit that brings lines is two steps, because it
deletes before it locks the row: `DeleteLines` notes the lists it sees, `Replace`
takes those away and adds its own beside any that came in between. What is owed
is what the lines post, what is paid out is the total, and negative lines make
the second less than the first. Left out: the lines one by one; claims whose
total is zero or negative.

`RecurringExpenses` - the nightly job. A run reads the schedules that are due,
then takes them one by one: look for today's claim (`TakeNext`), make it
(`GenerateClaim`), move the due date (`Advance`), each a query of its own with
no transaction around them. The cron run and a manual run overlap with each
other, with edits and cancellations of schedules, with failing queries
(`FailOne`) and with the end of the process (`Crash`); `NewDay` passes the
night, with or without the cron run. Dates are days to the due date, relative
to today, so that the state space is finite; `claimsToday`, `claims`, `faults`
and `overlaps` are history variables the properties count with. A run ends on
the day it starts; months and years are a constant `Period` of days.

`ChartOfAccounts` - the tree of accounts. A move walks from the new parent to
the top, one query per account (`Walk`), and refuses if it meets the account it
moves (`Meets`); nothing is locked between the turns of the walk, or between
the walk and the update (`Move`). Beside it accounts are created, moved to the
top (which checks nothing) and deleted. `crossed` is a history variable: an
account was put under another while a second request was on its walk. Left out:
codes, types, the active flag and the balance, on which a request may only fail
(`Abandon`); the opening balance, which would need the state of `GeneralLedger`
beside the tree.

`MC...` - instances for TLC. `GeneralLedgerProofs`, `SubLedgerProofs`,
`ReceivablesProofs`, `PayablesProofs`, `VouchersProofs`, `ExpenseClaimsProofs`,
`RecurringExpensesProofs`, `ChartOfAccountsProofs` - theorems.

## 3. Runs

All passing runs check every reachable state of a small instance.

| Run | Instance | States | What it shows |
|---|---|---|---|
| `ledger_serial` | 1 request at a time, 2 accounts, 4 entries | 0.2 M | after any sequence of creates, posts, edits, voids, deletes, document entries and reversals, abandoned ones included: the balances are those of the entries in force (`BooksMatchJournal`), JE numbers have no gaps and no repeats, an entry is corrected at most once and only if VOIDED, statuses only move forward, a posted entry's lines never change (its date, too, but there is one period here: that part is carried by the theorem) |
| `ledger_races` | 2 overlapping requests, 3 entries, symmetric | 2.4 M | with every interleaving, debits and credits of the cached balances cancel, and no entry is VOIDED without its replacement or mirror image |
| `close_ledger` | 1 manager, 1 request, 5 accounts, 5 entries | 2.3 M | closing and reopening beside any journal operation, on the closing entries too: books still match, and a reopened period has nothing of its last close left, unless somebody edited a closing entry away |
| `close_documents` | 2 managers, documents only, 7 entries, amounts 3 and 1 | 0.35 M | two closes and reopenings overlap while documents post: books match, and a close leaves what was posted in the meantime, and nothing else, on the income and expense accounts |
| `receivables` | 2 invoices, 2 payments and 2 deposits of which 3 are made, amounts up to 2, 4 entries, symmetric | 1.4 M | what the books, the balances and the applications say of a document agree after any sequence of operations, each of which may stop half-way and be called again; the whole implements `DocumentBooks`; a payment is in one deposit at most, and flagged exactly then, unless a void deposit was posted again |
| `payables` | 2 bills and 2 payments of which 3 are made, amounts up to 2, totals from -1, 4 entries, symmetric | 0.96 M | a bill is carried once, at what its lines come to, exactly while its entry is in force; its balance is what payments leave of it; it leaves the books only while nothing is paid on it, although unapproving, editing and voiding never look at the payments |
| `vouchers` | a vendor credit, a mileage log, a per diem claim, amounts 0 and 1, 4 entries | 0.26 M | whatever statuses are written into them in whatever order, each document is entered once and taken out once (it implements `DocumentBooks`), and a deleted vendor credit has left nothing in the books |
| `claims` | 1 claim, 2 overlapping requests, 3 lists of lines of up to 2 each, 6 entries, symmetric | 1.2 M | no overlap posts or reimburses a claim twice, or reimburses what was never owed; the books say what the status, the lines and the total ask for, unless a transaction was committed on a row or lines that had changed |
| `recurring` | 2 schedules, the cron run and a manual one, period 2, 1 fault | 0.55 M | one claim a day and one more per overlapping run; one claim a due date and one more per fault; an overdue schedule catches up |
| `chart` | 3 accounts, 2 requests | 0.43 M | a ring, and a walk that does not end, need two walks at the same time |

The bounds are named: `MaxEntries`, `MaxAmount`, `MaxDocuments`, `MaxPaid`,
`MaxPayables`, `MaxNegative`, `MaxVoucher`, `MaxClaimed`, `MaxLate`,
`MaxFaults`, and the sets `Lines`, `Request`, `Manager`, `Invoice`, `Payment`,
`Bill`, `BillPayment`, `Deposit`, `Destinations`, `VendorCredit`, `MileageLog`,
`PerDiem`, `Claim`, `LineList`, `Recurring`, `Run`, `Account`, `Period`.

Why they are enough for what they ask:

* Lines are one balanced sale, one balanced refund of another size (so that a
  replacement differs from what it replaces) and one unbalanced list (so that
  the balance test matters). Four entries hold an entry, its replacement, the
  replacement's replacement and a mirror image; three are enough for two
  requests to correct the same entry.
* Closing posts up to three entries and reopening as many mirror images: seven
  hold a sale, a close, and its reopening.
* Amount 2 tells a partly paid document from an open and a paid one; three
  documents are two payments of one invoice or bill, or one payment of two; four
  entries are a post, a reversal and two payments, or a second post. A total of
  -1 (`MaxNegative`), and totals of 0, 1 and 2 under lines of 2, are the ways in
  which the total of a bill and its lines come apart.
* Two deposits of one payment are what `HeldOnce` is about; the third document
  is the payment. `Destinations` is UNDEPOSITED_FUNDS in this run, with which
  a payment has a way into a deposit; that payments which start out flagged
  change nothing is proved (`PaymentsHeldOnce`, for both destinations).
* Vouchers do not refer to each other; one of each kind and four entries show
  one posted and reversed while another is, too. Amount 0 is the claim of no
  amount, 1 any other: the posted amount is compared with zero only.
* Two requests are a race. Six entries hold a claim, its reimbursement, both
  mirror images, and two more that should not be there. Three lists of lines are
  the one that two edits read and the two that they bring. Amounts 1 and 2 tell
  an edited claim from the one that was read, and a total from what the lines
  post.
* Two schedules let an error in one disturb the other. Period 2 is the least at
  which a schedule that takes one due date a day gains on the calendar (the real
  ones have 7 or more). `MaxLate` is where counting of late days stops: a
  schedule that is later only needs more days of the same. One fault is one
  crash, missed night, failing query or overlapping run, at any point; with one
  the counts of `OncePerDay` and `OnePerDueDate` reach 2. Both are proved for any
  number of them.
* Three accounts are the smallest ring that is not two accounts exchanged, with
  a walk of three turns.

CHECK_DEADLOCK stays on where somebody can always call the next operation. It
is off in `payables`, `payables_reapproval`, `vouchers` and `claims`: documents
there come to an end (deleted, voided), the bounds on their number are reached,
and the system owes nobody anything more.

Fairness is assumed in two modules, and nowhere else: what users do is never
owed. In `RecurringExpenses`, days pass once the cron run of the day was
started (`WF(NewDay /\ Cron \in ran)`), the process starts the cron run on a day
it is up (`WF(StartRun(Cron))`; a missed night is a fault), and a run that was
started goes on (`WF(RunStep(w))`: a `for` loop of awaited queries, whose errors
are caught). Faults are bounded by `MaxFaults`, which says they are finitely
many: with a crash every night nothing catches up. This also assumes away a
schedule that can never be served, its workspace or its employee being gone: it
fails every night and stays where it is. In `ChartOfAccounts` a
request on its walk goes on (`WF(Walk(r))`), a `while` loop of awaited queries;
it may still be abandoned.

Two runs expect a violation. They show a place where the code does not do what
it says of itself; the text it contradicts is quoted in `findings`.

| Run | What happens |
|---|---|
| `receivables_void_payment` | repository and service both post the mirror image of a voided payment |
| `payables_reapproval` | a bill that is approved, unapproved and approved again is APPROVED, payable, and owed nothing in the books: it keeps its link to the reversed entry, and posting tests only the link |

### Other disagreements met while modelling

There is no run for these. Those the modules contain (the action does what the
code does) are marked with the module; the rest was found on reading.

Journal and close:

* The health page sums POSTED lines (`reporting/ledger-health.service.ts:190`,
  `:197`). A void marks the entry VOIDED and posts a mirror image that is POSTED
  (`accounting/accounting.repository.ts:647`), so that it counts twice in this
  sum and the page reports an account as drifted after every void.
  (`GeneralLedger`; `BooksMatchJournal` has the sum that is right.)
* "Monotonically increasing version counter for optimistic concurrency"
  (`prisma/schema.prisma:5531`): no write compares it. Two overlapping posts of
  one draft both add its lines, an edit replaces the lines of an entry that was
  posted meanwhile, a delete removes it, and two reversals both post a mirror
  image. (`GeneralLedger`)
* An account without `normalSide` takes DEBIT in the journal service and the
  side of its type in `createAndPostJE` (`shared/gl-integration.ts:10`): a
  credit account is then moved one way by the one and the other way by the
  other. (`LedgerArithmetic`; hence the hypothesis `SidesAgree` of the theorems
  below.)
* `closePeriod` says "net income → credit retained earnings"
  (`accounting/accounting.repository.ts:838`); a profitable period lowers
  Retained Earnings. (`PeriodClose`)
* "Cannot post to closed period" (`accounting/accounting.repository.ts:556`):
  the edit of a posted entry (`:384`) makes no such check, and a post checks
  (`:545`) before its transaction. (`PeriodClose`)
* "Balanced: total debits equal total credits"
  (`accounting/accounting.service.ts:982`): the trial balance shows a negative
  balance as zero (`accounting/accounting.repository.ts:957`). (`PeriodClose`)
* Two closes that overlap and have no income and no expense to post both take
  the balance of Income Summary to Retained Earnings. Contra accounts are
  doubled at a close instead of zeroed; after close, reopen,
  close, reopen the closing entries of the first close are reversed a second
  time; two managers who reopen at once both post the mirror images.
  (`PeriodClose`)
* Entry numbers are compared as strings, so that after JE-9999 none can be
  found, and they are unique over all companies while each company counts its
  own.

Receivables:

* `sendInvoice` turns a PAID or VOID invoice into a SENT one; a payment of a
  DRAFT or VOID invoice makes it PAID or SENT without an entry in the books.
  (`Receivables`)
* The reversals of credit notes and write-offs ask neither for their status nor
  for an entry: voiding twice reverses twice.

* `applyCreditNoteToInvoice` (`ar/ar.repository.ts:1781-1817`) lowers the
  balance of an invoice and makes it PAID without a payment, a VOID one, too,
  and neither the sum of the payments nor a void takes that into account. So
  `SettledByPayments` and `VoidIsEmpty` hold of payments only: with credit
  notes, which are not modelled, the code breaks both.

Payables, vouchers, claims:

* A bill is posted at what its lines come to, not at its total. `updateBill`
  takes a line without an amount for 0 in the total (`ap/ap.repository.ts:231`)
  and stores it as `quantity * rate` (`:249`); `postBillToGL` posts the positive
  lines only (`shared/sub-ledger.service.ts:556-591`), while the total sums all.
  A draft edited with quantities and rates alone is approved with total 0 and
  owed in full in the books; and no payment can be applied to it. (`Payables`)
* A claim with lines of 100 and -20 has the total 80
  (`expenses/expenses.service.ts:111`, `:402`, `:485`), is owed at 100
  (`shared/sub-ledger.service.ts:1463-1477`) and reimbursed at 80: 20 stay owed,
  although no two requests overlap. (`ExpenseClaims`; `BooksFollowStatus` says
  so)
* `voidBillPayment` can never commit (see `Payables` above): a recorded payment
  cannot be taken back.
* `recordBillPayment` in three transactions: a bill may be PAID, for good, with
  no entry for the payment (`Payables`). Every payment from a bank account ends
  so: `postBillPaymentToGL` takes the id of the bank account for that of a
  ledger account (`shared/sub-ledger.service.ts:743`), which the foreign key
  refuses, and the payment stays recorded and applied.
* A bill that is unapproved, approved again and unapproved again is reversed a
  second time: Accounts Payable is then short of its amount. Voiding a bill that
  was unapproved throws, since the entry it is linked to is VOIDED already.
  (`Payables`)
* `updateVendorCredit` with lines always fails (`ap/ap.repository.ts:543`).
* A mileage log can be deleted while it is posted; a posted per diem claim can
  be set to DRAFT and then deleted; amounts can be edited after posting; a
  document that is created with the status APPROVED is never posted; one that is
  applied or approved again after a void posts nothing and says POSTED.
  (`Vouchers`: this is why only vendor credits have `DeletedCreditIsOut`.)
* Two overlapping edits of a claim both delete the old lines and both insert
  theirs (`expenses/expenses.service.ts:408`, `:491`), also if status and total
  stay as they were: the claim then posts the lines of both. Two overlapping
  voids reverse the
  entry twice, and an approval posts the lines it read, not those the claim has
  by then. (`ExpenseClaims`, in the states that `outrun` marks: it compares the
  lines as well as the row)
* Voiding a posted claim, a mileage log or a per diem claim, and reopening a
  period that has closing entries, may always fail, for want of a user
  `'system'` (section 2).
* A status in lower case passes the guard and is not posted.

Recurring expenses and statements:

* After a crash between the claim and the due date the next day's run makes the
  claim again: "already generated today" does not look further back. A run
  overwrites an edit or a cancellation that was made since it read the schedules
  (COMPLETED, and the due date, are written blindly). (`RecurringExpenses`)
* A monthly schedule of the 31st moves to the 1st or 2nd or 3rd of the month
  after the next and stays there (`setMonth`); a run that crosses midnight tests
  another day than it started on.
* The next run of a daily statement schedule is a day after the mail went out,
  which is after the next day's job: it runs every other day
  (`ar/statement.scheduler.ts:134`). `sendEmail` never throws, so that a
  statement whose mail failed is marked as sent.

Chart of accounts:

* Two moves in the tree that overlap can make a ring, and a later walk that
  meets it goes round it for ever. (`ChartOfAccounts`, in the states that
  `crossed` marks)
* The opening balance of a new account is two updates and an entry without a
  transaction (`accounting/accounting.service.ts:543`); a deactivation tests a
  balance that may have changed when it writes.

Banking:

* A deposit never gets into the books. `postDeposit` marks it POSTED and then
  posts a line to the account `deposit.bankAccountId`
  (`shared/sub-ledger.service.ts:787`), the id of a bank account, which the
  foreign key `JournalEntryLine_accountId_fkey` to the ledger accounts refuses;
  the mark stays. (The amount, too, is read from a column that `BankDeposit`
  does not have, `:795`.) (`Deposits`)
* Posting a deposit does not ask whether it is VOID, and voiding it again
  releases payments that are in another deposit by then
  (`banking/banking.repository.ts:374`). Voiding a payment does not ask whether
  it was deposited. (`Deposits`; the first in the states that `reposted` marks)
* Making a deposit marks its payments without a condition, so that of two that
  overlap both take them.
* Categorizing a transaction again posts it again; a transfer is three
  transactions.

Inventory: depreciation is posted by a run that takes no lock, twice when two
overlap.

## 4. Proofs

The theorems hold for every value of the constants that satisfies the modules'
assumptions: any number of accounts, requests, entries, documents, schedules.
The assumptions are those the modules declare: accounts have a side, lines are
integer vectors, there is a period, documents of different kinds are different,
bounds are naturals, runs and the documents whose amounts are added up are
finitely many, a schedule has a period of two days
or more, "no parent" is not an account. None of them restricts what the code
may do.

Three hypotheses stand in the statements themselves, because the code really
breaks the property where they fail:

* `SidesAgree`: both services take the same side for every account of the chart.
* `[]NoOverlap`: one request at most is between its read and its transaction.
  Which request that is, how many there have been, and which of them were
  abandoned is open, and entries of documents and of closes come in at any time.
* `OneManager`: one manager at a time closes or reopens.

### Journal: `GeneralLedgerProofs`

Where requests overlap:

* `TypeCorrect`: `Spec => []TypeOK`.
* `BalancesAlwaysInBalance`: `SidesAgree => (Spec => []LedgerInBalance)`. The
  assumption is that both services use the same side for every account of the
  chart. It is needed: where they differ, an entry posted by one and reversed by
  the other leaves its amount behind.
* `VoidedAlwaysLeavesTrace`: `Spec => []VoidedLeavesTrace`.

`LedgerInBalance` is not inductive: a commit applies lines the request READ, so
what is in every request's memory must balance too. The inductive invariant
`RowsSound` says that every row and everything read balances, next to the
types; `RowsAlwaysSound` proves it, with one step per action (`StepSound`), and
`StepInBalance` uses it. `VoidedLeavesTrace` needs that a request about to
create an entry creates a draft (`CreatesDraftsInductive`), and a lemma on what
a step may do to the journal (`JournalShape`): keep it, rewrite one row without
voiding it, append, or void a row and append its replacement or mirror image.

Where they do not (`Spec /\ []NoOverlap`):

* `SerialBooksMatch`: `[]BooksMatchJournal`, if `SidesAgree`.
* `SerialCorrectsOnce`: `[]CorrectedOnce`; `SerialNumbersGapFree`:
  `[]NumbersGapFree`.
* `SerialLifecycle`: `EntryLifecycle`; `SerialPostedImmutable`:
  `PostedImmutable`.

All of them need that the checks a request made still hold when its transaction
runs, and that in turn needs most of them. The inductive invariant is
`SerialInv` (`SerialRequestsStayCurrent`), next to `RowsSound`:
`ReadsAreCurrent` - the row a request read is the row in the journal, in the
status its operation asks for, and the number it computed is still the next one;
`RowsInOrder` - a draft has no number and no document, so that posting it neither
takes a number away nor gives one twice, and links lead to entries there are, so
that a new entry is not already corrected; `CorrectedOnce`; and `NumbersDense`,
which says that the numbers are 1 to n for some n (that n is `LastJENumber`, a
maximum, follows from it). `ReadsAreCurrent` is where `NoOverlap` is used: the
one step that could make a read stale is that of another request. What a step
does to rows and balances is one of seven `BooksChange` shapes - nothing, a
draft posted, rewritten or added, a posted entry reversed or replaced, posted
entries added (`StepChangesBooks`) - and what a shape keeps is proved once, for
requests and for managers alike (`OrderKept`, `CorrectedOnceKept`,
`NumbersKept`, `BooksKept`).

### Period close: `GeneralLedgerProofs`

* `CloseTypeCorrect`: `CloseSpec => []CloseTypeOK`.
* `CloseInBalance`: `SidesAgree => (CloseSpec => []LedgerInBalance)`;
  `DocumentsInBalance` (`DocumentsSpec`) needs no `SidesAgree`, since documents
  and closes use one convention only.
* `CloseBooksMatch`: `BooksMatchJournal` under `CloseSpec`, if `SidesAgree` and
  `[]NoOverlap`; `DocumentsBooksMatch`: under `DocumentsSpec`, without either.
* `CloseLeavesNothingBehind`: `CloseSpec => CloseLeavesNothing`.
* `ReopeningUndoesTheClose`:
  `OneManager => (CloseSpec => []OpenPeriodIsUndone)`.

Except for the last, any number of managers may overlap. The invariant
`CloseSound` (`CloseAlwaysSound`) is `RowsSound` with the columns of the close
in step with the journal, and tasks of real periods on real closing entries.
Closing and reopening only add posted entries, without numbers or links
(`PeriodStepAdds`), so that `SerialInv` survives them
(`CloseKeepsRequestsCurrent`), and each of these entries balances, whatever
balances were read, so that posting them all leaves the sum of the chart as it
was (`PostAllBalanced`). For `CloseLeavesNothingBehind`, the list of lines that
a close builds is taken apart into what it posts to one account, which is the
line that was computed for it (`CloseEntriesPost`), although entries without
amounts are left out of the list.

`OpenPeriodIsUndone` is not inductive. `CloseUndone` adds three things.
`DraftsApart`: no entry of a close or of its reversal is a draft, nor does a
request that posts, edits or deletes a draft work on one, so that nobody rewrites
their lines - this holds even though requests overlap and act on rows they read
long ago. `CreatesDrafts`: a request that is about to insert holds a draft.
`ReopenSeesAll`: what a reopening has read is still all there is to reverse when
it commits; a second manager could close again in between, hence `OneManager`.

### Sums

The first part of `GeneralLedgerProofs`: `SumTo` is defined by a
recursive function; that it is additive, is zero on zeros, negates, and changes
by the difference when one summand changes is proved by an induction on sets
(`SetInduction`, from the well-foundedness of < on the naturals).

### Documents: `SubLedgerProofs`, `ReceivablesProofs`, `VouchersProofs`, `PayablesProofs`

`SubLedgerProofs` says what posting and reversing do to the journal and the
control account, for all of them, and what sums over documents do. The
specifications add up with `FoldFunctionOnSet`, which takes one summand after
the other, each CHOOSEn from what is left. That such a sum exists
(`PartialExists`), that the order does not matter (`SumTakesOut`), that sums add
(`SumAdds`), change by the difference of the one summand that changes
(`SumChanges`) and bound each summand from above (`SumBounds`) is proved by
taking a smallest subset where it fails (`SmallestBad`, from the
well-foundedness of strict inclusion on the subsets of a finite set).

`ReceivablesProofs` proves `InvoiceAlwaysInBooks` (`Spec => []InvoiceInBooks`)
and `VoidAlwaysEmpty` (`Spec => []VoidIsEmpty`). `InvoiceInBooks` says what the
control account carries; that a reversal takes out exactly what was posted
needs more: the entry an invoice is linked to is the one made for it, at its
present total, which may change only in a draft, and a draft is never linked.
And the second half of a void relies on what the first half left. That is the
inductive invariant `BooksSound`: `RowsSound` (types, and whose entry a
payment's entry is), `InvoiceSound` for every invoice, `TodoSound` for the step
to come. The proof has a lemma on the changes of an invoice that cannot disturb
its place in the books (`KeptIsSound`), and one step per action.

`UnappliedAlwaysTheRest` (`Spec => []UnappliedIsTheRest`) and `NeverSettledByMore`
(`Spec => []SettledByPayments`) relate rows to sums over applications, by rows
(of a payment) and by columns (of an invoice). The invariant `PaymentsSound`
holds both: they need each other's types, and `BooksSound` for void invoices,
whose balance no payment may change: nothing is applied to them, so voiding a
payment gives them nothing back. An operation on one payment changes one row and
one summand of every column (`OnePaymentSound`), by amounts that `Apply` and
`Restore` move the balances by, or by less (`ApplySettles`, `RestoreSettles`: the
inequality is there because a draft may be edited, which sets its balance to its
new total, while payments are applied to it). The second half of a void changes
one column and one summand of every row; that `Released` is capped at the
payment's amount makes no difference, because it never comes to more
(`FinishVoidStaysSettled`).

`InvoicesImplementBooks` (`Spec => InvoicesKeepBooks`) is the refinement of
`DocumentBooks`: under `BooksSound`, a step moves the link of at most one
invoice (`OneLinkMoves`), and that is `Enter`, `Leave` or, if none moves, a
stutter.

`DepositsAreReceivables` (`DepositsSpec => Spec`) carries these theorems over to
`Deposits`: its own operations are stutters of `Receivables`, and the others are
its steps. `PaymentsHeldOnce` (`DepositsSpec => []HeldOnce`) needs to know what a
payment that is yet to come looks like - in no deposit, not flagged - and that a
payment which was recorded stays recorded, voided or not, so that it cannot come
a second time beside a deposit that has it (`RecordedStays`); and that a deposit
yet to come has no lines. With these `DepositsSound` is inductive.
`DepositsTypeCorrect` follows from both invariants and `PaymentsSound`.

`VouchersProofs` proves `VouchersTypeCorrect`, `DeletedCreditStaysOut` and the
refinement `VouchersImplementBooks`. Statuses say nothing here, so the inductive
invariant `VouchersInv` has only the link to go by: the entry a document is
linked to is its own, the control account carries the entry's amount while the
entry is in force and nothing otherwise; and a vendor credit in the books says
POSTED.

`PayablesProofs` proves `PayablesTypeCorrect` (in particular that no payment
takes a balance below zero) and `BillsCarriedOnce`
(`PayablesSpec => []BillCarriedOnce`). That the books carry a bill at what its
present lines come to needs that these do not change while they do: `PayablesInv`
says (`BillSound`) that a bill whose entry is in force is approved or paid, so
not one that can be edited, and says that it is POSTED, so that unapproving it
does reverse the entry; that the entry is the bill's own, so that no other
bill's reversal touches it; and (`PayingSound`) what recordBillPayment has still
to do. `BillBalanceAlwaysTheRest` (`PayablesSpec => []BillBalanceIsTheRest`) and
`BillsLeaveUnpaid` (`PayablesSpec => BillLeavesUnpaid`) add `BillSums`: a bill's
status is PARTIALLY_PAID or PAID exactly if something is applied to it, so the
operations that ask for another status find nothing applied (`BillStepSummed`),
and a payment that is not recorded yet is applied to nothing, so recording it
adds its applications to the sums (`AppliedToBillGrows`).

### Expense claims: `ExpenseClaimsProofs`

`ClaimsTypeCorrect`, `ClaimsPostedOnce` (`ClaimsSpec => []PostedOnce`) and
`ClaimsReimbursedWereOwed` (`ClaimsSpec => []ReimbursedWasOwed`), for requests
that overlap in any number. The checks that a request makes before its
transaction are worth nothing by the time it commits; the invariant `ClaimsInv`
says what is. A claim's link is exactly the entry that took the claim up, as
long as there is a row to carry it (`ClaimSound`), so that the test of the link
inside the transaction sees what any other request did; and entries that took
a claim up stay, so that what a request was told of them when it read the row
is still true when it commits (`RequestSound`): an approved claim has been
posted, and the entries a void is about to reverse are entries that took the
claim up. The lemma on each step is about the sets of such entries (`Takes`):
posting adds one to an empty set (`PostTakes`), a reversal adds none
(`VoidKeeps`).

`ClaimsBooksFollowStatus` (`ClaimsSpec => []BooksFollowStatus`) is about
amounts. `BooksInv` (`ClaimsStayBooked`) says of every claim that no stale
transaction was committed to (`ClaimBooked`): APPROVED and PAID mean that the
linked entry stands at what the lines now in the table post, and that what was
paid out is the present total; other statuses that there is none or that it was
reversed, and the control account follows. That entry is above zero
(`LinesPostPositive`, from `LinesHeld`: a claim is never without lines), which
is what tells it from a mirror image. And of every request (`RequestRead`): the
status it read is one its operation starts from. Committing to a claim outside
`outrun` then means that the row and its lines still are as they were read, so
that the status is known again, and what an approval read of the lines is what
the table has; an edit that finds lines to delete (`DeleteLinesKeeps`) and later
adds its own (`ReplaceKeeps`) posts what is then in the table, whatever others
left there; `ClaimsInv` gives that a void finds all entries there are
(`BookWrites`, `VoidWrites`: what a transaction does to the journal and to the
control account).

### Recurring expenses: `RecurringExpensesProofs`

`RecurringTypeCorrect` and `OneClaimPerDay` (`RecurringSpec => []OncePerDay`).
A claim of today is one that some run made, or is about to make after it has
found none. The invariant `RecurringInv` counts them: the claims of a schedule
today and the runs that are about to make one are together at most
`1 + overlaps`, as the runs under way are (`RunsCounted`): each but the first
was started beside another.

`OneClaimPerDueDate` (`RecurringSpec => []OnePerDueDate`) is about claims of
several days. `DueInv` (`DueDatesStayCounted`) has two bounds for the claims of a
due date (`DueCounted`), because what is counted changes overnight. On a day,
they are at most those of today and one for each fault of another kind than an
overlap: what earlier days left behind, somebody's fault left. And they are at
most `faults`, unless a run has made a claim and is about to move the date
(`Moving`): that is what carries the count over midnight, when the claims of
today become none, since a night does not pass with a run under way.

### Chart of accounts: `ChartOfAccountsProofs`

`ChartTypeCorrect` and `ChartStaysATree` (`ChartSpec => []ChartIsATree`). The
update puts an account under one that the walk started from, long after the walk
read it. What makes that safe is `ChartInv`: as long as nothing crossed, what a
walk has seen stays closed under `parent` up to where it stands
(`WalksAreClosed`), and does not contain the account that is moved; so when the
walk is at the top, a ring through the moved account would have to leave the set
the walk has seen, which it cannot. That accounts moved to the top, new ones and
deleted ones do not disturb the set is a step each.

### Only model-checked

* `CatchesUp` and `WalksEnd`: liveness under fairness is out of the prover's
  reach.
* The journal without `NoOverlap` and the close without `OneManager`: what is
  said of them above is all there is, as the code does lose the rest there.

Every other property of the passing runs is a theorem.

## 5. Not modelled

* **Banking, but for deposits.** Imports, matches and reconciliations are rows
  of their own that nothing else reads. A transaction that is categorized posts
  as the entry of a document in `GeneralLedger`; bank accounts and transfers
  post once.
* **Inventory, payroll, tax, projects, time, companies, tenants, users.** Single
  rows, written by id. Where they post, they post once, through
  `createAndPostJE`, which `GeneralLedger` has as the entry of a document.
* **Credit notes, write-offs, refunds, revenue recognition.** Documents of their
  own, posted as invoices are; what is wrong with their reversals is said above.
  A credit note does act on invoices, behind the back of their payments: what
  `Receivables` shows of balances and PAID (`SettledByPayments`, `VoidIsEmpty`)
  is of companies that apply none.
* **Statement scheduler, mail.** The effect is outside the system.
* **Authentication.** No part in what the books say.
* **Reports, health checks.** Read-only; what the balance check should compare is
  `BooksMatchJournal`.
* **Frontend.** User interface and mock data. It is most of the source by lines,
  and holds no state the books depend on.

Abstractions that hold a question back: requests on invoices, bills, deposits
and vouchers do not overlap (the balance that is read and written back, and the
link that is tested outside the transaction, are listed as hazards without a
property); amounts are above the code's tolerances; one company; dates are days
or left out.

## 6. Plan

Done: all modules of section 2, their runs and the theorems of section 4. Next:

1. Overlapping requests on invoices and bills: the test of `journalEntryId` and
   the balances that are read and written back, in a module of finer steps.
2. `EntryNumbering`: numbers as the strings they are, several companies.
3. The opening balance of an account and the balance a deactivation tests:
   `ChartOfAccounts` composed with `GeneralLedger`.
4. Credit notes, write-offs and refunds in `Receivables`, with what then is
   left of `SettledByPayments` and `VoidIsEmpty`.

Theorems worth having: that `PeriodClose` implements `GeneralLedger` with
documents, as `Deposits` does `Receivables`; what two reopenings that overlap
leave behind, exactly, in place of `OneManager`.
