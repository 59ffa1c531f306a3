-------------------------- MODULE RecurringExpenses --------------------------
(***************************************************************************)
(* Recurring expenses: the nightly job of recurring-expense.scheduler.ts,  *)
(* the same job started by hand from the controller, and the edits of      *)
(* recurring-expense.service.ts.                                           *)
(*                                                                         *)
(* A run reads the schedules that are due and takes them one by one.  For  *)
(* each it looks whether a claim was made today, makes one, and moves the  *)
(* due date on: three queries with no transaction around them.  Nothing    *)
(* keeps a run from overlapping another, an edit, or the end of the        *)
(* process.                                                                *)
(*                                                                         *)
(* Time is counted in days: `dueIn' is the number of days to a schedule's  *)
(* nextExecutionDate.  A schedule that falls due today may or may not have *)
(* fallen due at the hour of a run.  A run ends on the day it starts.      *)
(***************************************************************************)
EXTENDS Integers, FiniteSets, Functions

CONSTANTS
    Recurring,   \* the schedules there can be
    Run,         \* the runs of a day, each at most once: Cron, and manual ones
    Cron,        \* the run of 02:00
    Period,      \* the days from one due date to the next (7 at least, really)
    MaxLate,     \* bound: days late after which one more makes no difference
    MaxFaults    \* bound: crashes, missed and failing runs, overlapping runs

ASSUME RecurringAssumption ==
    /\ IsFiniteSet(Run) /\ Cron \in Run
    /\ Period \in Nat /\ Period >= 2
    /\ MaxLate \in Nat /\ MaxFaults \in Nat

VARIABLES
    recurring,    \* the RecurringExpense rows
    run,          \* what each run is doing
    ran,          \* the runs that were started today
    claimsToday,  \* the claims dated today, by schedule
    claims,       \* history: the claims made for the present due date
    faults,       \* history: how much went wrong so far ...
    overlaps      \* ... and how often a run was started beside another today

rows == <<recurring, claimsToday, claims>>
recurringVars == <<rows, run, ran, faults, overlaps>>

-----------------------------------------------------------------------------
NoSchedule == [status |-> "NONE", dueIn |-> 0]
DueIn == (0 - MaxLate) .. Period

Idle == [step |-> "idle"]
Running == {w \in Run : run[w] # Idle}

Fault == faults < MaxFaults /\ faults' = faults + 1

RecurringInit ==
    /\ recurring = [s \in Recurring |-> NoSchedule]
    /\ run = [w \in Run |-> Idle]
    /\ ran = {}
    /\ claimsToday = [s \in Recurring |-> 0]
    /\ claims = [s \in Recurring |-> 0]
    /\ faults = 0 /\ overlaps = 0

-----------------------------------------------------------------------------
(* The user's part.                                                        *)
Editing == UNCHANGED <<run, ran, claimsToday, faults, overlaps>>

(* The first due date is one period after the start date, past or future.  *)
CreateSchedule(s) ==
    /\ recurring[s].status = "NONE"
    /\ \E dueIn \in DueIn :
          recurring' = [recurring EXCEPT ![s] = [status |-> "ACTIVE", dueIn |-> dueIn]]
    /\ UNCHANGED claims /\ Editing

(* An edit that names the frequency sets the due date anew.                *)
UpdateSchedule(s) ==
    /\ recurring[s].status \in {"ACTIVE", "PAUSED"}
    /\ \E status \in {"ACTIVE", "PAUSED"}, anew \in BOOLEAN :
          /\ recurring' = [recurring EXCEPT ![s] =
                [status |-> status, dueIn |-> IF anew THEN Period ELSE @.dueIn]]
          /\ claims' = IF anew THEN [claims EXCEPT ![s] = 0] ELSE claims
    /\ Editing

CancelSchedule(s) ==
    /\ recurring[s].status = "ACTIVE"
    /\ recurring' = [recurring EXCEPT ![s].status = "CANCELLED"]
    /\ UNCHANGED claims /\ Editing

-----------------------------------------------------------------------------
(* The job.  It works from the rows it has read in the beginning: `todo'   *)
(* has the due dates of those that are left, `at' is the one it is busy    *)
(* with, `over' are those whose end date has passed (which, is left open). *)
StartRun(w) ==
    /\ w \notin ran
    /\ ran' = ran \cup {w}
    /\ \E due \in SUBSET Recurring :
          /\ \A s \in Recurring :
                LET row == recurring[s] IN
                   /\ s \in due => row.status = "ACTIVE" /\ row.dueIn <= 0
                   /\ row.status = "ACTIVE" /\ row.dueIn < 0 => s \in due
          /\ \E over \in SUBSET due :
                run' = [run EXCEPT ![w] =
                   [step |-> "next", over |-> over,
                    todo |-> [s \in due |-> recurring[s].dueIn]]]
    /\ IF Running = {} THEN UNCHANGED <<faults, overlaps>>
       ELSE Fault /\ overlaps' = overlaps + 1
    /\ UNCHANGED rows

(* The run is done with schedule s, one way or another.                    *)
NextOne(w, s) ==
    run' = [run EXCEPT ![w] =
       [step |-> "next", over |-> @.over \ {s},
        todo |-> Restrict(@.todo, DOMAIN @.todo \ {s})]]

AlreadyGenerated_Never(s) == FALSE
AlreadyGenerated_ThisPeriod(s) == claims[s] > 0
AlreadyGenerated(s) == claimsToday[s] > 0

TakeNext(w) ==
    /\ run[w].step = "next"
    /\ \E s \in DOMAIN run[w].todo :
          \/ /\ s \in run[w].over
             /\ recurring' = [recurring EXCEPT ![s].status = "COMPLETED"]
             /\ NextOne(w, s)
          \/ /\ s \notin run[w].over
             /\ AlreadyGenerated(s)
             /\ NextOne(w, s)
             /\ UNCHANGED recurring
          \/ /\ s \notin run[w].over
             /\ ~AlreadyGenerated(s)
             /\ run' = [run EXCEPT ![w] =
                   [step |-> "create", at |-> s, over |-> @.over, todo |-> @.todo]]
             /\ UNCHANGED recurring
    /\ UNCHANGED <<ran, claimsToday, claims, faults, overlaps>>

GenerateClaim(w) ==
    /\ run[w].step = "create"
    /\ LET s == run[w].at IN
          /\ claimsToday' = [claimsToday EXCEPT ![s] = @ + 1]
          /\ claims' = IF run[w].todo[s] = recurring[s].dueIn
                       THEN [claims EXCEPT ![s] = @ + 1] ELSE claims
    /\ run' = [run EXCEPT ![w].step = "advance"]
    /\ UNCHANGED <<recurring, ran, faults, overlaps>>

(* calculateNextDate, from the due date that was read.                     *)
NextDate_Same(dueIn) == dueIn
NextDate_Twice(dueIn) == dueIn + 2 * Period
NextDate(dueIn) == dueIn + Period

Advance(w) ==
    /\ run[w].step = "advance"
    /\ LET s == run[w].at
           next == NextDate(run[w].todo[s])
       IN  /\ recurring' = [recurring EXCEPT ![s].dueIn = next]
           /\ claims' = IF next = recurring[s].dueIn THEN claims
                        ELSE [claims EXCEPT ![s] = 0]
           /\ NextOne(w, s)
    /\ UNCHANGED <<ran, claimsToday, faults, overlaps>>

EndRun(w) ==
    /\ run[w].step = "next"
    /\ DOMAIN run[w].todo = {}
    /\ run' = [run EXCEPT ![w] = Idle]
    /\ UNCHANGED <<rows, ran, faults, overlaps>>

(* A query fails: the error is logged and the run goes on with the next.   *)
FailOne(w) ==
    /\ run[w].step \in {"create", "advance"}
    /\ NextOne(w, run[w].at)
    /\ Fault
    /\ UNCHANGED <<rows, ran, overlaps>>

-----------------------------------------------------------------------------
Crash ==
    /\ Running # {}
    /\ run' = [w \in Run |-> Idle]
    /\ Fault
    /\ UNCHANGED <<rows, ran, overlaps>>

(* The cron run of the day is missed when the process is down at 02:00.    *)
NewDay ==
    /\ Running = {}
    /\ IF Cron \in ran THEN UNCHANGED faults ELSE Fault
    /\ recurring' = [s \in Recurring |->
          LET row == recurring[s] IN
             IF row.status \in {"ACTIVE", "PAUSED"} /\ row.dueIn > 0 - MaxLate
             THEN [row EXCEPT !.dueIn = row.dueIn - 1] ELSE row]
    /\ claimsToday' = [s \in Recurring |-> 0]
    /\ ran' = {}
    /\ overlaps' = 0
    /\ UNCHANGED <<run, claims>>

RunStep(w) == TakeNext(w) \/ GenerateClaim(w) \/ Advance(w) \/ EndRun(w)

RecurringNext ==
    \/ \E s \in Recurring : CreateSchedule(s) \/ UpdateSchedule(s) \/ CancelSchedule(s)
    \/ \E w \in Run : StartRun(w) \/ RunStep(w) \/ FailOne(w)
    \/ Crash \/ NewDay

(* Days pass, the cron run is started every day that it is not missed, and *)
(* a run that was started goes on.  Users and manual runs owe nothing, and *)
(* faults are finitely many.                                               *)
RecurringFairness ==
    /\ WF_recurringVars(NewDay /\ Cron \in ran)
    /\ WF_recurringVars(StartRun(Cron))
    /\ \A w \in Run : WF_recurringVars(RunStep(w))

RecurringSpec ==
    RecurringInit /\ [][RecurringNext]_recurringVars /\ RecurringFairness

-----------------------------------------------------------------------------
RecurringTypeOK ==
    /\ recurring \in [Recurring ->
          [status : {"NONE", "ACTIVE", "PAUSED", "CANCELLED", "COMPLETED"},
           dueIn : DueIn]]
    /\ ran \subseteq Run /\ Running \subseteq ran
    /\ \A w \in Run : run[w].step \in {"idle", "next", "create", "advance"}
    /\ claimsToday \in [Recurring -> Nat] /\ claims \in [Recurring -> Nat]
    /\ faults \in 0 .. MaxFaults /\ overlaps \in 0 .. faults

(* A schedule gets one claim a day, however far it is behind and however   *)
(* often the job is started or dies, except that a run that is started     *)
(* beside another may add one.                                             *)
OncePerDay ==
    \A s \in Recurring : claimsToday[s] <= 1 + overlaps

(* For one due date there is one claim, and one more for each crash,       *)
(* failure or overlapping run: the claim and the due date are written      *)
(* apart, and "already generated today" forgets overnight.                 *)
OnePerDueDate ==
    \A s \in Recurring : claims[s] <= 1 + faults

(* A schedule that is overdue catches up with the calendar, unless it is   *)
(* paused or ended: the job takes one due date a day, it takes it anew on  *)
(* the day after it was stopped half-way, and an error in one schedule     *)
(* keeps it from no other.                                                 *)
CatchesUp ==
    \A s \in Recurring :
       (recurring[s].status = "ACTIVE" /\ recurring[s].dueIn < 0)
          ~> (recurring[s].status # "ACTIVE" \/ recurring[s].dueIn > 0)
=============================================================================
