----------------------- MODULE RecurringExpensesProofs -----------------------
(***************************************************************************)
(* A recurring expense gets one claim a day, and one more at most for each *)
(* run that was started beside another; and one claim for a due date, and  *)
(* one more at most for each fault: for any number of schedules and runs,  *)
(* any period, and wherever runs stop, fail or interleave.                 *)
(***************************************************************************)
EXTENDS RecurringExpenses, FiniteSetTheorems, TLAPS

ScheduleRow == [status : {"NONE", "ACTIVE", "PAUSED", "CANCELLED", "COMPLETED"},
                dueIn : DueIn]

(* The due dates that a run has read, today's or overdue.                  *)
Todo == UNION {[due -> (0 - MaxLate) .. 0] : due \in SUBSET Recurring}

WaitingRow == [step : {"next"}, over : SUBSET Recurring, todo : Todo]
BusyRow == [step : {"create", "advance"}, at : Recurring, over : SUBSET Recurring,
            todo : Todo]
RunRow == {Idle} \cup WaitingRow \cup {row \in BusyRow : row.at \in DOMAIN row.todo}

Creating(s) == {w \in Run : run[w].step = "create" /\ run[w].at = s}

RecurringRowsOK ==
    /\ recurring \in [Recurring -> ScheduleRow]
    /\ run \in [Run -> RunRow]
    /\ ran \subseteq Run /\ Running \subseteq ran
    /\ claimsToday \in [Recurring -> Nat] /\ claims \in [Recurring -> Nat]
    /\ faults \in 0 .. MaxFaults /\ overlaps \in 0 .. faults

(* The runs that go on at a time, and, of a schedule, the claims made      *)
(* today together with those about to be made, are one more at most than   *)
(* the runs that were started beside another.                              *)
RunsCounted == Cardinality(Running) <= 1 + overlaps

ClaimsCounted(s) == claimsToday[s] + Cardinality(Creating(s)) <= 1 + overlaps

RecurringInv ==
    /\ RecurringRowsOK
    /\ RunsCounted
    /\ \A s \in Recurring : ClaimsCounted(s)

-----------------------------------------------------------------------------
(* Runs are finitely many, and so are those among them that do something.  *)
LEMMA FinitelyManyRuns ==
    /\ IsFiniteSet(Running) /\ Cardinality(Running) \in Nat
    /\ \A s : IsFiniteSet(Creating(s)) /\ Cardinality(Creating(s)) \in Nat
<1>1. Running \subseteq Run /\ \A s : Creating(s) \subseteq Run
  BY DEF Running, Creating
<1> QED
  BY <1>1, FS_Subset, FS_CardinalityType, RecurringAssumption

(* What a run has left after it is done with a schedule (NextOne).         *)
LEMMA TodoShrinks ==
    ASSUME NEW todo \in Todo, NEW s
    PROVE  /\ Restrict(todo, DOMAIN todo \ {s}) \in Todo
           /\ DOMAIN todo \subseteq Recurring
           /\ \A x \in DOMAIN todo : todo[x] \in (0 - MaxLate) .. 0
<1>1. PICK due \in SUBSET Recurring : todo \in [due -> (0 - MaxLate) .. 0]
  BY DEF Todo
<1>2. due \ {s} \in SUBSET Recurring
  OBVIOUS
<1>3. Restrict(todo, DOMAIN todo \ {s}) \in [due \ {s} -> (0 - MaxLate) .. 0]
  BY <1>1 DEF Restrict
<1> QED
  BY <1>1, <1>2, <1>3 DEF Todo

(* The row of a run by its step.                                           *)
LEMMA RunRows ==
    ASSUME RecurringInv, NEW w \in Run
    PROVE  /\ run[w].step \in {"idle", "next", "create", "advance"}
           /\ run[w].step = "idle" <=> run[w] = Idle
           /\ run[w].step = "next" => run[w] \in WaitingRow
           /\ run[w].step \in {"create", "advance"} =>
                 run[w] \in BusyRow /\ run[w].at \in DOMAIN run[w].todo
  BY DEF RecurringInv, RecurringRowsOK, RunRow, Idle, WaitingRow, BusyRow

(* Going on with the next schedule.                                        *)
LEMMA NextOneRow ==
    ASSUME RecurringInv, NEW w \in Run, NEW s, run[w].step # "idle", NextOne(w, s)
    PROVE  \E row \in WaitingRow : run' = [run EXCEPT ![w] = row]
<1>1. run[w].over \in SUBSET Recurring /\ run[w].todo \in Todo
  BY RunRows DEF WaitingRow, BusyRow
<1> DEFINE row == [step |-> "next", over |-> run[w].over \ {s},
                   todo |-> Restrict(run[w].todo, DOMAIN run[w].todo \ {s})]
<1>2. row \in WaitingRow
  BY <1>1, TodoShrinks DEF WaitingRow
<1>3. run' = [run EXCEPT ![w] = row]
  BY DEF NextOne, RecurringInv, RecurringRowsOK
<1> QED
  BY <1>2, <1>3

(* Fewer runs, and fewer of them about to make a claim, count no more.     *)
LEMMA CountsShrink ==
    ASSUME RecurringInv,
           Running' \subseteq Running,
           \A s \in Recurring : Creating(s)' \subseteq Creating(s),
           claimsToday' = claimsToday,
           overlaps' \in Int, overlaps' >= overlaps
    PROVE  RunsCounted' /\ \A s \in Recurring : ClaimsCounted(s)'
<1>0. overlaps \in Int /\ claimsToday \in [Recurring -> Nat]
  BY DEF RecurringInv, RecurringRowsOK
<1>1. Cardinality(Running') <= Cardinality(Running) /\ Cardinality(Running') \in Nat
  BY FinitelyManyRuns, FS_Subset, FS_CardinalityType
<1>2. RunsCounted'
  BY <1>0, <1>1, FinitelyManyRuns DEF RecurringInv, RunsCounted
<1>3. ASSUME NEW s \in Recurring PROVE ClaimsCounted(s)'
  <2>1. /\ Cardinality(Creating(s)') <= Cardinality(Creating(s))
        /\ Cardinality(Creating(s)') \in Nat
    BY FinitelyManyRuns, FS_Subset, FS_CardinalityType
  <2> QED
    BY <1>0, <2>1, FinitelyManyRuns DEF RecurringInv, ClaimsCounted
<1> QED
  BY <1>2, <1>3

(* A running run that is not about to make a claim after the step.         *)
LEMMA RunGoesOn ==
    ASSUME RecurringInv, NEW w \in Run, run[w] # Idle, NEW row,
           run' = [run EXCEPT ![w] = row], row.step # "create"
    PROVE  /\ Running' \subseteq Running
           /\ \A s \in Recurring : Creating(s)' \subseteq Creating(s)
<1>1. run'[w] = row /\ \A x \in Run \ {w} : run'[x] = run[x]
  BY DEF RecurringInv, RecurringRowsOK
<1> QED
  BY <1>1 DEF Running, Creating

-----------------------------------------------------------------------------
(* createRecurringExpense, updateRecurringExpense, cancelRecurringExpense. *)
LEMMA EditingSound ==
    ASSUME RecurringInv, NEW s \in Recurring,
           CreateSchedule(s) \/ UpdateSchedule(s) \/ CancelSchedule(s)
    PROVE  RecurringInv'
<1>0. /\ UNCHANGED <<run, ran, claimsToday, faults, overlaps>>
      /\ recurring \in [Recurring -> ScheduleRow]
      /\ claims \in [Recurring -> Nat]
  BY DEF CreateSchedule, UpdateSchedule, CancelSchedule, Editing,
         RecurringInv, RecurringRowsOK
<1>1. Period \in DueIn
  BY RecurringAssumption DEF DueIn
<1>2. \E row \in ScheduleRow : recurring' = [recurring EXCEPT ![s] = row]
  <2>1. CASE CreateSchedule(s)
    BY <1>0, <2>1 DEF CreateSchedule, ScheduleRow
  <2>2. CASE UpdateSchedule(s)
    <3>1. PICK status \in {"ACTIVE", "PAUSED"}, anew \in BOOLEAN :
             recurring' = [recurring EXCEPT ![s] =
                [status |-> status, dueIn |-> IF anew THEN Period ELSE @.dueIn]]
      BY <2>2 DEF UpdateSchedule
    <3> DEFINE dueIn == IF anew THEN Period ELSE recurring[s].dueIn
    <3>2. dueIn \in DueIn
      BY <1>0, <1>1 DEF ScheduleRow
    <3>3. recurring' = [recurring EXCEPT ![s] = [status |-> status, dueIn |-> dueIn]]
      BY <1>0, <3>1
    <3> HIDE DEF dueIn
    <3> QED
      BY <3>2, <3>3 DEF ScheduleRow
  <2>3. CASE CancelSchedule(s)
    <3>1. [recurring[s] EXCEPT !.status = "CANCELLED"] \in ScheduleRow
      BY <1>0 DEF ScheduleRow
    <3>2. recurring' = [recurring EXCEPT ![s] =
                          [recurring[s] EXCEPT !.status = "CANCELLED"]]
      BY <2>3 DEF CancelSchedule
    <3> QED
      BY <3>1, <3>2
  <2> QED
    BY <2>1, <2>2, <2>3
<1>3. recurring' \in [Recurring -> ScheduleRow]
  BY <1>0, <1>2
<1>4. claims' \in [Recurring -> Nat]
  BY <1>0 DEF CreateSchedule, UpdateSchedule, CancelSchedule
<1>5. RecurringRowsOK'
  BY <1>0, <1>3, <1>4 DEF RecurringInv, RecurringRowsOK, Running
<1>6. RunsCounted' /\ \A x \in Recurring : ClaimsCounted(x)'
  BY <1>0 DEF RecurringInv, RunsCounted, ClaimsCounted, Running, Creating
<1> QED
  BY <1>5, <1>6 DEF RecurringInv

(* The start of a run: the first of those that go on at a time, or one     *)
(* more overlap.                                                           *)
LEMMA StartRunSound ==
    ASSUME RecurringInv, NEW w \in Run, StartRun(w)
    PROVE  RecurringInv'
<1>0. RecurringRowsOK /\ RunsCounted /\ \A s \in Recurring : ClaimsCounted(s)
  BY DEF RecurringInv
<1>1. PICK due \in SUBSET Recurring, over \in SUBSET Recurring :
         /\ over \subseteq due
         /\ \A s \in due : recurring[s].dueIn <= 0
         /\ run' = [run EXCEPT ![w] =
               [step |-> "next", over |-> over,
                todo |-> [s \in due |-> recurring[s].dueIn]]]
  BY DEF StartRun
<1> DEFINE row == [step |-> "next", over |-> over,
                   todo |-> [s \in due |-> recurring[s].dueIn]]
<1>2. row \in WaitingRow /\ row # Idle /\ row.step = "next"
  <2>1. \A s \in due : recurring[s].dueIn \in (0 - MaxLate) .. 0
    BY <1>0, <1>1, RecurringAssumption DEF RecurringRowsOK, ScheduleRow, DueIn
  <2>2. [s \in due |-> recurring[s].dueIn] \in Todo
    BY <2>1 DEF Todo
  <2> QED
    BY <2>2 DEF WaitingRow, Idle
<1>3. run' = [run EXCEPT ![w] = row]
  BY <1>1
<1> HIDE DEF row
<1>4. /\ run' \in [Run -> RunRow]
      /\ run'[w] = row /\ \A x \in Run \ {w} : run'[x] = run[x]
  BY <1>0, <1>2, <1>3 DEF RecurringRowsOK, RunRow
<1>5. w \notin Running /\ UNCHANGED rows /\ ran' = ran \cup {w}
  BY <1>0 DEF StartRun, RecurringRowsOK
<1>6. Running' = Running \cup {w}
  BY <1>2, <1>4 DEF Running
<1>7. \A s \in Recurring : Creating(s)' \subseteq Creating(s)
  BY <1>2, <1>4 DEF Creating
<1>8. /\ faults' \in 0 .. MaxFaults /\ overlaps' \in 0 .. faults'
      /\ overlaps' = IF Running = {} THEN overlaps ELSE overlaps + 1
  BY <1>0, RecurringAssumption DEF StartRun, Fault, RecurringRowsOK
<1>9. RecurringRowsOK'
  BY <1>0, <1>4, <1>5, <1>6, <1>8 DEF RecurringRowsOK, rows
<1>10. RunsCounted'
  <2>1. Cardinality(Running \cup {w}) = Cardinality(Running) + 1
    BY <1>5, FinitelyManyRuns, FS_AddElement
  <2>2. Running = {} => Cardinality(Running) = 0
    BY FS_EmptySet
  <2> QED
    BY <1>0, <1>6, <1>8, <2>1, <2>2, FinitelyManyRuns DEF RunsCounted, RecurringRowsOK
<1>11. ASSUME NEW s \in Recurring PROVE ClaimsCounted(s)'
  <2>1. /\ Cardinality(Creating(s)') <= Cardinality(Creating(s))
        /\ Cardinality(Creating(s)') \in Nat
    BY <1>7, FinitelyManyRuns, FS_Subset, FS_CardinalityType
  <2>2. claimsToday'[s] = claimsToday[s] /\ claimsToday[s] \in Nat
    BY <1>0, <1>5 DEF rows, RecurringRowsOK
  <2>3. overlaps' \in Int /\ overlaps \in Int /\ overlaps' >= overlaps
    BY <1>0, <1>8 DEF RecurringRowsOK
  <2>4. claimsToday[s] + Cardinality(Creating(s)) <= 1 + overlaps
    BY <1>0 DEF ClaimsCounted
  <2> QED
    BY <2>1, <2>2, <2>3, <2>4, FinitelyManyRuns DEF ClaimsCounted
<1> QED
  BY <1>9, <1>10, <1>11 DEF RecurringInv

(* What is left to show of a step of a run that makes no claim, nor sets   *)
(* out to.                                                                 *)
LEMMA RunStepSound ==
    ASSUME RecurringInv, NEW w \in Run, run[w] # Idle,
           NEW row \in RunRow, run' = [run EXCEPT ![w] = row], row.step # "create",
           recurring' \in [Recurring -> ScheduleRow],
           claims' \in [Recurring -> Nat],
           UNCHANGED <<ran, claimsToday, overlaps>>,
           faults' \in 0 .. MaxFaults, faults' >= faults
    PROVE  RecurringInv'
<1>1. /\ Running' \subseteq Running
      /\ \A s \in Recurring : Creating(s)' \subseteq Creating(s)
  BY RunGoesOn
<1>2. run' \in [Run -> RunRow]
  BY DEF RecurringInv, RecurringRowsOK
<1>3. overlaps' \in 0 .. faults' /\ overlaps' \in Int /\ overlaps' >= overlaps
  BY DEF RecurringInv, RecurringRowsOK
<1>4. RecurringRowsOK'
  BY <1>1, <1>2, <1>3 DEF RecurringInv, RecurringRowsOK
<1>5. RunsCounted' /\ \A s \in Recurring : ClaimsCounted(s)'
  BY <1>1, <1>3, CountsShrink
<1> QED
  BY <1>4, <1>5 DEF RecurringInv

(* A run that sets out to make a claim found none of today: with those     *)
(* that did so before it, it is among the runs that go on.                 *)
LEMMA SetOutSound ==
    ASSUME RecurringInv, NEW w \in Run, NEW s \in DOMAIN run[w].todo,
           run[w].step = "next", ~AlreadyGenerated(s),
           run' = [run EXCEPT ![w] =
              [step |-> "create", at |-> s, over |-> @.over, todo |-> @.todo]],
           UNCHANGED <<recurring, ran, claimsToday, claims, faults, overlaps>>
    PROVE  RecurringInv'
<1>0. RecurringRowsOK /\ RunsCounted /\ \A x \in Recurring : ClaimsCounted(x)
  BY DEF RecurringInv
<1>1. run[w] \in WaitingRow /\ run[w] # Idle
  BY RunRows
<1>2. run[w].over \in SUBSET Recurring /\ run[w].todo \in Todo /\ s \in Recurring
  BY <1>1, TodoShrinks DEF WaitingRow
<1> DEFINE row == [step |-> "create", at |-> s, over |-> run[w].over,
                   todo |-> run[w].todo]
<1>3. row \in RunRow /\ row # Idle /\ row.step = "create" /\ row.at = s
  BY <1>2 DEF RunRow, BusyRow, Idle
<1>4. run' = [run EXCEPT ![w] = row]
  BY <1>0 DEF RecurringRowsOK
<1> HIDE DEF row
<1>5. /\ run' \in [Run -> RunRow]
      /\ run'[w] = row /\ \A x \in Run \ {w} : run'[x] = run[x]
  BY <1>0, <1>3, <1>4 DEF RecurringRowsOK
<1>6. Running' = Running /\ w \in Running
  BY <1>1, <1>3, <1>5 DEF Running
<1>7. /\ Creating(s)' = Creating(s) \cup {w}
      /\ \A x \in Recurring \ {s} : Creating(x)' = Creating(x)
  BY <1>3, <1>5 DEF Creating
<1>8. RecurringRowsOK'
  BY <1>0, <1>5, <1>6 DEF RecurringRowsOK
<1>9. RunsCounted'
  BY <1>0, <1>6 DEF RunsCounted
<1>10. ClaimsCounted(s)'
  <2>1. Creating(s) \subseteq Running
    BY RunRows DEF Creating, Running
  <2>2. Creating(s)' \subseteq Running
    BY <1>6, <1>7, <2>1
  <2>3. /\ Cardinality(Creating(s)') <= Cardinality(Running)
        /\ Cardinality(Creating(s)') \in Nat
    BY <2>2, FinitelyManyRuns, FS_Subset, FS_CardinalityType
  <2>4. claimsToday'[s] = 0
    BY <1>0, <1>2 DEF RecurringRowsOK, AlreadyGenerated
  <2> QED
    BY <1>0, <2>3, <2>4, FinitelyManyRuns
       DEF ClaimsCounted, RunsCounted, RecurringRowsOK
<1>11. \A x \in Recurring \ {s} : ClaimsCounted(x)'
  BY <1>0, <1>7 DEF ClaimsCounted
<1> QED
  BY <1>8, <1>9, <1>10, <1>11 DEF RecurringInv

(* A claim that was about to be made is made.                              *)
LEMMA GenerateClaimSound ==
    ASSUME RecurringInv, NEW w \in Run, GenerateClaim(w)
    PROVE  RecurringInv'
<1>0. RecurringRowsOK /\ RunsCounted /\ \A x \in Recurring : ClaimsCounted(x)
  BY DEF RecurringInv
<1>1. PICK s : s = run[w].at
  OBVIOUS
<1>2. /\ run[w].step = "create"
      /\ run[w] \in BusyRow /\ run[w].at \in DOMAIN run[w].todo /\ run[w] # Idle
      /\ s \in Recurring
  BY <1>1, RunRows DEF GenerateClaim, BusyRow
<1>3. /\ claimsToday' = [claimsToday EXCEPT ![s] = @ + 1]
      /\ claims' = IF run[w].todo[s] = recurring[s].dueIn
                   THEN [claims EXCEPT ![s] = @ + 1] ELSE claims
      /\ run' = [run EXCEPT ![w].step = "advance"]
      /\ UNCHANGED <<recurring, ran, faults, overlaps>>
  BY <1>1 DEF GenerateClaim
<1> DEFINE row == [run[w] EXCEPT !.step = "advance"]
<1>4. row \in RunRow /\ row # Idle /\ row.step = "advance"
  BY <1>2 DEF RunRow, BusyRow, Idle
<1>5. run' = [run EXCEPT ![w] = row]
  BY <1>3
<1> HIDE DEF row
<1>6. /\ run' \in [Run -> RunRow]
      /\ run'[w] = row /\ \A x \in Run \ {w} : run'[x] = run[x]
  BY <1>0, <1>4, <1>5 DEF RecurringRowsOK
<1>7. Running' = Running
  BY <1>2, <1>4, <1>6 DEF Running
<1>8. /\ Creating(s)' = Creating(s) \ {w} /\ w \in Creating(s)
      /\ \A x \in Recurring \ {s} : Creating(x)' = Creating(x)
  BY <1>1, <1>2, <1>4, <1>6 DEF Creating
<1>9. /\ claims' \in [Recurring -> Nat] /\ claimsToday' \in [Recurring -> Nat]
      /\ claimsToday'[s] = claimsToday[s] + 1
      /\ \A x \in Recurring \ {s} : claimsToday'[x] = claimsToday[x]
  BY <1>0, <1>2, <1>3 DEF RecurringRowsOK
<1>10. RecurringRowsOK'
  BY <1>0, <1>3, <1>6, <1>7, <1>9 DEF RecurringRowsOK
<1>11. RunsCounted'
  BY <1>0, <1>3, <1>7 DEF RunsCounted
<1>12. ClaimsCounted(s)'
  <2>1. Cardinality(Creating(s) \ {w}) = Cardinality(Creating(s)) - 1
    BY <1>8, FinitelyManyRuns, FS_RemoveElement
  <2>2. claimsToday[s] \in Nat /\ overlaps \in Int /\ overlaps' = overlaps
    BY <1>0, <1>2, <1>3 DEF RecurringRowsOK
  <2> QED
    BY <1>0, <1>2, <1>8, <1>9, <2>1, <2>2, FinitelyManyRuns DEF ClaimsCounted
<1>13. \A x \in Recurring \ {s} : ClaimsCounted(x)'
  BY <1>0, <1>3, <1>8, <1>9 DEF ClaimsCounted
<1> QED
  BY <1>10, <1>11, <1>12, <1>13 DEF RecurringInv

(* The steps of a run that make no claim.                                  *)
LEMMA OtherRunStepsSound ==
    ASSUME RecurringInv, NEW w \in Run,
           TakeNext(w) \/ Advance(w) \/ EndRun(w) \/ FailOne(w)
    PROVE  RecurringInv'
<1>0. /\ RecurringRowsOK
      /\ recurring \in [Recurring -> ScheduleRow] /\ claims \in [Recurring -> Nat]
      /\ faults \in 0 .. MaxFaults /\ faults >= faults
  BY RecurringAssumption DEF RecurringInv, RecurringRowsOK
<1>1. run[w] # Idle /\ run[w].step # "idle"
  BY RunRows DEF TakeNext, Advance, EndRun, FailOne
<1>2. ASSUME NEW s, NextOne(w, s)
      PROVE  \E row \in RunRow : run' = [run EXCEPT ![w] = row] /\ row.step # "create"
  BY <1>1, <1>2, NextOneRow DEF RunRow, WaitingRow
<1>3. CASE TakeNext(w)
  <2>1. PICK s \in DOMAIN run[w].todo :
          \/ /\ recurring' = [recurring EXCEPT ![s].status = "COMPLETED"]
             /\ NextOne(w, s)
          \/ /\ NextOne(w, s)
             /\ UNCHANGED recurring
          \/ /\ ~AlreadyGenerated(s)
             /\ run' = [run EXCEPT ![w] =
                   [step |-> "create", at |-> s, over |-> @.over, todo |-> @.todo]]
             /\ UNCHANGED recurring
    BY <1>3 DEF TakeNext
  <2>2. /\ run[w].step = "next"
        /\ UNCHANGED <<ran, claimsToday, claims, faults, overlaps>>
    BY <1>3 DEF TakeNext
  <2>3. CASE NextOne(w, s) /\ recurring' \in [Recurring -> ScheduleRow]
    <3>1. PICK row \in RunRow : run' = [run EXCEPT ![w] = row] /\ row.step # "create"
      BY <1>2, <2>3
    <3> QED
      BY <1>0, <1>1, <2>2, <2>3, <3>1, RunStepSound
  <2>4. CASE recurring' = [recurring EXCEPT ![s].status = "COMPLETED"] /\ NextOne(w, s)
    <3>1. recurring' \in [Recurring -> ScheduleRow]
      BY <1>0, <2>4 DEF ScheduleRow
    <3> QED
      BY <2>3, <2>4, <3>1
  <2> QED
    BY <1>0, <2>1, <2>2, <2>3, <2>4, SetOutSound
<1>4. CASE Advance(w)
  <2>1. PICK s : s = run[w].at
    OBVIOUS
  <2>2. /\ run[w] \in BusyRow /\ s \in DOMAIN run[w].todo /\ s \in Recurring
    BY <1>4, <2>1, RunRows DEF Advance, BusyRow
  <2>3. run[w].todo[s] \in (0 - MaxLate) .. 0
    BY <2>2, TodoShrinks DEF BusyRow
  <2>4. PICK next : next = NextDate(run[w].todo[s])
    OBVIOUS
  <2>5. next \in DueIn
    BY <2>3, <2>4, RecurringAssumption DEF NextDate, DueIn
  <2>6. /\ recurring' = [recurring EXCEPT ![s].dueIn = next]
        /\ claims' = IF next = recurring[s].dueIn THEN claims
                     ELSE [claims EXCEPT ![s] = 0]
        /\ NextOne(w, s)
        /\ UNCHANGED <<ran, claimsToday, faults, overlaps>>
    BY <1>4, <2>1, <2>4 DEF Advance
  <2>7. recurring' \in [Recurring -> ScheduleRow] /\ claims' \in [Recurring -> Nat]
    BY <1>0, <2>5, <2>6 DEF ScheduleRow
  <2>8. PICK row \in RunRow : run' = [run EXCEPT ![w] = row] /\ row.step # "create"
    BY <1>2, <2>6
  <2> QED
    BY <1>0, <1>1, <2>6, <2>7, <2>8, RunStepSound
<1>5. CASE EndRun(w)
  <2>1. /\ Idle \in RunRow /\ Idle.step # "create"
        /\ run' = [run EXCEPT ![w] = Idle]
        /\ UNCHANGED <<recurring, claimsToday, claims, ran, faults, overlaps>>
    BY <1>5 DEF EndRun, RunRow, Idle, rows
  <2> QED
    BY <1>0, <1>1, <2>1, RunStepSound
<1>6. CASE FailOne(w)
  <2>1. /\ NextOne(w, run[w].at)
        /\ UNCHANGED <<recurring, claimsToday, claims, ran, overlaps>>
        /\ faults' \in 0 .. MaxFaults /\ faults' >= faults
    BY <1>0, <1>6, RecurringAssumption DEF FailOne, Fault, rows
  <2>2. PICK row \in RunRow : run' = [run EXCEPT ![w] = row] /\ row.step # "create"
    BY <1>2, <2>1
  <2> QED
    BY <1>0, <1>1, <2>1, <2>2, RunStepSound
<1> QED
  BY <1>3, <1>4, <1>5, <1>6

(* The end of the process ends all runs.                                   *)
LEMMA CrashSound == RecurringInv /\ Crash => RecurringInv'
<1> SUFFICES ASSUME RecurringInv, Crash PROVE RecurringInv'
  OBVIOUS
<1>0. RecurringRowsOK
  BY DEF RecurringInv
<1>1. /\ run' = [w \in Run |-> Idle]
      /\ UNCHANGED <<recurring, claimsToday, claims, ran, overlaps>>
      /\ faults' \in 0 .. MaxFaults /\ faults' >= faults
  BY <1>0, RecurringAssumption DEF Crash, Fault, rows, RecurringRowsOK
<1>2. Running' = {} /\ \A s \in Recurring : Creating(s)' = {}
  BY <1>1 DEF Running, Creating, Idle
<1>3. overlaps' \in 0 .. faults' /\ overlaps' \in Int /\ overlaps' >= overlaps
  BY <1>0, <1>1 DEF RecurringRowsOK
<1>4. RecurringRowsOK'
  BY <1>0, <1>1, <1>2, <1>3 DEF RecurringRowsOK, RunRow
<1>5. RunsCounted' /\ \A s \in Recurring : ClaimsCounted(s)'
  BY <1>1, <1>2, <1>3, CountsShrink
<1> QED
  BY <1>4, <1>5 DEF RecurringInv

(* A new day begins without runs and without claims of its own.            *)
LEMMA NewDaySound == RecurringInv /\ NewDay => RecurringInv'
<1> SUFFICES ASSUME RecurringInv, NewDay PROVE RecurringInv'
  OBVIOUS
<1>0. RecurringRowsOK
  BY DEF RecurringInv
<1>1. /\ Running = {} /\ ran' = {} /\ overlaps' = 0
      /\ claimsToday' = [s \in Recurring |-> 0]
      /\ UNCHANGED <<run, claims>>
      /\ faults' \in 0 .. MaxFaults
  BY <1>0, RecurringAssumption DEF NewDay, Fault, RecurringRowsOK
<1>2. Running' = {} /\ \A s \in Recurring : Creating(s)' = {}
  BY <1>1, RunRows DEF Running, Creating, Idle
<1>3. recurring' \in [Recurring -> ScheduleRow]
  <2> SUFFICES ASSUME NEW s \in Recurring
               PROVE  (IF /\ recurring[s].status \in {"ACTIVE", "PAUSED"}
                          /\ recurring[s].dueIn > 0 - MaxLate
                       THEN [recurring[s] EXCEPT !.dueIn = recurring[s].dueIn - 1]
                       ELSE recurring[s]) \in ScheduleRow
    BY DEF NewDay
  <2>1. recurring[s] \in ScheduleRow /\ recurring[s].dueIn \in DueIn
    BY <1>0 DEF RecurringRowsOK, ScheduleRow
  <2>2. recurring[s].dueIn > 0 - MaxLate => recurring[s].dueIn - 1 \in DueIn
    BY <2>1, RecurringAssumption DEF DueIn
  <2> QED
    BY <2>1, <2>2 DEF ScheduleRow
<1>4. RecurringRowsOK'
  BY <1>0, <1>1, <1>2, <1>3 DEF RecurringRowsOK
<1>5. RunsCounted' /\ \A s \in Recurring : ClaimsCounted(s)'
  BY <1>1, <1>2, FS_EmptySet DEF RunsCounted, ClaimsCounted
<1> QED
  BY <1>4, <1>5 DEF RecurringInv

-----------------------------------------------------------------------------
(* No schedules and no runs.                                               *)
LEMMA RecurringInvInit == RecurringInit => RecurringInv
<1> SUFFICES ASSUME RecurringInit PROVE RecurringInv
  OBVIOUS
<1>1. Running = {} /\ \A s \in Recurring : Creating(s) = {}
  BY DEF RecurringInit, Running, Creating, Idle
<1>2. NoSchedule \in ScheduleRow
  BY RecurringAssumption DEF NoSchedule, ScheduleRow, DueIn
<1>3. RecurringRowsOK
  BY <1>1, <1>2, RecurringAssumption DEF RecurringInit, RecurringRowsOK, RunRow
<1>4. RunsCounted /\ \A s \in Recurring : ClaimsCounted(s)
  BY <1>1, FS_EmptySet DEF RecurringInit, RunsCounted, ClaimsCounted
<1> QED
  BY <1>3, <1>4 DEF RecurringInv

(* The inductive invariant: rows are well formed, and the claims of the    *)
(* day, made and about to be made, are counted by the overlaps.            *)
THEOREM RecurringStaysCounted == RecurringSpec => []RecurringInv
<1>1. ASSUME RecurringInv, RecurringNext PROVE RecurringInv'
  <2>1. CASE \E s \in Recurring :
                CreateSchedule(s) \/ UpdateSchedule(s) \/ CancelSchedule(s)
    BY <1>1, <2>1, EditingSound
  <2>2. CASE \E w \in Run : StartRun(w) \/ RunStep(w) \/ FailOne(w)
    BY <1>1, <2>2, StartRunSound, GenerateClaimSound, OtherRunStepsSound DEF RunStep
  <2>3. CASE Crash \/ NewDay
    BY <1>1, <2>3, CrashSound, NewDaySound
  <2> QED
    BY <1>1, <2>1, <2>2, <2>3 DEF RecurringNext
<1>2. ASSUME RecurringInv, UNCHANGED recurringVars PROVE RecurringInv'
  <2>1. UNCHANGED <<recurring, claimsToday, claims, run, ran, faults, overlaps>>
    BY <1>2 DEF recurringVars, rows
  <2> QED
    BY <1>2, <2>1 DEF RecurringInv, RecurringRowsOK, RunsCounted, ClaimsCounted,
                      Running, Creating
<1> QED
  BY <1>1, <1>2, RecurringInvInit, PTL DEF RecurringSpec

(* Rows and runs are well formed, for every period and bound.              *)
THEOREM RecurringTypeCorrect == RecurringSpec => []RecurringTypeOK
<1>1. RecurringInv => RecurringTypeOK
  BY RunRows DEF RecurringInv, RecurringRowsOK, RecurringTypeOK, ScheduleRow
<1> QED
  BY <1>1, RecurringStaysCounted, PTL

(* "Already generated today" is tested before the claim is made, with no   *)
(* transaction around the two: a schedule gets one claim a day, and one    *)
(* more at most for each run that was started beside another.              *)
THEOREM OneClaimPerDay == RecurringSpec => []OncePerDay
<1>1. RecurringInv => OncePerDay
  <2> SUFFICES ASSUME RecurringInv, NEW s \in Recurring
               PROVE  claimsToday[s] <= 1 + overlaps
    BY DEF OncePerDay
  <2> QED
    BY FinitelyManyRuns DEF RecurringInv, RecurringRowsOK, ClaimsCounted
<1> QED
  BY <1>1, RecurringStaysCounted, PTL
-----------------------------------------------------------------------------
(* What makes the claims of one due date add up.  A run works only on      *)
(* schedules there are.  Those of the claims that were not made today each *)
(* have a crash, a failure or an overlap of an earlier day against them;   *)
(* and when there is one more than faults, a run that made one is still    *)
(* about to move the due date on.                                          *)
Known(s) == recurring[s].status # "NONE"

TodoKnown ==
    \A w \in Run, s \in Recurring :
       run[w] # Idle /\ s \in DOMAIN run[w].todo => Known(s)

Moving(s) == {w \in Run : /\ run[w].step = "advance" /\ run[w].at = s
                          /\ run[w].todo[s] = recurring[s].dueIn}

DueCounted(s) ==
    /\ claims[s] <= claimsToday[s] + (faults - overlaps)
    /\ claims[s] <= faults \/ Moving(s) # {}

DueInv == TodoKnown /\ \A s \in Recurring : DueCounted(s)

(* A schedule has one claim more than faults, at most.                     *)
LEMMA DueBound ==
    ASSUME RecurringInv, DueInv, NEW s \in Recurring
    PROVE  claims[s] <= 1 + faults
<1>1. /\ claims[s] \in Nat /\ claimsToday[s] \in Nat
      /\ faults \in Int /\ overlaps \in Int
  BY DEF RecurringInv, RecurringRowsOK
<1>2. claimsToday[s] <= 1 + overlaps
  BY <1>1, FinitelyManyRuns DEF RecurringInv, ClaimsCounted
<1> QED
  BY <1>1, <1>2 DEF DueInv, DueCounted

(* No step makes a schedule one that was never made.                       *)
LEMMA SchedulesStay ==
    ASSUME RecurringInv, RecurringNext, NEW s \in Recurring, Known(s)
    PROVE  Known(s)'
<1>0. recurring \in [Recurring -> ScheduleRow]
  BY DEF RecurringInv, RecurringRowsOK
<1>1. ASSUME NEW x \in Recurring,
             CreateSchedule(x) \/ UpdateSchedule(x) \/ CancelSchedule(x)
      PROVE  Known(s)'
  <2>1. CASE CreateSchedule(x)
    BY <1>0, <2>1 DEF Known, CreateSchedule
  <2>2. CASE UpdateSchedule(x)
    BY <1>0, <2>2 DEF Known, UpdateSchedule
  <2>3. CASE CancelSchedule(x)
    BY <1>0, <2>3 DEF Known, CancelSchedule, ScheduleRow
  <2> QED
    BY <1>1, <2>1, <2>2, <2>3
<1>2. ASSUME NEW w \in Run, StartRun(w) \/ FailOne(w) \/ EndRun(w) \/ GenerateClaim(w)
      PROVE  Known(s)'
  BY <1>2 DEF Known, StartRun, FailOne, EndRun, GenerateClaim, rows
<1>3. ASSUME NEW w \in Run, TakeNext(w) PROVE Known(s)'
  BY <1>0, <1>3 DEF Known, TakeNext, ScheduleRow
<1>4. ASSUME NEW w \in Run, Advance(w) PROVE Known(s)'
  <2>1. PICK x, next : recurring' = [recurring EXCEPT ![x].dueIn = next]
    BY <1>4 DEF Advance
  <2> QED
    BY <1>0, <2>1 DEF Known, ScheduleRow
<1>5. CASE Crash
  BY <1>5 DEF Known, Crash, rows
<1>6. CASE NewDay
  BY <1>0, <1>6 DEF Known, NewDay, ScheduleRow
<1> QED
  BY <1>1, <1>2, <1>3, <1>4, <1>5, <1>6 DEF RecurringNext, RunStep

(* A run has no more to do than before, or what is due when it starts.     *)
LEMMA TodoStaysKnown ==
    ASSUME RecurringInv, TodoKnown, RecurringNext
    PROVE  TodoKnown'
<1>0. run \in [Run -> RunRow]
  BY DEF RecurringInv, RecurringRowsOK
<1>1. SUFFICES ASSUME NEW w \in Run, NEW s \in Recurring,
                      run'[w] # Idle, s \in DOMAIN run'[w].todo
               PROVE  Known(s)
  BY SchedulesStay DEF TodoKnown
<1>2. CASE run' = run
  BY <1>1, <1>2 DEF TodoKnown
<1>3. ASSUME NEW x \in Run, NEW row, run' = [run EXCEPT ![x] = row],
             run[x] # Idle, row = Idle \/ DOMAIN row.todo \subseteq DOMAIN run[x].todo
      PROVE  Known(s)
  <2>1. CASE w = x
    <3>1. run'[w] = row
      BY <1>0, <1>3, <2>1
    <3> QED
      BY <1>1, <1>3, <2>1, <3>1 DEF TodoKnown
  <2>2. CASE w # x
    <3>1. run'[w] = run[w]
      BY <1>0, <1>3, <2>2
    <3> QED
      BY <1>1, <3>1 DEF TodoKnown
  <2> QED
    BY <2>1, <2>2
<1>4. ASSUME NEW x \in Run, NEW y, NextOne(x, y), run[x] # Idle PROVE Known(s)
  <2> DEFINE row == [step |-> "next", over |-> run[x].over \ {y},
                     todo |-> Restrict(run[x].todo, DOMAIN run[x].todo \ {y})]
  <2>1. run' = [run EXCEPT ![x] = row]
    BY <1>0, <1>4 DEF NextOne
  <2>2. DOMAIN row.todo \subseteq DOMAIN run[x].todo
    BY DEF Restrict
  <2> QED
    BY <1>3, <1>4, <2>1, <2>2
<1>5. ASSUME NEW x \in Recurring,
             CreateSchedule(x) \/ UpdateSchedule(x) \/ CancelSchedule(x)
      PROVE  Known(s)
  BY <1>2, <1>5 DEF CreateSchedule, UpdateSchedule, CancelSchedule, Editing
<1>6. ASSUME NEW x \in Run, StartRun(x) PROVE Known(s)
  <2>1. PICK due \in SUBSET Recurring, over \in SUBSET Recurring :
           /\ \A y \in due : recurring[y].status = "ACTIVE"
           /\ run' = [run EXCEPT ![x] =
                 [step |-> "next", over |-> over,
                  todo |-> [y \in due |-> recurring[y].dueIn]]]
    BY <1>6 DEF StartRun
  <2>2. CASE w = x
    BY <1>0, <1>1, <2>1, <2>2 DEF Known
  <2>3. CASE w # x
    BY <1>0, <1>1, <2>1, <2>3 DEF TodoKnown
  <2> QED
    BY <2>2, <2>3
<1>7. ASSUME NEW x \in Run, TakeNext(x) PROVE Known(s)
  <2>1. run[x] # Idle
    BY <1>7, RunRows DEF TakeNext
  <2>2. PICK y : \/ NextOne(x, y)
                 \/ run' = [run EXCEPT ![x] = [step |-> "create", at |-> y,
                                               over |-> @.over, todo |-> @.todo]]
    BY <1>7 DEF TakeNext
  <2>3. CASE run' = [run EXCEPT ![x] = [step |-> "create", at |-> y,
                                        over |-> @.over, todo |-> @.todo]]
    <3> DEFINE row == [step |-> "create", at |-> y,
                       over |-> run[x].over, todo |-> run[x].todo]
    <3>1. run' = [run EXCEPT ![x] = row] /\ DOMAIN row.todo \subseteq DOMAIN run[x].todo
      BY <1>0, <2>3
    <3> QED
      BY <1>3, <2>1, <3>1
  <2> QED
    BY <1>4, <2>1, <2>2, <2>3
<1>8. ASSUME NEW x \in Run, GenerateClaim(x) PROVE Known(s)
  <2>1. run[x] # Idle /\ run[x] \in BusyRow
    BY <1>8, RunRows DEF GenerateClaim
  <2> DEFINE row == [run[x] EXCEPT !.step = "advance"]
  <2>2. run' = [run EXCEPT ![x] = row]
    BY <1>8 DEF GenerateClaim
  <2>3. DOMAIN row.todo \subseteq DOMAIN run[x].todo
    BY <2>1 DEF BusyRow
  <2> QED
    BY <1>3, <2>1, <2>2, <2>3
<1>9. ASSUME NEW x \in Run, Advance(x) \/ FailOne(x) PROVE Known(s)
  <2>1. run[x] # Idle
    BY <1>9, RunRows DEF Advance, FailOne
  <2> QED
    BY <1>4, <1>9, <2>1 DEF Advance, FailOne
<1>10. ASSUME NEW x \in Run, EndRun(x) PROVE Known(s)
  <2>1. run[x] # Idle
    BY <1>10, RunRows DEF EndRun
  <2> QED
    BY <1>3, <1>10, <2>1 DEF EndRun
<1>11. CASE Crash
  BY <1>1, <1>11 DEF Crash
<1>12. CASE NewDay
  BY <1>2, <1>12 DEF NewDay
<1> QED
  BY <1>5, <1>6, <1>7, <1>8, <1>9, <1>10, <1>11, <1>12 DEF RecurringNext, RunStep
(* What is left to show of a step that makes no claim for a due date.      *)
LEMMA DueKept ==
    ASSUME RecurringInv, RecurringRowsOK', DueInv, NEW s \in Recurring,
           claims'[s] = claims[s] \/ claims'[s] = 0,
           claimsToday'[s] = claimsToday[s],
           faults' >= faults, faults' - overlaps' >= faults - overlaps,
           claims'[s] <= faults' \/ Moving(s) \subseteq Moving(s)'
    PROVE  DueCounted(s)'
<1>1. /\ claims[s] \in Nat /\ claimsToday[s] \in Nat
      /\ faults \in Nat /\ overlaps \in Nat /\ overlaps <= faults
  BY DEF RecurringInv, RecurringRowsOK
<1>2. /\ claims'[s] \in Nat /\ claimsToday'[s] \in Nat
      /\ faults' \in Nat /\ overlaps' \in Nat /\ overlaps' <= faults'
  BY DEF RecurringRowsOK
<1>3. /\ claims[s] <= claimsToday[s] + (faults - overlaps)
      /\ claims[s] <= faults \/ Moving(s) # {}
  BY DEF DueInv, DueCounted
<1>4. claims'[s] <= claimsToday'[s] + (faults' - overlaps')
  BY <1>1, <1>2, <1>3
<1>5. claims'[s] <= faults' \/ Moving(s)' # {}
  <2>1. CASE claims[s] <= faults
    BY <1>1, <1>2, <2>1
  <2>2. CASE Moving(s) # {}
    BY <2>2
  <2> QED
    BY <1>3, <2>1, <2>2
<1> QED
  BY <1>4, <1>5 DEF DueCounted

(* A run that is not itself about to move a due date on disturbs none      *)
(* that is.                                                                *)
LEMMA OthersStillMove ==
    ASSUME RecurringInv, NEW s \in Recurring, NEW w \in Run, NEW row,
           run' = [run EXCEPT ![w] = row],
           run[w].step # "advance" \/ run[w].at # s,
           recurring'[s].dueIn = recurring[s].dueIn
    PROVE  Moving(s) \subseteq Moving(s)'
<1>1. \A x \in Run \ {w} : run'[x] = run[x]
  BY DEF RecurringInv, RecurringRowsOK
<1> QED
  BY <1>1 DEF Moving

(* The edits: a due date that is set anew has no claims yet.               *)
LEMMA EditingCounted ==
    ASSUME RecurringInv, RecurringRowsOK', DueInv, NEW x \in Recurring,
           CreateSchedule(x) \/ UpdateSchedule(x) \/ CancelSchedule(x),
           NEW s \in Recurring
    PROVE  DueCounted(s)'
<1>0. /\ recurring \in [Recurring -> ScheduleRow] /\ claims \in [Recurring -> Nat]
      /\ faults \in Nat /\ overlaps \in Nat
      /\ faults' \in Nat /\ claims'[s] \in Nat
  BY DEF RecurringInv, RecurringRowsOK
<1>1. UNCHANGED <<run, claimsToday, faults, overlaps>>
  BY DEF CreateSchedule, UpdateSchedule, CancelSchedule, Editing
<1>2. CASE claims'[s] = claims[s] /\ recurring'[s].dueIn = recurring[s].dueIn
  BY <1>0, <1>1, <1>2, DueKept DEF Moving
<1>3. CASE claims'[s] = 0
  BY <1>0, <1>1, <1>3, DueKept
<1>4. CASE CreateSchedule(x)
  <2>1. claims' = claims /\ \A y \in Recurring \ {x} : recurring'[y] = recurring[y]
    BY <1>0, <1>4 DEF CreateSchedule
  <2>2. ASSUME s = x PROVE Moving(s) = {}
    <3>1. ~Known(s)
      BY <1>4, <2>2 DEF CreateSchedule, Known
    <3>2. ASSUME NEW w \in Moving(s) PROVE FALSE
      <4>1. w \in Run /\ run[w].step = "advance" /\ run[w].at = s
        BY DEF Moving
      <4>2. run[w] # Idle /\ s \in DOMAIN run[w].todo
        BY <4>1, RunRows
      <4> QED
        BY <3>1, <4>1, <4>2 DEF DueInv, TodoKnown
    <3> QED
      BY <3>2
  <2>3. s = x => claims'[s] <= faults'
    BY <1>1, <2>1, <2>2 DEF DueInv, DueCounted
  <2> QED
    BY <1>0, <1>1, <1>2, <2>1, <2>3, DueKept
<1>5. CASE UpdateSchedule(x)
  <2>1. PICK status \in {"ACTIVE", "PAUSED"}, anew \in BOOLEAN :
           /\ recurring' = [recurring EXCEPT ![x] =
                 [status |-> status, dueIn |-> IF anew THEN Period ELSE @.dueIn]]
           /\ claims' = IF anew THEN [claims EXCEPT ![x] = 0] ELSE claims
    BY <1>5 DEF UpdateSchedule
  <2>2. CASE anew /\ s = x
    BY <1>0, <1>3, <2>1, <2>2
  <2>3. CASE ~anew \/ s # x
    <3>1. claims'[s] = claims[s]
      BY <1>0, <2>1, <2>3
    <3>2. recurring'[s].dueIn = recurring[s].dueIn
      BY <1>0, <2>1, <2>3
    <3> QED
      BY <1>2, <3>1, <3>2
  <2> QED
    BY <2>2, <2>3
<1>6. CASE CancelSchedule(x)
  <2>1. recurring' = [recurring EXCEPT ![x].status = "CANCELLED"] /\ claims' = claims
    BY <1>6 DEF CancelSchedule
  <2>2. recurring'[s].dueIn = recurring[s].dueIn
    BY <1>0, <2>1 DEF ScheduleRow
  <2> QED
    BY <1>2, <2>1, <2>2
<1> QED
  BY <1>4, <1>5, <1>6

(* A claim that is made today is one more today.  When it is for the due   *)
(* date that the schedule still has, the run is about to move that on.     *)
LEMMA GenerateCounted ==
    ASSUME RecurringInv, RecurringRowsOK', DueInv, NEW w \in Run, GenerateClaim(w),
           NEW s \in Recurring
    PROVE  DueCounted(s)'
<1>0. /\ run \in [Run -> RunRow]
      /\ claims \in [Recurring -> Nat] /\ claimsToday \in [Recurring -> Nat]
      /\ faults \in Nat /\ overlaps \in Nat
  BY DEF RecurringInv, RecurringRowsOK
<1>1. PICK x : x = run[w].at
  OBVIOUS
<1>2. /\ run[w].step = "create" /\ run[w] \in BusyRow /\ x \in Recurring
      /\ claimsToday' = [claimsToday EXCEPT ![x] = @ + 1]
      /\ claims' = IF run[w].todo[x] = recurring[x].dueIn
                   THEN [claims EXCEPT ![x] = @ + 1] ELSE claims
      /\ run' = [run EXCEPT ![w].step = "advance"]
      /\ UNCHANGED <<recurring, ran, faults, overlaps>>
  BY <1>1, RunRows DEF GenerateClaim, BusyRow
<1> DEFINE row == [run[w] EXCEPT !.step = "advance"]
<1>3. row.step = "advance" /\ row.at = x /\ row.todo = run[w].todo
  BY <1>1, <1>2 DEF BusyRow
<1>4. run' = [run EXCEPT ![w] = row]
  BY <1>2
<1> HIDE DEF row
<1>5. Moving(s) \subseteq Moving(s)'
  BY <1>2, <1>4, OthersStillMove
<1>6. CASE s # x
  <2>1. claims'[s] = claims[s] /\ claimsToday'[s] = claimsToday[s]
    BY <1>0, <1>2, <1>6
  <2> QED
    BY <1>0, <1>2, <1>5, <2>1, DueKept
<1>7. CASE s = x
  <2>1. claimsToday'[s] = claimsToday[s] + 1
    BY <1>0, <1>2, <1>7
  <2>2. claims'[s] = claims[s] \/ claims'[s] = claims[s] + 1
    BY <1>0, <1>2, <1>7
  <2>3. claims[s] <= claimsToday[s] + (faults - overlaps)
    BY DEF DueInv, DueCounted
  <2>4. claims'[s] <= claimsToday'[s] + (faults' - overlaps')
    BY <1>0, <1>2, <2>1, <2>2, <2>3
  <2>5. CASE run[w].todo[x] = recurring[x].dueIn
    <3>1. run'[w] = row
      BY <1>0, <1>4
    <3>2. w \in Moving(s)'
      BY <1>2, <1>3, <1>7, <2>5, <3>1 DEF Moving
    <3> QED
      BY <2>4, <3>2 DEF DueCounted
  <2>6. CASE run[w].todo[x] # recurring[x].dueIn
    <3>1. claims' = claims /\ faults' = faults
      BY <1>2, <2>6
    <3> QED
      BY <1>5, <2>4, <3>1 DEF DueInv, DueCounted
  <2> QED
    BY <2>5, <2>6
<1> QED
  BY <1>6, <1>7

(* The due date moves on, and has no claims yet; unless another run moved  *)
(* it there already, and then this one was not needed to.                  *)
LEMMA AdvanceCounted ==
    ASSUME RecurringInv, RecurringRowsOK', DueInv, NEW w \in Run, Advance(w),
           NEW s \in Recurring
    PROVE  DueCounted(s)'
<1>0. /\ run \in [Run -> RunRow] /\ recurring \in [Recurring -> ScheduleRow]
      /\ claims \in [Recurring -> Nat]
      /\ faults \in Nat /\ overlaps \in Nat
  BY DEF RecurringInv, RecurringRowsOK
<1>1. PICK x : x = run[w].at
  OBVIOUS
<1>2. /\ run[w].step = "advance" /\ run[w] \in BusyRow
      /\ x \in DOMAIN run[w].todo /\ x \in Recurring
  BY <1>1, RunRows DEF Advance, BusyRow
<1>3. run[w].todo[x] \in Int
  <2>1. run[w].todo \in Todo
    BY <1>2 DEF BusyRow
  <2>2. run[w].todo[x] \in (0 - MaxLate) .. 0
    BY <1>2, <2>1, TodoShrinks
  <2> QED
    BY <2>2, RecurringAssumption
<1>4. PICK next : next = NextDate(run[w].todo[x])
  OBVIOUS
<1>5. next # run[w].todo[x]
  BY <1>3, <1>4, RecurringAssumption DEF NextDate
<1>6. /\ recurring' = [recurring EXCEPT ![x].dueIn = next]
      /\ claims' = IF next = recurring[x].dueIn THEN claims
                   ELSE [claims EXCEPT ![x] = 0]
      /\ NextOne(w, x)
      /\ UNCHANGED <<claimsToday, faults, overlaps>>
  BY <1>1, <1>4 DEF Advance
<1>7. PICK row : run' = [run EXCEPT ![w] = row]
  BY <1>2, <1>6, NextOneRow
<1>8. CASE s # x
  <2>1. recurring'[s] = recurring[s] /\ claims'[s] = claims[s]
    BY <1>0, <1>6, <1>8
  <2>2. Moving(s) \subseteq Moving(s)'
    BY <1>1, <1>7, <1>8, <2>1, OthersStillMove
  <2> QED
    BY <1>0, <1>6, <2>1, <2>2, DueKept
<1>9. CASE s = x /\ next = recurring[x].dueIn
  <2>1. claims'[s] = claims[s] /\ recurring'[s].dueIn = recurring[s].dueIn
    BY <1>0, <1>6, <1>9 DEF ScheduleRow
  <2>2. w \notin Moving(s)
    BY <1>5, <1>9 DEF Moving
  <2>3. \A y \in Run \ {w} : run'[y] = run[y]
    BY <1>0, <1>7
  <2>4. Moving(s) \subseteq Moving(s)'
    BY <2>1, <2>2, <2>3 DEF Moving
  <2> QED
    BY <1>0, <1>6, <2>1, <2>4, DueKept
<1>10. CASE s = x /\ next # recurring[x].dueIn
  <2>1. claims'[s] = 0 /\ 0 <= faults'
    BY <1>0, <1>6, <1>10
  <2> QED
    BY <1>0, <1>6, <2>1, DueKept
<1> QED
  BY <1>8, <1>9, <1>10

(* A start, a test, an end and a failure: the failure may be of the run    *)
(* that was about to move the due date on, and then it is against the      *)
(* claim that was made.                                                    *)
LEMMA OthersCounted ==
    ASSUME RecurringInv, RecurringRowsOK', DueInv, NEW w \in Run,
           StartRun(w) \/ TakeNext(w) \/ EndRun(w) \/ FailOne(w),
           NEW s \in Recurring
    PROVE  DueCounted(s)'
<1>0. run \in [Run -> RunRow] /\ recurring \in [Recurring -> ScheduleRow]
  BY DEF RecurringInv, RecurringRowsOK
<1>n. /\ claims[s] \in Nat /\ faults \in Nat /\ overlaps \in Nat
      /\ faults' \in Nat /\ overlaps' \in Nat
  BY DEF RecurringInv, RecurringRowsOK
<1>1. claims' = claims /\ claimsToday' = claimsToday
  BY DEF StartRun, TakeNext, EndRun, FailOne, rows
<1>2. CASE StartRun(w)
  <2>1. faults' >= faults /\ faults' - overlaps' >= faults - overlaps
    <3>1. \/ faults' = faults /\ overlaps' = overlaps
          \/ faults' = faults + 1 /\ overlaps' = overlaps + 1
      <4>1. \/ UNCHANGED <<faults, overlaps>>
            \/ faults < MaxFaults /\ faults' = faults + 1 /\ overlaps' = overlaps + 1
        BY <1>2 DEF StartRun, Fault
      <4> QED
        BY <4>1
    <3>2. faults \in Int /\ overlaps \in Int
      BY <1>n
    <3> QED
      BY <3>1, <3>2
  <2>2. run[w] = Idle /\ recurring' = recurring
    BY <1>2 DEF StartRun, rows, RecurringInv, RecurringRowsOK, Running
  <2>3. PICK row : run' = [run EXCEPT ![w] = row]
    <3>1. PICK due, over :
             run' = [run EXCEPT ![w] =
                [step |-> "next", over |-> over,
                 todo |-> [x \in due |-> recurring[x].dueIn]]]
      BY <1>2 DEF StartRun
    <3> DEFINE started == [step |-> "next", over |-> over,
                           todo |-> [x \in due |-> recurring[x].dueIn]]
    <3>2. run' = [run EXCEPT ![w] = started]
      BY <3>1
    <3> HIDE DEF started
    <3> QED
      BY <3>2
  <2>4. Moving(s) \subseteq Moving(s)'
    <3>1. run[w].step # "advance" /\ recurring'[s].dueIn = recurring[s].dueIn
      BY <2>2 DEF Idle
    <3> QED
      BY <2>3, <3>1, OthersStillMove
  <2> QED
    BY <1>1, <2>1, <2>4, DueKept
<1>3. CASE TakeNext(w)
  <2>1. run[w].step = "next" /\ UNCHANGED <<faults, overlaps>>
    BY <1>3 DEF TakeNext
  <2>2. \E row : run' = [run EXCEPT ![w] = row]
    BY <1>3 DEF TakeNext, NextOne
  <2>3. recurring'[s].dueIn = recurring[s].dueIn
    BY <1>0, <1>3 DEF TakeNext, ScheduleRow
  <2>4. Moving(s) \subseteq Moving(s)'
    BY <2>1, <2>2, <2>3, OthersStillMove
  <2> QED
    BY <1>n, <1>1, <2>1, <2>4, DueKept
<1>4. CASE EndRun(w)
  <2>1. /\ run[w].step = "next" /\ run' = [run EXCEPT ![w] = Idle]
        /\ UNCHANGED <<recurring, faults, overlaps>>
    BY <1>4 DEF EndRun, rows
  <2>2. Moving(s) \subseteq Moving(s)'
    BY <2>1, OthersStillMove
  <2> QED
    BY <1>n, <1>1, <2>1, <2>2, DueKept
<1>5. CASE FailOne(w)
  <2>1. faults' = faults + 1 /\ overlaps' = overlaps
    BY <1>5 DEF FailOne, Fault
  <2>2. claims'[s] <= faults'
    BY <1>n, <1>1, <2>1, DueBound
  <2> QED
    BY <1>n, <1>1, <2>1, <2>2, DueKept
<1> QED
  BY <1>2, <1>3, <1>4, <1>5

(* The end of the process is against the claims whose due date is left     *)
(* where it was; and by the end of a day no run is about to move one.      *)
LEMMA DaysCounted ==
    ASSUME RecurringInv, RecurringRowsOK', DueInv, Crash \/ NewDay, NEW s \in Recurring
    PROVE  DueCounted(s)'
<1>0. /\ claims[s] \in Nat /\ faults \in Nat /\ overlaps \in Nat
      /\ faults' \in Nat /\ overlaps' \in Nat
  BY DEF RecurringInv, RecurringRowsOK
<1>1. CASE Crash
  <2>1. faults' = faults + 1 /\ UNCHANGED <<claims, claimsToday, overlaps>>
    BY <1>1 DEF Crash, Fault, rows
  <2>2. claims'[s] <= faults'
    BY <1>0, <2>1, DueBound
  <2> QED
    BY <1>0, <2>1, <2>2, DueKept
<1>2. CASE NewDay
  <2>1. /\ Running = {} /\ claims' = claims /\ claimsToday'[s] = 0 /\ overlaps' = 0
        /\ faults' >= faults
    BY <1>0, <1>2 DEF NewDay, Fault
  <2>2. Moving(s) = {}
    BY <2>1, RunRows DEF Moving, Running
  <2>3. claims[s] <= faults
    BY <2>2 DEF DueInv, DueCounted
  <2> QED
    BY <1>0, <2>1, <2>3 DEF DueCounted
<1> QED
  BY <1>1, <1>2

(* The inductive invariant of the due dates.                               *)
THEOREM DueDatesStayCounted == RecurringSpec => []DueInv
<1>1. RecurringInit => DueInv
  <2> SUFFICES ASSUME RecurringInit PROVE DueInv
    OBVIOUS
  <2>1. TodoKnown
    BY DEF RecurringInit, TodoKnown
  <2>2. \A s \in Recurring : DueCounted(s)
    BY DEF RecurringInit, DueCounted
  <2> QED
    BY <2>1, <2>2 DEF DueInv
<1>2. ASSUME RecurringInv, RecurringInv', DueInv, RecurringNext PROVE DueInv'
  <2>1. TodoKnown'
    BY <1>2, TodoStaysKnown DEF DueInv
  <2>2. RecurringRowsOK'
    BY <1>2 DEF RecurringInv
  <2>3. ASSUME NEW s \in Recurring PROVE DueCounted(s)'
    BY <1>2, <2>2, EditingCounted, GenerateCounted, AdvanceCounted, OthersCounted,
       DaysCounted DEF RecurringNext, RunStep
  <2> QED
    BY <2>1, <2>3 DEF DueInv
<1>3. ASSUME DueInv, UNCHANGED recurringVars PROVE DueInv'
  <2>1. UNCHANGED <<recurring, claimsToday, claims, run, faults, overlaps>>
    BY <1>3 DEF recurringVars, rows
  <2> QED
    BY <1>3, <2>1 DEF DueInv, TodoKnown, Known, DueCounted, Moving
<1> QED
  BY <1>1, <1>2, <1>3, RecurringStaysCounted, PTL DEF RecurringSpec

(* The claim and the due date are written apart, and "already generated    *)
(* today" forgets overnight: for one due date there is one claim, and one  *)
(* more at most for each crash, failure or overlapping run.                *)
THEOREM OneClaimPerDueDate == RecurringSpec => []OnePerDueDate
<1>1. RecurringInv /\ DueInv => OnePerDueDate
  BY DueBound DEF OnePerDueDate
<1> QED
  BY <1>1, RecurringStaysCounted, DueDatesStayCounted, PTL
=============================================================================
