----------------------------- MODULE ScheduledTasks -----------------------------
(***************************************************************************)
(* The scheduled tasks of a generated application for one business date.   *)
(*                                                                         *)
(* A task runs under the completion record of its (task, business date):   *)
(* running, then succeeded or failed, or not_due.  It is started by its    *)
(* HTTP route (a cron delivery, possibly duplicated), by a pass over all   *)
(* tasks in dependency order (task:run-all), by an operator's explicit     *)
(* task:run, or from the admin page, which can also resolve or skip it.    *)
(* Every statement of the guard is a transaction of its own, hence a step  *)
(* of its own; a process may crash between any two, and what it left in    *)
(* the record stays there.                                                 *)
(*                                                                         *)
(* A row-scan task handles the rows its filter selects one by one, each in *)
(* a transaction that takes the row's advisory lock and looks at the       *)
(* filter again; a bulk task has no rows here.                             *)
(***************************************************************************)
EXTENDS Naturals, Sequences, FiniteSets

CONSTANTS
  Tasks,       \* task ids
  Declared,    \* the tasks in the order of the schema
  DependsOn,   \* [Tasks -> SUBSET Tasks]: depends_on
  NotDue,      \* tasks whose interval says that tonight is not their turn
  Rows,        \* rows a filter may select
  RowsOf,      \* [Tasks -> SUBSET Rows]: rows that match the task's filter at first
  Processes,   \* invocations in flight at the same time
  Modes,       \* ways in which tasks are started or stepped over
  MaxCrashes   \* bound: crashes of a process

ASSUME TasksAssumption ==
  /\ IsFiniteSet(Tasks)
  /\ Declared \in Seq(Tasks)
  /\ {Declared[i] : i \in DOMAIN Declared} = Tasks
  /\ Len(Declared) = Cardinality(Tasks)
  /\ DependsOn \in [Tasks -> SUBSET Tasks]
  /\ NotDue \subseteq Tasks
  /\ RowsOf \in [Tasks -> SUBSET Rows]
  /\ Modes \subseteq {"route", "run_all", "run", "rerun", "resolve", "skip"}
  /\ MaxCrashes \in Nat

(* The generator rejects cycles: every set of tasks has one that waits for  *)
(* none of the others.                                                      *)
ASSUME AcyclicAssumption ==
  \A S \in (SUBSET Tasks) \ {{}} : \E t \in S : DependsOn[t] \cap S = {}

VARIABLES
  record,     \* record[t]: status of the scheduled_task_run row, "none" without one
  stuck,      \* stuck[t]: the run recorded began longer ago than the threshold
  eligible,   \* eligible[t]: rows that still match t's filter
  handled,    \* handled[t][r]: times t's handler was committed for r (saturates at 2)
  completed,  \* completed[t]: times t's handler returned (saturates at 2)
  crashes,    \* crashes so far
  pc, work    \* pc[p], work[p]: where process p stands, its local variables

vars == <<record, stuck, eligible, handled, completed, crashes, pc, work>>
shared == <<stuck, eligible, handled, completed, crashes>>

-----------------------------------------------------------------------------
(***************************************************************************)
(* Kahn's algorithm as task:run-all uses it: again and again the first     *)
(* task, in schema order, whose predecessors have been taken.              *)
(***************************************************************************)
NextInOrder(done) ==
  LET ready == {i \in DOMAIN Declared : Declared[i] \notin done /\ DependsOn[Declared[i]] \subseteq done}
  IN Declared[CHOOSE i \in ready : \A j \in ready : i <= j]

taken[n \in 0..Len(Declared)] ==
  IF n = 0 THEN <<>>
  ELSE LET before == taken[n - 1]
       IN Append(before, NextInOrder({before[i] : i \in 1..(n - 1)}))
topologicalOrder == taken[Len(Declared)]

Statuses == {"running", "succeeded", "failed", "not_due"}
NoTask == "none"
Steps == {"idle", "consider", "read", "check", "claim", "select", "handle",
          "failing", "succeeding", "flip"}
Work == [task : Tasks \cup {NoTask}, mode : Modes \cup {"none"}, position : 0..Len(Declared),
         reclaim : BOOLEAN, seen : Statuses \cup {"none"}, todo : SUBSET Rows]
Blank == [task |-> NoTask, mode |-> "none", position |-> 0, reclaim |-> FALSE,
          seen |-> "none", todo |-> {}]

Usable(t) == record[t] \in {"succeeded", "not_due"}
isStuck(t) == record[t] = "running" /\ stuck[t]
Bump(n) == IF n < 2 THEN n + 1 ELSE 2

Goto(p, step, w) ==
  /\ pc' = [pc EXCEPT ![p] = step]
  /\ work' = [work EXCEPT ![p] = w]

(* The end of a task's run: a pass goes on to its next task. *)
EndTask(p) ==
  IF work[p].mode = "run_all" /\ work[p].position < Len(Declared)
  THEN Goto(p, "consider", [Blank EXCEPT !.mode = "run_all",
                                         !.position = work[p].position + 1,
                                         !.task = topologicalOrder[work[p].position + 1]])
  ELSE Goto(p, "idle", Blank)

Init ==
  /\ record = [t \in Tasks |-> "none"]
  /\ stuck = [t \in Tasks |-> FALSE]
  /\ eligible = RowsOf
  /\ handled = [t \in Tasks |-> [r \in Rows |-> 0]]
  /\ completed = [t \in Tasks |-> 0]
  /\ crashes = 0
  /\ pc = [p \in Processes |-> "idle"]
  /\ work = [p \in Processes |-> Blank]

-----------------------------------------------------------------------------
(* Starting. *)

(* The HTTP route and task:run call the guard; only task:run takes over a   *)
(* running record.                                                          *)
Invoke(p, t, mode) ==
  /\ pc[p] = "idle" /\ mode \in {"route", "run"} \cap Modes
  /\ Goto(p, "read", [Blank EXCEPT !.task = t, !.mode = mode, !.reclaim = (mode = "run")])
  /\ UNCHANGED <<record, shared>>

StartPass(p) ==
  /\ pc[p] = "idle" /\ "run_all" \in Modes /\ Declared # <<>>
  /\ Goto(p, "consider", [Blank EXCEPT !.mode = "run_all", !.position = 1,
                                       !.task = topologicalOrder[1]])
  /\ UNCHANGED <<record, shared>>

(* A pass records a task that is not due and has no record; a task that     *)
(* succeeded today, or is due, goes through the guard.                      *)
Consider(p) ==
  LET t == work[p].task
      skipped == t \in NotDue /\ record[t] # "succeeded"
  IN /\ pc[p] = "consider"
     /\ record' = IF skipped /\ record[t] = "none" THEN [record EXCEPT ![t] = "not_due"]
                  ELSE record
     /\ IF skipped THEN EndTask(p) ELSE Goto(p, "read", work[p])
     /\ UNCHANGED shared

(* The admin page's rerun judges the record before it calls the guard: only *)
(* what it found stuck is taken over.                                       *)
RerunCheck(p, t) ==
  /\ pc[p] = "idle" /\ "rerun" \in Modes
  /\ record[t] # "succeeded" /\ (record[t] = "running" => stuck[t])
  /\ Goto(p, "read", [Blank EXCEPT !.task = t, !.mode = "rerun", !.reclaim = isStuck(t)])
  /\ UNCHANGED <<record, shared>>

ResolveCheck(p, t) ==
  /\ pc[p] = "idle" /\ "resolve" \in Modes
  /\ record[t] = "failed" \/ isStuck(t)
  /\ Goto(p, "flip", [Blank EXCEPT !.task = t, !.mode = "resolve", !.seen = record[t]])
  /\ UNCHANGED <<record, shared>>

SkipCheck(p, t) ==
  /\ pc[p] = "idle" /\ "skip" \in Modes
  /\ record[t] # "succeeded" /\ (record[t] = "running" => stuck[t])
  /\ Goto(p, "flip", [Blank EXCEPT !.task = t, !.mode = "skip", !.seen = record[t]])
  /\ UNCHANGED <<record, shared>>

(* The record is made succeeded, without any work, if its status is still   *)
(* the one that was read; where there was none it is created.               *)
Flip(p) ==
  LET t == work[p].task
  IN /\ pc[p] = "flip"
     /\ record' = IF record[t] = work[p].seen THEN [record EXCEPT ![t] = "succeeded"] ELSE record
     /\ EndTask(p)
     /\ UNCHANGED shared

-----------------------------------------------------------------------------
(* runScheduledTask. *)

ReadRecord(p) ==
  LET t == work[p].task
  IN /\ pc[p] = "read"
     /\ IF record[t] = "succeeded" \/ (record[t] = "running" /\ ~work[p].reclaim)
        THEN EndTask(p)
        ELSE Goto(p, "check", [work[p] EXCEPT !.seen = record[t]])
     /\ UNCHANGED <<record, shared>>

(* Mutant: a predecessor that was started is taken for one that is done. *)
StartedPredecessors(t) == \A d \in DependsOn[t] : record[d] # "none"

Unblocked(t) == \A d \in DependsOn[t] : Usable(d)

CheckPredecessors(p) ==
  /\ pc[p] = "check"
  /\ IF Unblocked(work[p].task) THEN Goto(p, "claim", work[p]) ELSE EndTask(p)
  /\ UNCHANGED <<record, shared>>

(* Mutant: the claim does not compare the status with the one read. *)
ClaimAnyway(t, seen) == TRUE

(* Mutant: only a task without a record is claimed, a failed one is not. *)
ClaimFresh(t, seen) == record[t] = "none"

(* The claim creates the row, or updates it where its status is still the   *)
(* one read; for a running row that is taken over it always is.             *)
Claimable(t, seen) == record[t] = seen

Claim(p) ==
  LET t == work[p].task
  IN /\ pc[p] = "claim"
     /\ IF Claimable(t, work[p].seen)
        THEN /\ record' = [record EXCEPT ![t] = "running"]
             /\ stuck' = [stuck EXCEPT ![t] = FALSE]
             /\ Goto(p, "select", work[p])
        ELSE EndTask(p) /\ UNCHANGED <<record, stuck>>
     /\ UNCHANGED <<eligible, handled, completed, crashes>>

(* The scan of a row-scan task. *)
SelectRows(p) ==
  /\ pc[p] = "select"
  /\ Goto(p, "handle", [work[p] EXCEPT !.todo = eligible[work[p].task]])
  /\ UNCHANGED <<record, shared>>

(* Mutant: the filter is not looked at again under the row's lock. *)
AsScanned(t, row) == TRUE

StillEligible(t, row) == row \in eligible[t]

(* One row, in a transaction under its advisory lock: the handler moves it  *)
(* out of the filter, unless another run already did.                       *)
HandleRow(p) ==
  LET t == work[p].task
  IN /\ pc[p] = "handle"
     /\ \E row \in work[p].todo :
          /\ Goto(p, "handle", [work[p] EXCEPT !.todo = @ \ {row}])
          /\ IF StillEligible(t, row)
             THEN /\ eligible' = [eligible EXCEPT ![t] = @ \ {row}]
                  /\ handled' = [handled EXCEPT ![t][row] = Bump(@)]
             ELSE UNCHANGED <<eligible, handled>>
     /\ UNCHANGED <<record, stuck, completed, crashes>>

(* The scan or the handler throws: the rows it committed stay handled. *)
HandlerThrows(p) ==
  /\ pc[p] = "handle"
  /\ Goto(p, "failing", [work[p] EXCEPT !.todo = {}])
  /\ UNCHANGED <<record, shared>>

HandlerReturns(p) ==
  /\ pc[p] = "handle" /\ work[p].todo = {}
  /\ completed' = [completed EXCEPT ![work[p].task] = Bump(@)]
  /\ Goto(p, "succeeding", work[p])
  /\ UNCHANGED <<record, stuck, eligible, handled, crashes>>

(* Mutant: a failure is recorded as a success. *)
AlwaysSucceeded(step) == "succeeded"

(* Mutant: the outcome of a pass, not the record's status, is written. *)
PassOutcome(step) == IF step = "failing" THEN "blocked" ELSE "succeeded"

Outcome(step) == IF step = "failing" THEN "failed" ELSE "succeeded"

(* The outcome is written whatever the record says by now. *)
RecordOutcome(p) ==
  /\ pc[p] \in {"failing", "succeeding"}
  /\ record' = [record EXCEPT ![work[p].task] = Outcome(pc[p])]
  /\ EndTask(p)
  /\ UNCHANGED shared

-----------------------------------------------------------------------------
(* A process dies, or loses the database: its record stays as it is. *)
Crash(p) ==
  /\ pc[p] # "idle" /\ crashes < MaxCrashes
  /\ crashes' = crashes + 1
  /\ Goto(p, "idle", Blank)
  /\ UNCHANGED <<record, stuck, eligible, handled, completed>>

(* Time passes: a running record becomes older than the threshold, which    *)
(* only the admin page looks at.                                            *)
Age(t) ==
  /\ record[t] = "running" /\ ~stuck[t]
  /\ {"rerun", "resolve", "skip"} \cap Modes # {}
  /\ stuck' = [stuck EXCEPT ![t] = TRUE]
  /\ UNCHANGED <<record, eligible, handled, completed, crashes, pc, work>>

(* What a process does once it was started. *)
Advance(p) ==
  \/ Consider(p) \/ Flip(p)
  \/ ReadRecord(p) \/ CheckPredecessors(p) \/ Claim(p)
  \/ SelectRows(p) \/ HandleRow(p) \/ HandlerThrows(p) \/ HandlerReturns(p)
  \/ RecordOutcome(p)

Next ==
  \/ \E p \in Processes, t \in Tasks :
       \/ \E mode \in Modes : Invoke(p, t, mode)
       \/ RerunCheck(p, t) \/ ResolveCheck(p, t) \/ SkipCheck(p, t)
  \/ \E p \in Processes : StartPass(p) \/ Advance(p) \/ Crash(p)
  \/ \E t \in Tasks : Age(t)

Spec == Init /\ [][Next]_vars

(***************************************************************************)
(* Processes that run keep running, passes are started again and again     *)
(* (the operations guide has the failed night rerun), and a handler that   *)
(* is retried for ever gets on: it handles a row, it returns.              *)
(***************************************************************************)
FairSpec ==
  /\ Spec
  /\ \A p \in Processes : WF_vars(Advance(p))
  /\ SF_vars(\E p \in Processes : StartPass(p))
  /\ \A t \in Tasks :
       /\ SF_vars(\E p \in Processes : work[p].task = t /\ HandleRow(p))
       /\ SF_vars(\E p \in Processes : work[p].task = t /\ HandlerReturns(p))

-----------------------------------------------------------------------------
(* Properties. *)

(* Type correctness of the records and of the local state of processes. *)
TypeOK ==
  /\ record \in [Tasks -> Statuses \cup {"none"}]
  /\ stuck \in [Tasks -> BOOLEAN]
  /\ eligible \in [Tasks -> SUBSET Rows]
  /\ handled \in [Tasks -> [Rows -> 0..2]]
  /\ completed \in [Tasks -> 0..2]
  /\ crashes \in 0..MaxCrashes
  /\ pc \in [Processes -> Steps]
  /\ work \in [Processes -> Work]

(* The processes between the claim of a task and the end of its run. *)
Runs(p, t) == work[p].task = t /\ pc[p] \in {"select", "handle", "failing", "succeeding"}

(* A task has at most one run at a time, however many deliveries and passes *)
(* read its record before one of them claims it.                            *)
ExclusiveRun == \A t \in Tasks, p, q \in Processes : Runs(p, t) /\ Runs(q, t) => p = q

(* A double trigger never runs a handler to its end twice on one business   *)
(* date, also after failures, retries and crashes.                          *)
CompletesOnce == \A t \in Tasks : completed[t] <= 1

(* A task runs only while everything it depends on that is due has          *)
(* succeeded, although the check and the claim are separate statements and  *)
(* the predecessors may be started again by other deliveries.               *)
RunsInOrder ==
  \A t \in Tasks, p \in Processes :
    Runs(p, t) => \A d \in DependsOn[t] \ NotDue : record[d] = "succeeded"

(* A succeeded record means that no row of the task was left over, also     *)
(* when earlier runs failed half way.                                       *)
SuccessLeavesNothing == \A t \in Tasks : record[t] = "succeeded" => eligible[t] = {}

(* A succeeded record is final.                                             *)
SucceededIsFinal ==
  [][\A t \in Tasks : record[t] = "succeeded" => record'[t] = "succeeded"]_vars

(* A row is handled at most once, even by runs that overlap because one was *)
(* taken over while it was still alive.                                     *)
RowHandledOnce == \A t \in Tasks, r \in Rows : handled[t][r] <= 1

(* A running record whose process has died. *)
Orphaned(t) == record[t] = "running" /\ \A p \in Processes : ~Runs(p, t)

(* t and what it waits for, directly or not. *)
Upstream(t) ==
  {d \in Tasks : \A S \in SUBSET Tasks :
     t \in S /\ (\A x \in S : DependsOn[x] \subseteq S) => d \in S}

(* The night completes: every task that is due is done in the end, unless   *)
(* a crashed run's record stands in its way.                                *)
NightCompletes ==
  \A t \in Tasks \ NotDue : <>(Usable(t) \/ \E d \in Upstream(t) : Orphaned(d))
================================================================================
