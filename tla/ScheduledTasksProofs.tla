-------------------------- MODULE ScheduledTasksProofs --------------------------
(***************************************************************************)
(* Theorems about ScheduledTasks, for every set of tasks, processes and    *)
(* rows, every dependency relation and every number of crashes.            *)
(***************************************************************************)
EXTENDS TaskRefinement, FiniteSetTheorems, WellFoundedInduction, TLAPS

-----------------------------------------------------------------------------
(* Rows are handled once, however tasks are started or taken over. *)

(* The counters and filters are functions; nothing else is needed of types. *)
RowsTyped ==
  /\ eligible \in [Tasks -> SUBSET Rows]
  /\ handled \in [Tasks -> [Rows -> Nat]]

(* A row that still matches the filter has not been handled. *)
EligibleUntouched ==
  \A t \in Tasks, r \in Rows :
    /\ handled[t][r] <= 1
    /\ r \in eligible[t] => handled[t][r] = 0

RowInv == RowsTyped /\ EligibleUntouched

(* The only step that touches rows, for a task and a row it handles. *)
LEMMA HandleRowKeeps ==
  ASSUME RowInv, NEW p \in Processes, HandleRow(p)
  PROVE  RowInv'
<1> DEFINE t == work[p].task
<1>1. PICK row \in work[p].todo :
        IF StillEligible(t, row)
        THEN /\ eligible' = [eligible EXCEPT ![t] = @ \ {row}]
             /\ handled' = [handled EXCEPT ![t][row] = Bump(@)]
        ELSE UNCHANGED <<eligible, handled>>
  BY DEF HandleRow
<1>2. CASE ~StillEligible(t, row)
  BY <1>1, <1>2 DEF RowInv, RowsTyped, EligibleUntouched
<1>3. CASE StillEligible(t, row) /\ t \notin Tasks
  <2>1. /\ eligible' \in [Tasks -> SUBSET Rows]
        /\ \A x \in Tasks : eligible'[x] = eligible[x]
    BY <1>1, <1>3 DEF RowInv, RowsTyped
  <2>2. handled' = [handled EXCEPT ![t] = [handled[t] EXCEPT ![row] = Bump(@)]]
    BY <1>1, <1>3
  <2>3. /\ handled' \in [Tasks -> [Rows -> Nat]]
        /\ \A x \in Tasks : handled'[x] = handled[x]
    BY <2>2, <1>3 DEF RowInv, RowsTyped
  <2> QED
    BY <2>1, <2>3 DEF RowInv, RowsTyped, EligibleUntouched
<1>4. CASE StillEligible(t, row) /\ t \in Tasks
  <2>1. row \in Rows /\ row \in eligible[t] /\ handled[t][row] = 0
    BY <1>4 DEF StillEligible, RowInv, RowsTyped, EligibleUntouched
  <2>2. eligible' = [eligible EXCEPT ![t] = @ \ {row}] /\ handled' = [handled EXCEPT ![t][row] = 1]
    BY <1>1, <1>4, <2>1 DEF Bump, RowInv, RowsTyped
  <2>3. RowsTyped'
    BY <1>4, <2>1, <2>2 DEF RowInv, RowsTyped
  <2>4. EligibleUntouched'
    BY <1>4, <2>1, <2>2 DEF RowInv, RowsTyped, EligibleUntouched
  <2> QED
    BY <2>3, <2>4 DEF RowInv
<1> QED
  BY <1>2, <1>3, <1>4

(* Every other step leaves the rows alone. *)
LEMMA RowsElsewhere ==
  ASSUME [Next]_vars, \A p \in Processes : ~HandleRow(p)
  PROVE  UNCHANGED <<eligible, handled>>
<1>1. CASE UNCHANGED vars
  BY <1>1 DEF vars
<1>2. ASSUME NEW p \in Processes, NEW t \in Tasks,
             \/ \E mode \in Modes : Invoke(p, t, mode)
             \/ RerunCheck(p, t) \/ ResolveCheck(p, t) \/ SkipCheck(p, t)
      PROVE  UNCHANGED <<eligible, handled>>
  BY <1>2 DEF Invoke, RerunCheck, ResolveCheck, SkipCheck, shared
<1>3. ASSUME NEW p \in Processes, StartPass(p) \/ Advance(p) \/ Crash(p)
      PROVE  UNCHANGED <<eligible, handled>>
  BY <1>3 DEF StartPass, Crash, Advance, Consider, Flip, ReadRecord, CheckPredecessors, Claim,
              SelectRows, HandlerThrows, HandlerReturns, RecordOutcome, shared
<1>4. ASSUME NEW t \in Tasks, Age(t)
      PROVE  UNCHANGED <<eligible, handled>>
  BY <1>4 DEF Age
<1> QED
  BY <1>1, <1>2, <1>3, <1>4 DEF Next

(* No row is handled twice, although runs may overlap, fail half way, be    *)
(* taken over alive or be repeated: the filter is looked at again under the *)
(* lock of the row, in the transaction that moves the row out of it.        *)
THEOREM RowsHandledOnce == Spec => []RowHandledOnce
<1>1. Init => RowInv
  BY TasksAssumption DEF Init, RowInv, RowsTyped, EligibleUntouched
<1>2. RowInv /\ [Next]_vars => RowInv'
  <2> SUFFICES ASSUME RowInv, [Next]_vars PROVE RowInv'
    OBVIOUS
  <2>1. CASE \E p \in Processes : HandleRow(p)
    BY <2>1, HandleRowKeeps
  <2>2. CASE \A p \in Processes : ~HandleRow(p)
    BY <2>2, RowsElsewhere DEF RowInv, RowsTyped, EligibleUntouched
  <2> QED
    BY <2>1, <2>2
<1>3. RowInv => RowHandledOnce
  BY DEF RowInv, EligibleUntouched, RowHandledOnce
<1> QED
  BY <1>1, <1>2, <1>3, PTL DEF Spec
-----------------------------------------------------------------------------
(* Deliveries and passes: nobody takes a running record over, and nobody    *)
(* steps over a task.                                                       *)
Unattended == Modes \subseteq {"route", "run_all"}

(* What is needed of types: which task a pass is at does not matter here.   *)
Fields == {"task", "mode", "position", "reclaim", "seen", "todo"}
Shaped ==
  /\ DOMAIN pc = Processes /\ DOMAIN work = Processes
  /\ \A p \in Processes : DOMAIN work[p] = Fields
  /\ record \in [Tasks -> Statuses \cup {"none"}]
  /\ completed \in [Tasks -> Nat]

Running == {"select", "handle", "failing", "succeeding"}

(* What a process between two statements knows of the records.              *)
Knows(p) ==
  /\ pc[p] # "flip" /\ ~work[p].reclaim
  /\ pc[p] \in {"check", "claim"} => work[p].seen \notin {"running", "succeeded"}
  /\ work[p].task \in Tasks =>
       LET t == work[p].task
       IN /\ pc[p] \in Running => record[t] = "running"
          /\ pc[p] \in Running \cup {"claim"} =>
               \A d \in DependsOn[t] \ NotDue : record[d] = "succeeded"
          /\ pc[p] \in Running /\ completed[t] > 0 => pc[p] = "succeeding"

Consistent(t) ==
  /\ record[t] = "not_due" => t \in NotDue
  /\ completed[t] <= 1
  /\ completed[t] > 0 => record[t] \in {"running", "succeeded"}

RunInv ==
  /\ Shaped
  /\ \A p \in Processes : Knows(p)
  /\ \A t \in Tasks : Consistent(t)
  /\ ExclusiveRun

(* Only the process that moves changes its place and its local variables.   *)
Moved(p) ==
  /\ DOMAIN pc' = Processes /\ DOMAIN work' = Processes
  /\ \A q \in Processes : DOMAIN work'[q] = Fields
  /\ \A q \in Processes \ {p} : pc'[q] = pc[q] /\ work'[q] = work[q]

LEMMA GotoMoves ==
  ASSUME Shaped, NEW p \in Processes, NEW step, NEW w, DOMAIN w = Fields, Goto(p, step, w)
  PROVE  Moved(p) /\ pc'[p] = step /\ work'[p] = w
BY DEF Shaped, Goto, Moved

(* The end of a run leaves nothing behind in the process.                   *)
LEMMA EndTaskMoves ==
  ASSUME Shaped, NEW p \in Processes, EndTask(p)
  PROVE  Moved(p) /\ pc'[p] \in {"idle", "consider"} /\ ~work'[p].reclaim
<1> DEFINE w == [Blank EXCEPT !.mode = "run_all", !.position = work[p].position + 1,
                              !.task = topologicalOrder[work[p].position + 1]]
<1>1. DOMAIN w = Fields /\ ~w.reclaim /\ DOMAIN Blank = Fields /\ ~Blank.reclaim
  BY DEF Blank, Fields
<1>2. Goto(p, "consider", w) \/ Goto(p, "idle", Blank)
  BY DEF EndTask
<1>3. CASE Goto(p, "consider", w)
  <2> HIDE DEF w
  <2> QED
    BY <1>1, <1>3, GotoMoves
<1>4. CASE Goto(p, "idle", Blank)
  BY <1>1, <1>4, GotoMoves
<1> QED
  BY <1>2, <1>3, <1>4
(* A step that changes no record and starts no run keeps the invariant if   *)
(* the process that moves knows what its new place needs.                   *)
LEMMA LocalKeeps ==
  ASSUME RunInv, NEW p \in Processes, Moved(p), UNCHANGED <<record, completed>>, Knows(p)',
         pc'[p] \in Running => pc[p] \in Running /\ work'[p].task = work[p].task
  PROVE  RunInv'
<1>1. Shaped'
  BY DEF RunInv, Shaped, Moved
<1>2. ASSUME NEW q \in Processes PROVE Knows(q)'
  <2>1. CASE q = p
    BY <2>1
  <2>2. CASE q # p
    BY <2>2 DEF RunInv, Moved, Knows
  <2> QED
    BY <2>1, <2>2
<1>3. \A t \in Tasks : Consistent(t)'
  BY DEF RunInv, Consistent
<1>4. ExclusiveRun'
  BY DEF RunInv, ExclusiveRun, Runs, Moved, Running
<1> QED
  BY <1>1, <1>2, <1>3, <1>4 DEF RunInv

(* A process that ends its task knows nothing any more. *)
LEMMA EndTaskKeeps ==
  ASSUME RunInv, NEW p \in Processes, EndTask(p), UNCHANGED <<record, completed>>
  PROVE  RunInv'
<1>1. Moved(p) /\ pc'[p] \in {"idle", "consider"} /\ ~work'[p].reclaim
  BY EndTaskMoves DEF RunInv
<1>2. Knows(p)'
  BY <1>1 DEF Knows, Running
<1> QED
  BY <1>1, <1>2, LocalKeeps DEF Running

(* A process that moves on within the task it is at. *)
LEMMA GotoKeeps ==
  ASSUME RunInv, NEW p \in Processes, NEW step, NEW w, DOMAIN w = Fields, Goto(p, step, w),
         UNCHANGED <<record, completed>>,
         step # "flip" /\ ~w.reclaim,
         step \in {"check", "claim"} => w.seen \notin {"running", "succeeded"},
         step \in Running =>
           pc[p] \in Running \ {"succeeding"} /\ w.task = work[p].task,
         step = "claim" /\ w.task \in Tasks =>
           \A d \in DependsOn[w.task] \ NotDue : record[d] = "succeeded"
  PROVE  RunInv'
<1>1. Moved(p) /\ pc'[p] = step /\ work'[p] = w
  BY GotoMoves DEF RunInv
<1>2. Knows(p)
  BY DEF RunInv
<1>3. Knows(p)'
  BY <1>1, <1>2 DEF Knows, RunInv, Shaped, Running
<1> QED
  BY <1>1, <1>3, LocalKeeps

(* Starting: by a delivery, or by a pass. *)
LEMMA StartKeeps ==
  ASSUME RunInv, Unattended, NEW p \in Processes,
         (\E t \in Tasks, mode \in Modes : Invoke(p, t, mode)) \/ StartPass(p)
  PROVE  RunInv'
<1>1. DOMAIN Blank = Fields /\ ~Blank.reclaim
  BY DEF Blank, Fields
<1>2. ASSUME NEW t \in Tasks, NEW mode \in Modes, Invoke(p, t, mode)
      PROVE  RunInv'
  <2> DEFINE w == [Blank EXCEPT !.task = t, !.mode = mode, !.reclaim = (mode = "run")]
  <2>1. DOMAIN w = Fields /\ ~w.reclaim
    BY <1>1, <1>2 DEF Unattended, Blank, Fields
  <2>2. Goto(p, "read", w) /\ UNCHANGED <<record, completed>>
    BY <1>2 DEF Invoke, shared
  <2> HIDE DEF w
  <2> QED
    BY <2>1, <2>2, GotoKeeps DEF Running
<1>3. ASSUME StartPass(p)
      PROVE  RunInv'
  <2> DEFINE w == [Blank EXCEPT !.mode = "run_all", !.position = 1, !.task = topologicalOrder[1]]
  <2>1. DOMAIN w = Fields /\ ~w.reclaim
    BY <1>1 DEF Blank, Fields
  <2>2. Goto(p, "consider", w) /\ UNCHANGED <<record, completed>>
    BY <1>3 DEF StartPass, shared
  <2> HIDE DEF w
  <2> QED
    BY <2>1, <2>2, GotoKeeps DEF Running
<1> QED
  BY <1>2, <1>3

(* Reading the record: a task that runs or is done is left alone. *)
LEMMA ReadKeeps ==
  ASSUME RunInv, NEW p \in Processes, ReadRecord(p)
  PROVE  RunInv'
<1> DEFINE w == [work[p] EXCEPT !.seen = record[work[p].task]]
<1>1. UNCHANGED <<record, completed>>
  BY DEF ReadRecord, shared
<1>2. CASE EndTask(p)
  BY <1>1, <1>2, EndTaskKeeps
<1>3. CASE ~EndTask(p)
  <2>1. DOMAIN w = Fields /\ w.reclaim = work[p].reclaim /\ w.seen = record[work[p].task]
    BY DEF RunInv, Shaped, Fields
  <2>2. ~work[p].reclaim
    BY DEF RunInv, Knows
  <2>3. Goto(p, "check", w) /\ w.seen \notin {"running", "succeeded"}
    BY <1>3, <2>1, <2>2 DEF ReadRecord
  <2> HIDE DEF w
  <2> QED
    BY <1>1, <2>1, <2>2, <2>3, GotoKeeps DEF Running
<1> QED
  BY <1>2, <1>3

(* Checking the predecessors: those that are due were found succeeded. *)
LEMMA CheckKeeps ==
  ASSUME RunInv, NEW p \in Processes, CheckPredecessors(p)
  PROVE  RunInv'
<1>1. UNCHANGED <<record, completed>>
  BY DEF CheckPredecessors, shared
<1>2. CASE EndTask(p)
  BY <1>1, <1>2, EndTaskKeeps
<1>3. CASE ~EndTask(p)
  <2>1. Unblocked(work[p].task) /\ Goto(p, "claim", work[p]) /\ pc[p] = "check"
    BY <1>3 DEF CheckPredecessors
  <2>2. DOMAIN work[p] = Fields /\ ~work[p].reclaim
        /\ work[p].seen \notin {"running", "succeeded"}
    BY <2>1 DEF RunInv, Shaped, Knows
  <2>3. work[p].task \in Tasks =>
          \A d \in DependsOn[work[p].task] \ NotDue : record[d] = "succeeded"
    BY <2>1, TasksAssumption DEF Unblocked, Usable, RunInv, Consistent
  <2> QED
    BY <1>1, <2>1, <2>2, <2>3, GotoKeeps DEF Running
<1> QED
  BY <1>2, <1>3

(* The work of a run, until it ends, and the end of a process. *)
LEMMA WorkKeeps ==
  ASSUME RunInv, NEW p \in Processes,
         SelectRows(p) \/ HandleRow(p) \/ HandlerThrows(p) \/ Crash(p)
  PROVE  RunInv'
<1>1. DOMAIN work[p] = Fields /\ ~work[p].reclaim
  BY DEF RunInv, Shaped, Knows
<1>2. ASSUME NEW rows, NEW step \in {"handle", "failing"},
             Goto(p, step, [work[p] EXCEPT !.todo = rows]),
             pc[p] \in {"select", "handle"}, UNCHANGED <<record, completed>>
      PROVE  RunInv'
  <2> DEFINE w == [work[p] EXCEPT !.todo = rows]
  <2>1. DOMAIN w = Fields /\ ~w.reclaim /\ w.task = work[p].task
    BY <1>1 DEF Fields
  <2>2. Goto(p, step, w)
    BY <1>2
  <2> HIDE DEF w
  <2> QED
    BY <1>2, <2>1, <2>2, GotoKeeps DEF Running
<1>3. CASE SelectRows(p)
  BY <1>2, <1>3 DEF SelectRows, shared
<1>4. CASE HandleRow(p)
  <2>1. PICK row \in work[p].todo :
          Goto(p, "handle", [work[p] EXCEPT !.todo = work[p].todo \ {row}])
    BY <1>1, <1>4 DEF HandleRow, Fields
  <2> QED
    BY <1>2, <1>4, <2>1 DEF HandleRow
<1>5. CASE HandlerThrows(p)
  BY <1>2, <1>5 DEF HandlerThrows, shared
<1>6. CASE Crash(p)
  <2>1. DOMAIN Blank = Fields /\ ~Blank.reclaim
    BY DEF Blank, Fields
  <2> QED
    BY <1>6, <2>1, GotoKeeps DEF Crash, Running
<1> QED
  BY <1>3, <1>4, <1>5, <1>6

(* No step takes a success back. *)
SuccessStays == \A t \in Tasks : record[t] = "succeeded" => record'[t] = "succeeded"

(* A step that changes records keeps the invariant if it takes no success   *)
(* back and leaves the tasks of other runs alone.                           *)
LEMMA RecordKeeps ==
  ASSUME RunInv, NEW p \in Processes, Moved(p), Shaped', Knows(p)', SuccessStays,
         \A t \in Tasks : Consistent(t)',
         \A q \in Processes \ {p}, t \in Tasks :
           Runs(q, t) => record'[t] = "running" /\ completed'[t] = completed[t],
         pc'[p] \in Running /\ work'[p].task \in Tasks =>
           \A q \in Processes \ {p} : ~Runs(q, work'[p].task)
  PROVE  RunInv'
<1>1. ASSUME NEW q \in Processes PROVE Knows(q)'
  <2>1. CASE q = p
    BY <2>1
  <2>2. CASE q # p
    <3>1. pc'[q] = pc[q] /\ work'[q] = work[q] /\ Knows(q)
      BY <2>2 DEF RunInv, Moved
    <3>2. ASSUME work[q].task \in Tasks, pc[q] \in Running \cup {"claim"},
                 NEW d \in DependsOn[work[q].task] \ NotDue
          PROVE  record'[d] = "succeeded"
      BY <3>1, <3>2, TasksAssumption DEF Knows, SuccessStays
    <3>3. ASSUME work[q].task \in Tasks, pc[q] \in Running
          PROVE  /\ record'[work[q].task] = "running"
                 /\ completed'[work[q].task] = completed[work[q].task]
      BY <2>2, <3>3 DEF Runs, Running
    <3> QED
      BY <3>1, <3>2, <3>3 DEF Knows
  <2> QED
    BY <2>1, <2>2
<1>2. ExclusiveRun'
  BY DEF RunInv, ExclusiveRun, Runs, Moved, Running
<1> QED
  BY <1>1, <1>2 DEF RunInv

(* A pass records a task that is not due, if it has no record. *)
LEMMA ConsiderKeeps ==
  ASSUME RunInv, NEW p \in Processes, Consider(p)
  PROVE  RunInv' /\ SuccessStays
<1> DEFINE t == work[p].task
<1>1. completed' = completed /\ pc[p] = "consider"
  BY DEF Consider, shared
<1>2. CASE record' = record
  <2>1. DOMAIN work[p] = Fields /\ ~work[p].reclaim
    BY DEF RunInv, Shaped, Knows
  <2>2. EndTask(p) \/ Goto(p, "read", work[p])
    BY DEF Consider
  <2> QED
    BY <1>1, <1>2, <2>1, <2>2, EndTaskKeeps, GotoKeeps DEF Running, SuccessStays
<1>3. CASE record' # record
  <2>1. /\ t \in NotDue /\ record[t] = "none"
        /\ record' = [record EXCEPT ![t] = "not_due"] /\ EndTask(p)
    BY <1>3 DEF Consider
  <2>2. t \in Tasks
    BY <2>1, TasksAssumption
  <2>3. Moved(p) /\ pc'[p] \in {"idle", "consider"} /\ ~work'[p].reclaim
    BY <2>1, EndTaskMoves DEF RunInv
  <2>4. SuccessStays
    BY <2>1 DEF SuccessStays, RunInv, Shaped
  <2>5. Shaped'
    BY <1>1, <2>1, <2>3 DEF RunInv, Shaped, Moved, Statuses
  <2>6. Knows(p)'
    BY <2>3 DEF Knows, Running
  <2>7. \A x \in Tasks : Consistent(x)'
    BY <1>1, <2>1, <2>2 DEF RunInv, Shaped, Consistent
  <2>8. \A q \in Processes \ {p}, x \in Tasks :
          Runs(q, x) => record'[x] = "running" /\ completed'[x] = completed[x]
    BY <1>1, <2>1, <2>2 DEF RunInv, Shaped, Knows, Runs, Running
  <2> QED
    BY <2>3, <2>4, <2>5, <2>6, <2>7, <2>8, RecordKeeps DEF Running
<1> QED
  BY <1>2, <1>3

(* The claim: what it overwrites is neither running nor succeeded. *)
LEMMA ClaimKeeps ==
  ASSUME RunInv, NEW p \in Processes, Claim(p)
  PROVE  RunInv' /\ SuccessStays
<1> DEFINE t == work[p].task
<1>1. completed' = completed /\ pc[p] = "claim"
  BY DEF Claim
<1>2. CASE ~Claimable(t, work[p].seen)
  BY <1>1, <1>2, EndTaskKeeps DEF Claim, SuccessStays
<1>3. CASE Claimable(t, work[p].seen)
  <2>1. record' = [record EXCEPT ![t] = "running"] /\ Goto(p, "select", work[p])
    BY <1>3 DEF Claim
  <2>2. record[t] \notin {"running", "succeeded"} /\ ~work[p].reclaim
    BY <1>1, <1>3 DEF Claimable, RunInv, Knows
  <2>3. Moved(p) /\ pc'[p] = "select" /\ work'[p] = work[p]
    BY <2>1, GotoMoves DEF RunInv, Shaped
  <2>4. SuccessStays
    BY <2>1, <2>2 DEF SuccessStays, RunInv, Shaped
  <2>5. Shaped'
    BY <1>1, <2>1, <2>3 DEF RunInv, Shaped, Moved, Statuses
  <2>6. t \in Tasks => completed[t] = 0
    BY <2>2 DEF RunInv, Consistent, Shaped
  <2>7. Knows(p)'
    <3>1. ASSUME t \in Tasks
          PROVE  \A d \in DependsOn[t] \ NotDue : record'[d] = "succeeded"
      BY <1>1, <2>4, <3>1, TasksAssumption DEF RunInv, Knows, SuccessStays
    <3>2. t \in Tasks => record'[t] = "running"
      BY <2>1 DEF RunInv, Shaped
    <3> QED
      BY <1>1, <2>2, <2>3, <2>6, <3>1, <3>2 DEF Knows, Running
  <2>8. \A x \in Tasks : Consistent(x)'
    BY <1>1, <2>1, <2>2, <2>6 DEF RunInv, Shaped, Consistent
  <2>9. \A q \in Processes \ {p}, x \in Tasks :
          Runs(q, x) => record'[x] = "running" /\ completed'[x] = completed[x]
    BY <1>1, <2>1 DEF RunInv, Shaped, Knows, Runs, Running
  <2>10. t \in Tasks => \A q \in Processes \ {p} : ~Runs(q, t)
    BY <2>2 DEF RunInv, Knows, Runs, Running
  <2> QED
    BY <2>3, <2>4, <2>5, <2>7, <2>8, <2>9, <2>10, RecordKeeps
<1> QED
  BY <1>2, <1>3

(* The handler returns: it had not returned for this task before. *)
LEMMA ReturnKeeps ==
  ASSUME RunInv, NEW p \in Processes, HandlerReturns(p)
  PROVE  RunInv' /\ SuccessStays
<1> DEFINE t == work[p].task
<1>1. /\ record' = record /\ pc[p] = "handle" /\ Goto(p, "succeeding", work[p])
      /\ completed' = [completed EXCEPT ![t] = Bump(@)]
  BY DEF HandlerReturns
<1>2. Moved(p) /\ pc'[p] = "succeeding" /\ work'[p] = work[p] /\ Knows(p)
  BY <1>1, GotoMoves DEF RunInv, Shaped
<1>3. t \in Tasks => record[t] = "running" /\ completed[t] = 0
  BY <1>1, <1>2 DEF Knows, Running, RunInv, Shaped
<1>4. completed' \in [Tasks -> Nat] /\ \A x \in Tasks \ {t} : completed'[x] = completed[x]
  <2>1. CASE t \in Tasks
    BY <1>1, <1>3, <2>1 DEF Bump, RunInv, Shaped
  <2>2. CASE t \notin Tasks
    BY <1>1, <2>2 DEF RunInv, Shaped
  <2> QED
    BY <2>1, <2>2
<1>5. t \in Tasks => completed'[t] = 1
  BY <1>1, <1>3 DEF Bump, RunInv, Shaped
<1>6. Shaped' /\ SuccessStays
  BY <1>1, <1>2, <1>4 DEF RunInv, Shaped, Moved, SuccessStays
<1>7. Knows(p)'
  BY <1>1, <1>2 DEF Knows, Running
<1>8. \A x \in Tasks : Consistent(x)'
  BY <1>1, <1>3, <1>4, <1>5 DEF RunInv, Consistent
<1>9. t \in Tasks => \A q \in Processes \ {p} : ~Runs(q, t)
  BY <1>1 DEF RunInv, ExclusiveRun, Runs
<1>10. \A q \in Processes \ {p}, x \in Tasks :
         Runs(q, x) => record'[x] = "running" /\ completed'[x] = completed[x]
  BY <1>1, <1>4, <1>9 DEF RunInv, Knows, Runs, Running
<1> QED
  BY <1>2, <1>6, <1>7, <1>8, <1>9, <1>10, RecordKeeps

(* The outcome is written over a running record, that of the run itself. *)
LEMMA OutcomeKeeps ==
  ASSUME RunInv, NEW p \in Processes, RecordOutcome(p)
  PROVE  RunInv' /\ SuccessStays
<1> DEFINE t == work[p].task
<1>1. /\ completed' = completed /\ pc[p] \in {"failing", "succeeding"} /\ EndTask(p)
      /\ record' = [record EXCEPT ![t] = Outcome(pc[p])]
  BY DEF RecordOutcome, shared
<1>2. Moved(p) /\ pc'[p] \in {"idle", "consider"} /\ ~work'[p].reclaim /\ Knows(p)
  BY <1>1, EndTaskMoves DEF RunInv
<1>3. t \in Tasks => record[t] = "running"
  BY <1>1, <1>2 DEF Knows, Running
<1>4. t \in Tasks /\ completed[t] > 0 => Outcome(pc[p]) = "succeeded"
  BY <1>1, <1>2 DEF Knows, Running, Outcome
<1>5. SuccessStays
  BY <1>1, <1>3 DEF SuccessStays, RunInv, Shaped
<1>6. Shaped'
  BY <1>1, <1>2 DEF RunInv, Shaped, Moved, Statuses, Outcome
<1>7. Knows(p)'
  BY <1>2 DEF Knows, Running
<1>8. \A x \in Tasks : Consistent(x)'
  BY <1>1, <1>4 DEF RunInv, Shaped, Consistent, Outcome
<1>9. \A q \in Processes \ {p} : t \in Tasks => ~Runs(q, t)
  BY <1>1 DEF RunInv, ExclusiveRun, Runs
<1>10. \A q \in Processes \ {p}, x \in Tasks :
         Runs(q, x) => record'[x] = "running" /\ completed'[x] = completed[x]
  BY <1>1, <1>9 DEF RunInv, Shaped, Knows, Runs, Running
<1> QED
  BY <1>2, <1>5, <1>6, <1>7, <1>8, <1>10, RecordKeeps DEF Running

(* Every step keeps the invariant and takes no success back. *)
LEMMA NextKeepsRuns ==
  ASSUME RunInv, Unattended, [Next]_vars
  PROVE  RunInv' /\ SuccessStays
<1>1. CASE UNCHANGED vars
  <2>1. record' = record /\ completed' = completed /\ pc' = pc /\ work' = work
    BY <1>1 DEF vars
  <2> QED
    BY <2>1 DEF RunInv, Shaped, Knows, Consistent, ExclusiveRun, Runs, SuccessStays
<1>2. ASSUME NEW p \in Processes, NEW t \in Tasks,
             \/ \E mode \in Modes : Invoke(p, t, mode)
             \/ RerunCheck(p, t) \/ ResolveCheck(p, t) \/ SkipCheck(p, t)
      PROVE  RunInv' /\ SuccessStays
  <2>1. \E mode \in Modes : Invoke(p, t, mode)
    BY <1>2 DEF Unattended, RerunCheck, ResolveCheck, SkipCheck
  <2> QED
    BY <2>1, StartKeeps DEF Invoke, SuccessStays
<1>3. ASSUME NEW p \in Processes, Advance(p)
      PROVE  RunInv' /\ SuccessStays
  <2>1. ~Flip(p)
    BY DEF RunInv, Knows, Flip
  <2>2. CASE ReadRecord(p) \/ CheckPredecessors(p)
    BY <2>2, ReadKeeps, CheckKeeps DEF ReadRecord, CheckPredecessors, SuccessStays
  <2>3. CASE SelectRows(p) \/ HandleRow(p) \/ HandlerThrows(p)
    BY <2>3, WorkKeeps DEF SelectRows, HandleRow, HandlerThrows, SuccessStays
  <2> QED
    BY <1>3, <2>1, <2>2, <2>3, ConsiderKeeps, ClaimKeeps, ReturnKeeps, OutcomeKeeps DEF Advance
<1>4. ASSUME NEW p \in Processes, StartPass(p) \/ Crash(p)
      PROVE  RunInv' /\ SuccessStays
  BY <1>4, StartKeeps, WorkKeeps DEF StartPass, Crash, SuccessStays
<1>5. ASSUME NEW t \in Tasks, Age(t)
      PROVE  RunInv' /\ SuccessStays
  BY <1>5 DEF Age, Unattended
<1> QED
  BY <1>1, <1>2, <1>3, <1>4, <1>5 DEF Next

LEMMA InitRuns ==
  ASSUME Init
  PROVE  RunInv
<1>1. DOMAIN Blank = Fields /\ ~Blank.reclaim
  BY DEF Blank, Fields
<1>2. Shaped
  BY <1>1 DEF Init, Shaped, Statuses
<1>3. \A p \in Processes : Knows(p)
  BY <1>1 DEF Init, Knows, Running
<1>4. \A t \in Tasks : Consistent(t)
  BY DEF Init, Consistent
<1>5. ExclusiveRun
  BY DEF Init, ExclusiveRun, Runs
<1> QED
  BY <1>2, <1>3, <1>4, <1>5 DEF RunInv

(* Without takeovers a task has one run at a time, however many deliveries  *)
(* and passes compete for it and wherever processes crash.                  *)
THEOREM RunsExclude ==
  ASSUME Unattended
  PROVE  Spec => []ExclusiveRun
<1>1. Init => RunInv
  BY InitRuns
<1>2. RunInv /\ [Next]_vars => RunInv'
  BY NextKeepsRuns
<1>3. RunInv => ExclusiveRun
  BY DEF RunInv
<1> QED
  BY <1>1, <1>2, <1>3, PTL DEF Spec

(* Without takeovers a handler returns at most once per business date: a    *)
(* crash between its return and the record of it leaves the record running. *)
THEOREM HandlersReturnOnce ==
  ASSUME Unattended
  PROVE  Spec => []CompletesOnce
<1>1. Init => RunInv
  BY InitRuns
<1>2. RunInv /\ [Next]_vars => RunInv'
  BY NextKeepsRuns
<1>3. RunInv => CompletesOnce
  BY DEF RunInv, Consistent, CompletesOnce
<1> QED
  BY <1>1, <1>2, <1>3, PTL DEF Spec

(* Without takeovers a task runs only while the tasks it waits for, those   *)
(* that are due, stay succeeded.                                            *)
THEOREM OrderKept ==
  ASSUME Unattended
  PROVE  Spec => []RunsInOrder
<1>1. Init => RunInv
  BY InitRuns
<1>2. RunInv /\ [Next]_vars => RunInv'
  BY NextKeepsRuns
<1>3. RunInv => RunsInOrder
  BY DEF RunInv, Knows, Running, Runs, RunsInOrder
<1> QED
  BY <1>1, <1>2, <1>3, PTL DEF Spec

(* Without takeovers no step rewrites a succeeded record.                   *)
THEOREM SuccessIsFinal ==
  ASSUME Unattended
  PROVE  Spec => SucceededIsFinal
<1>1. Init => RunInv
  BY InitRuns
<1>2. RunInv /\ [Next]_vars => RunInv'
  BY NextKeepsRuns
<1>3. RunInv /\ [Next]_vars =>
        [\A t \in Tasks : record[t] = "succeeded" => record'[t] = "succeeded"]_vars
  BY NextKeepsRuns DEF SuccessStays
<1> QED
  BY <1>1, <1>2, <1>3, PTL DEF Spec, SucceededIsFinal

-----------------------------------------------------------------------------
(* What a success means, takeovers included.                                *)

(* A run that is handling rows has the ones that match in its list, and     *)
(* none is left once its handler returned.                                  *)
Leaves(p) ==
  /\ pc[p] # "flip"
  /\ work[p].task \in Tasks =>
       /\ pc[p] = "handle" => eligible[work[p].task] \subseteq work[p].todo
       /\ pc[p] = "succeeding" => eligible[work[p].task] = {}

LeftInv ==
  /\ Shaped
  /\ eligible \in [Tasks -> SUBSET Rows]
  /\ \A p \in Processes : Leaves(p)
  /\ SuccessLeavesNothing

(* Filters only lose rows, so what other runs know of them stays true.      *)
LEMMA LeftKeeps ==
  ASSUME LeftInv, NEW p \in Processes, Moved(p), Leaves(p)',
         record' \in [Tasks -> Statuses \cup {"none"}], completed' \in [Tasks -> Nat],
         eligible' \in [Tasks -> SUBSET Rows],
         \A t \in Tasks : eligible'[t] \subseteq eligible[t],
         \A t \in Tasks : record'[t] = "succeeded" => record[t] = "succeeded" \/ eligible[t] = {}
  PROVE  LeftInv'
<1>1. Shaped'
  BY DEF Shaped, Moved
<1>2. ASSUME NEW q \in Processes PROVE Leaves(q)'
  <2>1. CASE q = p
    BY <2>1
  <2>2. CASE q # p
    <3>1. pc'[q] = pc[q] /\ work'[q] = work[q] /\ Leaves(q)
      BY <2>2 DEF Moved, LeftInv
    <3> QED
      BY <3>1 DEF Leaves
  <2> QED
    BY <2>1, <2>2
<1>3. SuccessLeavesNothing'
  BY DEF LeftInv, SuccessLeavesNothing
<1> QED
  BY <1>1, <1>2, <1>3 DEF LeftInv

(* A step to a place where nothing is known of the rows. *)
LEMMA LeftElsewhere ==
  ASSUME LeftInv, NEW p \in Processes, Moved(p), UNCHANGED eligible,
         pc'[p] \notin {"flip", "handle", "succeeding"},
         record' \in [Tasks -> Statuses \cup {"none"}], completed' = completed,
         \A t \in Tasks : record'[t] = "succeeded" => record[t] = "succeeded" \/ eligible[t] = {}
  PROVE  LeftInv'
<1>1. Leaves(p)'
  BY DEF Leaves
<1>2. completed' \in [Tasks -> Nat] /\ eligible' \in [Tasks -> SUBSET Rows]
  BY DEF LeftInv, Shaped
<1> QED
  BY <1>1, <1>2, LeftKeeps

(* A step that begins or goes on without touching a record or a row. *)
LEMMA LeftLocal ==
  ASSUME LeftInv, NEW p \in Processes, NEW step, step \notin {"flip", "handle", "succeeding"},
         NEW w, DOMAIN w = Fields, Goto(p, step, w) \/ EndTask(p),
         UNCHANGED <<record, completed, eligible>>
  PROVE  LeftInv'
<1>1. Moved(p) /\ pc'[p] \notin {"flip", "handle", "succeeding"}
  <2>1. CASE Goto(p, step, w)
    BY <2>1, GotoMoves DEF LeftInv
  <2>2. CASE EndTask(p)
    BY <2>2, EndTaskMoves DEF LeftInv
  <2> QED
    BY <2>1, <2>2
<1>2. record' \in [Tasks -> Statuses \cup {"none"}]
  BY DEF LeftInv, Shaped
<1> QED
  BY <1>1, <1>2, LeftElsewhere

(* The steps before a run, and those that end a process. *)
LEMMA LeftBeforeRun ==
  ASSUME LeftInv, NEW p \in Processes,
         \/ \E t \in Tasks, mode \in Modes : Invoke(p, t, mode)
         \/ \E t \in Tasks : RerunCheck(p, t)
         \/ StartPass(p) \/ ReadRecord(p) \/ CheckPredecessors(p)
         \/ HandlerThrows(p) \/ Crash(p)
  PROVE  LeftInv'
<1>1. UNCHANGED <<record, completed, eligible>>
  BY DEF Invoke, RerunCheck, StartPass, ReadRecord, CheckPredecessors, HandlerThrows, Crash, shared
<1>2. DOMAIN Blank = Fields /\ DOMAIN work[p] = Fields
  BY DEF LeftInv, Shaped, Blank, Fields
<1>3. ASSUME NEW step \in {"read", "consider", "check", "claim", "failing", "idle"}, NEW w,
             DOMAIN w = Fields, Goto(p, step, w) \/ EndTask(p)
      PROVE  LeftInv'
  BY <1>1, <1>3, LeftLocal
<1>4. ASSUME NEW t \in Tasks, NEW mode \in Modes, Invoke(p, t, mode)
      PROVE  LeftInv'
  <2>1. PICK w : w = [Blank EXCEPT !.task = t, !.mode = mode, !.reclaim = (mode = "run")]
    OBVIOUS
  <2>2. DOMAIN w = Fields /\ Goto(p, "read", w)
    BY <1>2, <1>4, <2>1 DEF Invoke
  <2> QED
    BY <1>3, <2>2
<1>5. ASSUME NEW t \in Tasks, RerunCheck(p, t)
      PROVE  LeftInv'
  <2>1. PICK w : w = [Blank EXCEPT !.task = t, !.mode = "rerun", !.reclaim = isStuck(t)]
    OBVIOUS
  <2>2. DOMAIN w = Fields /\ Goto(p, "read", w)
    BY <1>2, <1>5, <2>1 DEF RerunCheck
  <2> QED
    BY <1>3, <2>2
<1>6. CASE StartPass(p)
  <2>1. PICK w : w = [Blank EXCEPT !.mode = "run_all", !.position = 1, !.task = topologicalOrder[1]]
    OBVIOUS
  <2>2. DOMAIN w = Fields /\ Goto(p, "consider", w)
    BY <1>2, <1>6, <2>1 DEF StartPass
  <2> QED
    BY <1>3, <2>2
<1>7. CASE ReadRecord(p)
  <2>1. PICK w : w = [work[p] EXCEPT !.seen = record[work[p].task]]
    OBVIOUS
  <2>2. DOMAIN w = Fields /\ (Goto(p, "check", w) \/ EndTask(p))
    BY <1>2, <1>7, <2>1 DEF ReadRecord
  <2> QED
    BY <1>3, <2>2
<1>8. CASE CheckPredecessors(p)
  BY <1>2, <1>3, <1>8 DEF CheckPredecessors
<1>9. CASE HandlerThrows(p)
  <2>1. PICK w : w = [work[p] EXCEPT !.todo = {}]
    OBVIOUS
  <2>2. DOMAIN w = Fields /\ Goto(p, "failing", w)
    BY <1>2, <1>9, <2>1 DEF HandlerThrows
  <2> QED
    BY <1>3, <2>2
<1>10. CASE Crash(p)
  BY <1>2, <1>3, <1>10 DEF Crash
<1> QED
  BY <1>4, <1>5, <1>6, <1>7, <1>8, <1>9, <1>10

(* The steps that change a record. *)
LEMMA LeftRecorded ==
  ASSUME LeftInv, NEW p \in Processes, Consider(p) \/ Claim(p) \/ RecordOutcome(p)
  PROVE  LeftInv'
<1> DEFINE t == work[p].task
<1>1. completed' = completed /\ eligible' = eligible
  BY DEF Consider, Claim, RecordOutcome, shared
<1>2. DOMAIN work[p] = Fields /\ Leaves(p) /\ Shaped
  BY DEF LeftInv, Shaped
<1>3. Moved(p) /\ pc'[p] \notin {"flip", "handle", "succeeding"}
  <2>1. EndTask(p) \/ Goto(p, "read", work[p]) \/ Goto(p, "select", work[p])
    BY DEF Consider, Claim, RecordOutcome
  <2> QED
    BY <1>2, <2>1, EndTaskMoves, GotoMoves
<1>4. CASE Consider(p)
  <2>1. record' = record \/ record' = [record EXCEPT ![t] = "not_due"]
    BY <1>4 DEF Consider
  <2> QED
    BY <1>1, <1>2, <1>3, <2>1, LeftElsewhere DEF Shaped, Statuses
<1>5. CASE Claim(p)
  <2>1. record' = record \/ record' = [record EXCEPT ![t] = "running"]
    BY <1>5 DEF Claim
  <2> QED
    BY <1>1, <1>2, <1>3, <2>1, LeftElsewhere DEF Shaped, Statuses
<1>6. CASE RecordOutcome(p)
  <2>1. /\ record' = [record EXCEPT ![t] = Outcome(pc[p])]
        /\ pc[p] \in {"failing", "succeeding"}
    BY <1>6 DEF RecordOutcome
  <2>2. t \in Tasks /\ Outcome(pc[p]) = "succeeded" => eligible[t] = {}
    BY <1>2, <2>1 DEF Leaves, Outcome
  <2>3. record' \in [Tasks -> Statuses \cup {"none"}]
    BY <1>2, <2>1 DEF Shaped, Statuses, Outcome
  <2>4. \A x \in Tasks : record'[x] = "succeeded" => record[x] = "succeeded" \/ eligible[x] = {}
    BY <1>2, <2>1, <2>2 DEF Shaped
  <2> QED
    BY <1>1, <1>3, <2>3, <2>4, LeftElsewhere
<1> QED
  BY <1>4, <1>5, <1>6

(* The scan takes every row that matches, and a row leaves the list only    *)
(* when it does not match any more.                                         *)
LEMMA LeftHandled ==
  ASSUME LeftInv, NEW p \in Processes, SelectRows(p) \/ HandleRow(p)
  PROVE  LeftInv'
<1> DEFINE t == work[p].task
<1>1. record' = record /\ completed' = completed
  BY DEF SelectRows, HandleRow, shared
<1>2. DOMAIN work[p] = Fields /\ Leaves(p) /\ Shaped /\ eligible \in [Tasks -> SUBSET Rows]
  BY DEF LeftInv, Shaped
<1>3. ASSUME NEW rows, Goto(p, "handle", [work[p] EXCEPT !.todo = rows]),
             eligible' \in [Tasks -> SUBSET Rows],
             \A x \in Tasks : eligible'[x] \subseteq eligible[x],
             t \in Tasks => eligible'[t] \subseteq rows
      PROVE  LeftInv'
  <2> DEFINE w == [work[p] EXCEPT !.todo = rows]
  <2>1. DOMAIN w = Fields /\ w.task = t /\ w.todo = rows
    BY <1>2 DEF Fields
  <2>2. Goto(p, "handle", w)
    BY <1>3
  <2> HIDE DEF w
  <2>3. Moved(p) /\ pc'[p] = "handle" /\ work'[p] = w
    BY <1>2, <2>1, <2>2, GotoMoves
  <2>4. Leaves(p)'
    BY <1>3, <2>1, <2>3 DEF Leaves
  <2>5. record' \in [Tasks -> Statuses \cup {"none"}] /\ completed' \in [Tasks -> Nat]
    BY <1>1, <1>2 DEF Shaped
  <2>6. \A x \in Tasks : record'[x] = "succeeded" => record[x] = "succeeded" \/ eligible[x] = {}
    BY <1>1
  <2> QED
    BY <1>3, <2>3, <2>4, <2>5, <2>6, LeftKeeps
<1>4. CASE SelectRows(p)
  BY <1>2, <1>3, <1>4 DEF SelectRows, shared
<1>5. CASE HandleRow(p)
  <2>1. PICK row \in work[p].todo :
          /\ Goto(p, "handle", [work[p] EXCEPT !.todo = work[p].todo \ {row}])
          /\ IF StillEligible(t, row)
             THEN eligible' = [eligible EXCEPT ![t] = @ \ {row}]
             ELSE eligible' = eligible
    BY <1>2, <1>5 DEF HandleRow, Fields
  <2>2. /\ eligible' \in [Tasks -> SUBSET Rows]
        /\ \A x \in Tasks : eligible'[x] \subseteq eligible[x]
    BY <1>2, <2>1
  <2>3. t \in Tasks => eligible'[t] \subseteq work[p].todo \ {row}
    BY <1>2, <1>5, <2>1 DEF HandleRow, Leaves, StillEligible
  <2> QED
    BY <1>3, <2>1, <2>2, <2>3
<1> QED
  BY <1>4, <1>5

(* The handler returns when its list is empty: no row matches any more. *)
LEMMA LeftReturned ==
  ASSUME LeftInv, NEW p \in Processes, HandlerReturns(p)
  PROVE  LeftInv'
<1> DEFINE t == work[p].task
<1>1. /\ record' = record /\ eligible' = eligible /\ Goto(p, "succeeding", work[p])
      /\ pc[p] = "handle" /\ work[p].todo = {} /\ completed' = [completed EXCEPT ![t] = Bump(@)]
  BY DEF HandlerReturns
<1>2. DOMAIN work[p] = Fields /\ Leaves(p) /\ Shaped /\ eligible \in [Tasks -> SUBSET Rows]
  BY DEF LeftInv, Shaped
<1>3. Moved(p) /\ pc'[p] = "succeeding" /\ work'[p] = work[p]
  BY <1>1, <1>2, GotoMoves
<1>4. Leaves(p)'
  BY <1>1, <1>2, <1>3 DEF Leaves
<1>5. completed' \in [Tasks -> Nat]
  <2>1. t \in Tasks => Bump(completed[t]) \in Nat
    BY <1>2 DEF Bump, Shaped
  <2> QED
    BY <1>1, <1>2, <2>1 DEF Shaped
<1>6. record' \in [Tasks -> Statuses \cup {"none"}]
  BY <1>1, <1>2 DEF Shaped
<1> QED
  BY <1>1, <1>2, <1>3, <1>4, <1>5, <1>6, LeftKeeps

LEMMA InitLeft == Init => LeftInv
<1> SUFFICES ASSUME Init PROVE LeftInv
  OBVIOUS
<1>1. Shaped
  BY InitRuns DEF RunInv
<1> QED
  BY <1>1, TasksAssumption DEF Init, LeftInv, Leaves, SuccessLeavesNothing

LEMMA NextKeepsLeft ==
  ASSUME LeftInv, {"resolve", "skip"} \cap Modes = {}, [Next]_vars
  PROVE  LeftInv'
<1>1. CASE UNCHANGED vars
  <2>1. /\ record' = record /\ completed' = completed /\ eligible' = eligible
        /\ pc' = pc /\ work' = work
    BY <1>1 DEF vars
  <2> QED
    BY <2>1 DEF LeftInv, Shaped, Leaves, SuccessLeavesNothing
<1>2. ASSUME NEW p \in Processes, NEW t \in Tasks,
             \/ \E mode \in Modes : Invoke(p, t, mode)
             \/ RerunCheck(p, t) \/ ResolveCheck(p, t) \/ SkipCheck(p, t)
      PROVE  LeftInv'
  BY <1>2, LeftBeforeRun DEF ResolveCheck, SkipCheck
<1>3. ASSUME NEW p \in Processes, StartPass(p) \/ Advance(p) \/ Crash(p)
      PROVE  LeftInv'
  <2>1. ~Flip(p)
    BY DEF LeftInv, Leaves, Flip
  <2> QED
    BY <1>3, <2>1, LeftBeforeRun, LeftRecorded, LeftHandled, LeftReturned DEF Advance
<1>4. ASSUME NEW t \in Tasks, Age(t)
      PROVE  LeftInv'
  <2>1. UNCHANGED <<record, completed, eligible, pc, work>>
    BY <1>4 DEF Age
  <2> QED
    BY <2>1 DEF LeftInv, Shaped, Leaves, SuccessLeavesNothing
<1> QED
  BY <1>1, <1>2, <1>3, <1>4 DEF Next

(* As long as no operator steps over the task, a succeeded record means     *)
(* that no row was left over: not by runs that failed half way, not by runs *)
(* that were taken over, not by a run that finished after another.          *)
THEOREM SuccessIsComplete ==
  ASSUME {"resolve", "skip"} \cap Modes = {}
  PROVE  Spec => []SuccessLeavesNothing
<1>1. LeftInv /\ [Next]_vars => LeftInv'
  BY NextKeepsLeft
<1>2. LeftInv => SuccessLeavesNothing
  BY DEF LeftInv
<1> QED
  BY <1>1, <1>2, InitLeft, PTL DEF Spec

-----------------------------------------------------------------------------
(* Induction over the natural numbers, on a set instead of a predicate.     *)
Smaller == {ss \in Nat \X Nat : ss[1] < ss[2]}

LEMMA Least ==
  ASSUME NEW T \in SUBSET Nat, T # {}
  PROVE  \E n \in T : \A m \in T : n <= m
<1>1. IsWellFoundedOn(Smaller, Nat)
  BY NatLessThanWellFounded DEF OpToRel, Smaller
<1>2. PICK n \in T : \A m \in T : <<m, n>> \notin Smaller
  BY <1>1, WFMin
<1>3. ASSUME NEW m \in T
      PROVE  n <= m
  <2>1. <<m, n>> \in Nat \X Nat /\ ~(m < n)
    BY <1>2 DEF Smaller
  <2> QED
    BY <2>1
<1> QED
  BY <1>3

LEMMA Induct ==
  ASSUME NEW T, 0 \in T, \A n \in Nat : n \in T => n + 1 \in T
  PROVE  Nat \subseteq T
<1> SUFFICES ASSUME Nat \ T # {} PROVE FALSE
  OBVIOUS
<1>1. PICK n \in Nat \ T : \A m \in Nat \ T : n <= m
  BY Least
<1>2. n - 1 \in Nat /\ n - 1 \in T
  BY <1>1
<1> QED
  BY <1>1, <1>2

-----------------------------------------------------------------------------
(* The order of a pass. *)

Before(s, i) == {s[j] : j \in 1..(i - 1)}

(* n tasks, each after all those it depends on, none twice.                 *)
IsOrder(s, n) ==
  /\ s \in Seq(Tasks) /\ Len(s) = n
  /\ \A i \in 1..n : s[i] \notin Before(s, i) /\ DependsOn[s[i]] \subseteq Before(s, i)

LEMMA DeclaredFacts ==
  /\ IsFiniteSet(Tasks) /\ Declared \in Seq(Tasks) /\ Len(Declared) \in Nat
  /\ Len(Declared) = Cardinality(Tasks) /\ DOMAIN Declared = 1..Len(Declared)
  /\ \A t \in Tasks : \E i \in DOMAIN Declared : Declared[i] = t
  /\ DependsOn \in [Tasks -> SUBSET Tasks]
BY TasksAssumption

(* As long as a task is left, one of those left waits for none of them.     *)
LEMMA NextIsReady ==
  ASSUME NEW done \in SUBSET Tasks, done # Tasks
  PROVE  LET t == NextInOrder(done)
         IN  t \in Tasks /\ t \notin done /\ DependsOn[t] \subseteq done
<1> DEFINE ready == {i \in DOMAIN Declared :
                       Declared[i] \notin done /\ DependsOn[Declared[i]] \subseteq done}
           first == CHOOSE i \in ready : \A j \in ready : i <= j
<1>1. ready \in SUBSET Nat
  BY DeclaredFacts
<1>2. ready # {}
  <2>1. PICK t \in Tasks \ done : DependsOn[t] \cap (Tasks \ done) = {}
    <3>1. Tasks \ done \in (SUBSET Tasks) \ {{}}
      OBVIOUS
    <3> QED
      BY <3>1, AcyclicAssumption
  <2>2. DependsOn[t] \subseteq done
    BY <2>1, DeclaredFacts
  <2>3. PICK i \in DOMAIN Declared : Declared[i] = t
    BY DeclaredFacts
  <2> QED
    BY <2>1, <2>2, <2>3
<1> HIDE DEF ready
<1>3. \E i \in ready : \A j \in ready : i <= j
  BY <1>1, <1>2, Least
<1>4. first \in ready
  BY <1>3
<1>5. NextInOrder(done) = Declared[first]
  BY DEF NextInOrder, ready
<1> HIDE DEF first
<1> QED
  BY <1>4, <1>5, DeclaredFacts DEF ready

(* Fewer tasks than there are leave one out.                                *)
LEMMA SomeLeft ==
  ASSUME NEW n \in Nat, n < Len(Declared), NEW s \in Seq(Tasks), Len(s) = n
  PROVE  Before(s, n + 1) \in SUBSET Tasks /\ Before(s, n + 1) # Tasks
<1> DEFINE B == Before(s, n + 1)
           f == [i \in 1..n |-> s[i]]
<1>1. B = {s[i] : i \in 1..n} /\ \A i \in 1..n : s[i] \in Tasks
  BY DEF Before
<1>2. f \in Surjection(1..n, B)
  BY <1>1 DEF Surjection
<1>3. IsFiniteSet(1..n) /\ Cardinality(1..n) = n
  BY FS_Interval
<1> HIDE DEF f, B
<1>4. Cardinality(B) <= n /\ IsFiniteSet(B)
  BY <1>2, <1>3, FS_Surjection
<1>5. B # Tasks
  <2> SUFFICES ASSUME B = Tasks PROVE FALSE
    OBVIOUS
  <2>1. Cardinality(B) = Len(Declared)
    BY DeclaredFacts
  <2> QED
    BY <1>4, <2>1, DeclaredFacts
<1> QED
  BY <1>1, <1>5 DEF B

LEMMA OneMore ==
  ASSUME NEW n \in Nat, n < Len(Declared), NEW s, IsOrder(s, n)
  PROVE  IsOrder(Append(s, NextInOrder(Before(s, n + 1))), n + 1)
<1> DEFINE done == Before(s, n + 1)
           t == NextInOrder(done)
           e == Append(s, t)
<1>1. s \in Seq(Tasks) /\ Len(s) = n
  BY DEF IsOrder
<1>2. done \in SUBSET Tasks /\ done # Tasks
  BY <1>1, SomeLeft
<1>3. t \in Tasks /\ t \notin done /\ DependsOn[t] \subseteq done
  <2> HIDE DEF done
  <2> QED
    BY <1>2, NextIsReady
<1> HIDE DEF t, done
<1>4. e \in Seq(Tasks) /\ Len(e) = n + 1 /\ e[n + 1] = t /\ \A i \in 1..n : e[i] = s[i]
  BY <1>1, <1>3
<1> HIDE DEF e
<1>5. \A i \in 1..(n + 1) : Before(e, i) = Before(s, i)
  BY <1>4 DEF Before
<1>6. ASSUME NEW i \in 1..(n + 1)
      PROVE  e[i] \notin Before(e, i) /\ DependsOn[e[i]] \subseteq Before(e, i)
  <2>1. CASE i = n + 1
    BY <1>3, <1>4, <1>5, <2>1 DEF done
  <2>2. CASE i \in 1..n
    BY <1>4, <1>5, <2>2 DEF IsOrder
  <2> QED
    BY <2>1, <2>2
<1>7. IsOrder(e, n + 1)
  BY <1>4, <1>6 DEF IsOrder
<1> QED
  BY <1>7 DEF e, t, done

(* The prefixes that Kahn's algorithm builds.                               *)
IsTaken(g, n) ==
  g[n] = IF n = 0 THEN <<>>
         ELSE Append(g[n - 1], NextInOrder({g[n - 1][i] : i \in 1..(n - 1)}))

LEMMA TakenExists ==
  \E g : g = [n \in 0..Len(Declared) |->
                IF n = 0 THEN <<>>
                ELSE Append(g[n - 1], NextInOrder({g[n - 1][i] : i \in 1..(n - 1)}))]
<1> DEFINE L == Len(Declared)
           T == {k \in Nat : \E g : \A n \in 0..k : IsTaken(g, n)}
<1>1. 0 \in T
  <2> DEFINE g == [n \in 0..0 |-> <<>>]
  <2>1. \A n \in 0..0 : IsTaken(g, n)
    BY DEF IsTaken
  <2> HIDE DEF g
  <2> QED
    BY <2>1
<1>2. ASSUME NEW k \in Nat, k \in T PROVE k + 1 \in T
  <2>1. PICK g : \A n \in 0..k : IsTaken(g, n)
    BY <1>2
  <2> DEFINE last == Append(g[k], NextInOrder({g[k][i] : i \in 1..k}))
             f == [n \in 0..(k + 1) |-> IF n = k + 1 THEN last ELSE g[n]]
  <2>2. ASSUME NEW n \in 0..(k + 1) PROVE IsTaken(f, n)
    <3>1. CASE n = k + 1
      <4>1. f[n] = last /\ f[n - 1] = g[k] /\ n - 1 = k /\ n # 0
        BY <3>1
      <4> HIDE DEF f
      <4> QED
        BY <4>1 DEF IsTaken
    <3>2. CASE n \in 0..k /\ n # 0
      <4>1. f[n] = g[n] /\ f[n - 1] = g[n - 1] /\ IsTaken(g, n)
        BY <2>1, <3>2
      <4> HIDE DEF f
      <4> QED
        BY <3>2, <4>1 DEF IsTaken
    <3>3. CASE n = 0
      <4>1. f[n] = g[n] /\ IsTaken(g, n)
        BY <2>1, <3>3
      <4> HIDE DEF f
      <4> QED
        BY <3>3, <4>1 DEF IsTaken
    <3> QED
      BY <3>1, <3>2, <3>3
  <2> HIDE DEF f
  <2>3. \E h : \A n \in 0..(k + 1) : IsTaken(h, n)
    BY <2>2
  <2> QED
    BY <2>3
<1>3. L \in T
  <2> HIDE DEF T
  <2> QED
    BY <1>1, <1>2, Induct, DeclaredFacts
<1>4. PICK g : \A n \in 0..L : IsTaken(g, n)
  BY <1>3
<1> DEFINE h == [n \in 0..L |-> g[n]]
<1>5. \A n \in 0..L : IsTaken(h, n)
  <2> SUFFICES ASSUME NEW n \in 0..L PROVE IsTaken(h, n)
    OBVIOUS
  <2>1. h[n] = g[n] /\ (n # 0 => h[n - 1] = g[n - 1])
    BY DeclaredFacts
  <2> HIDE DEF h
  <2> QED
    BY <1>4, <2>1 DEF IsTaken
<1>6. DOMAIN h = 0..L /\ h = [n \in 0..L |-> h[n]]
  OBVIOUS
<1> HIDE DEF h
<1>7. h = [n \in 0..L |-> IF n = 0 THEN <<>>
                          ELSE Append(h[n - 1], NextInOrder({h[n - 1][i] : i \in 1..(n - 1)}))]
  BY <1>5, <1>6 DEF IsTaken
<1> QED
  BY <1>7

LEMMA TakenIsTaken == \A n \in 0..Len(Declared) : IsTaken(taken, n)
<1>1. taken = [n \in 0..Len(Declared) |->
                IF n = 0 THEN <<>>
                ELSE Append(taken[n - 1], NextInOrder({taken[n - 1][i] : i \in 1..(n - 1)}))]
  BY TakenExists DEF taken
<1> QED
  BY <1>1 DEF IsTaken

(* The order a pass follows: every task once, and none before a task it     *)
(* depends on (the topological order of task:run-all).                      *)
THEOREM PassFollowsDependencies ==
  /\ topologicalOrder \in Seq(Tasks) /\ Len(topologicalOrder) = Cardinality(Tasks)
  /\ \A t \in Tasks : \E i \in DOMAIN topologicalOrder : topologicalOrder[i] = t
  /\ \A i \in DOMAIN topologicalOrder :
       DependsOn[topologicalOrder[i]] \subseteq {topologicalOrder[j] : j \in 1..(i - 1)}
<1> DEFINE L == Len(Declared)
           T == {n \in Nat : n \in 0..L => IsOrder(taken[n], n)}
<1>1. 0 \in T
  <2>1. taken[0] = <<>>
    <3>1. 0 \in 0..Len(Declared)
      BY DeclaredFacts
    <3>2. IsTaken(taken, 0)
      BY <3>1, TakenIsTaken
    <3> QED
      BY <3>2 DEF IsTaken
  <2>2. IsOrder(<<>>, 0)
    BY DEF IsOrder
  <2> QED
    BY <2>1, <2>2
<1>2. ASSUME NEW n \in Nat, n \in T PROVE n + 1 \in T
  <2> SUFFICES ASSUME n + 1 \in 0..L PROVE IsOrder(taken[n + 1], n + 1)
    OBVIOUS
  <2> DEFINE m == n + 1
  <2>1. m \in 0..L /\ m # 0 /\ m - 1 = n /\ n < L /\ n \in 0..L
    BY DeclaredFacts
  <2>2. IsTaken(taken, m)
    BY <2>1, TakenIsTaken
  <2>3. IsOrder(taken[n], n)
    BY <1>2, <2>1
  <2>4. IsOrder(Append(taken[n], NextInOrder(Before(taken[n], n + 1))), n + 1)
    BY <2>1, <2>3, OneMore
  <2>5. Before(taken[n], n + 1) = {taken[n][i] : i \in 1..n}
    BY DEF Before
  <2> HIDE DEF m
  <2>6. taken[m] = Append(taken[n], NextInOrder({taken[n][i] : i \in 1..n}))
    BY <2>1, <2>2 DEF IsTaken
  <2> QED
    BY <2>4, <2>5, <2>6 DEF m
<1>3. L \in T
  <2> HIDE DEF T
  <2> QED
    BY <1>1, <1>2, Induct, DeclaredFacts
<1> DEFINE s == topologicalOrder
<1>4. IsOrder(s, L) /\ L \in Nat /\ L = Cardinality(Tasks)
  BY <1>3, DeclaredFacts DEF topologicalOrder
<1> HIDE DEF s
<1>5. s \in Seq(Tasks) /\ Len(s) = L /\ DOMAIN s = 1..L
  BY <1>4 DEF IsOrder
<1>6. \A i \in 1..L : s[i] \notin Before(s, i) /\ DependsOn[s[i]] \subseteq Before(s, i)
  BY <1>4 DEF IsOrder
<1>7. s \in Injection(1..L, Tasks)
  <2>1. s \in [1..L -> Tasks]
    BY <1>5
  <2>2. \A i, j \in 1..L : i < j => s[i] # s[j]
    BY <1>4, <1>6 DEF Before
  <2>3. \A i, j \in 1..L : s[i] = s[j] => i = j
    BY <1>4, <2>2
  <2> QED
    BY <2>1, <2>3 DEF Injection, IsInjective
<1>8. s \in Surjection(1..L, Tasks)
  <2>1. IsFiniteSet(1..L) /\ Cardinality(1..L) = L
    BY <1>4, FS_Interval
  <2> QED
    BY <1>4, <1>7, <2>1, FS_Injection, DeclaredFacts
<1>9. \A t \in Tasks : \E i \in DOMAIN s : s[i] = t
  BY <1>5, <1>8 DEF Surjection
<1>10. \A i \in DOMAIN s : DependsOn[s[i]] \subseteq {s[j] : j \in 1..(i - 1)}
  BY <1>5, <1>6 DEF Before
<1> QED
  BY <1>4, <1>5, <1>9, <1>10 DEF s

-----------------------------------------------------------------------------
(* Type correctness. *)

(* A process that is at work has a task.                                    *)
AtTask == \A p \in Processes : pc[p] # "idle" => work[p].task \in Tasks

TypeInv == TypeOK /\ AtTask

LEMMA BlankType == Blank \in Work
BY DeclaredFacts DEF Blank, Work, NoTask

(* What a process goes on with. *)
Ready(step, w) == step \in Steps /\ w \in Work /\ (step # "idle" => w.task \in Tasks)

LEMMA GotoTypes ==
  ASSUME TypeInv, NEW p \in Processes, NEW step, NEW w, Ready(step, w), Goto(p, step, w)
  PROVE  pc' \in [Processes -> Steps] /\ work' \in [Processes -> Work] /\ AtTask'
BY DEF TypeInv, TypeOK, AtTask, Ready, Goto

(* The task at a position of a pass.                                        *)
LEMMA PassWork ==
  ASSUME NEW n \in 1..Len(Declared), "run_all" \in Modes
  PROVE  Ready("consider", [Blank EXCEPT !.mode = "run_all", !.position = n,
                                         !.task = topologicalOrder[n]])
<1>1. topologicalOrder[n] \in Tasks /\ n \in 0..Len(Declared)
  BY PassFollowsDependencies, DeclaredFacts
<1> DEFINE x == topologicalOrder[n]
<1> HIDE DEF x
<1>2. [Blank EXCEPT !.mode = "run_all", !.position = n, !.task = x] \in Work
      /\ [Blank EXCEPT !.mode = "run_all", !.position = n, !.task = x].task = x
  BY <1>1 DEF Blank, Work, x
<1> QED
  BY <1>1, <1>2 DEF Ready, Steps, x

LEMMA EndTaskTypes ==
  ASSUME TypeInv, NEW p \in Processes, EndTask(p)
  PROVE  pc' \in [Processes -> Steps] /\ work' \in [Processes -> Work] /\ AtTask'
<1> DEFINE n == work[p].position + 1
           w == [Blank EXCEPT !.mode = "run_all", !.position = n, !.task = topologicalOrder[n]]
<1>1. work[p].position \in 0..Len(Declared) /\ work[p].mode \in Modes \cup {"none"}
  BY DEF TypeInv, TypeOK, Work
<1>2. \/ work[p].mode = "run_all" /\ work[p].position < Len(Declared) /\ Goto(p, "consider", w)
      \/ Goto(p, "idle", Blank)
  BY DEF EndTask
<1>3. CASE Goto(p, "idle", Blank)
  BY <1>3, BlankType, GotoTypes DEF Ready, Steps
<1>4. CASE work[p].mode = "run_all" /\ work[p].position < Len(Declared) /\ Goto(p, "consider", w)
  <2>1. n \in 1..Len(Declared) /\ "run_all" \in Modes
    BY <1>1, <1>4, DeclaredFacts
  <2> HIDE DEF n
  <2>2. Ready("consider", w)
    BY <2>1, PassWork
  <2> HIDE DEF w
  <2> QED
    BY <1>4, <2>2, GotoTypes
<1> QED
  BY <1>2, <1>3, <1>4

(* The rest of the state. *)
SharedTyped ==
  /\ record \in [Tasks -> Statuses \cup {"none"}]
  /\ stuck \in [Tasks -> BOOLEAN]
  /\ eligible \in [Tasks -> SUBSET Rows]
  /\ handled \in [Tasks -> [Rows -> 0..2]]
  /\ completed \in [Tasks -> 0..2]
  /\ crashes \in 0..MaxCrashes

LEMMA Combine ==
  ASSUME SharedTyped', pc' \in [Processes -> Steps], work' \in [Processes -> Work], AtTask'
  PROVE  TypeInv'
BY DEF SharedTyped, TypeInv, TypeOK

LEMMA GoesOn ==
  ASSUME TypeInv, SharedTyped', NEW p \in Processes, NEW step, NEW w,
         Ready(step, w), Goto(p, step, w)
  PROVE  TypeInv'
BY GotoTypes, Combine

LEMMA SameShared == ASSUME TypeInv, UNCHANGED <<record, shared>> PROVE SharedTyped'
BY DEF TypeInv, TypeOK, SharedTyped, shared

LEMMA StartTypes ==
  ASSUME TypeInv, NEW p \in Processes, NEW t \in Tasks,
         (\E mode \in Modes : Invoke(p, t, mode)) \/ RerunCheck(p, t)
         \/ ResolveCheck(p, t) \/ SkipCheck(p, t)
  PROVE  TypeInv'
<1>1. SharedTyped'
  BY SameShared DEF Invoke, RerunCheck, ResolveCheck, SkipCheck
<1>2. ASSUME NEW mode \in Modes, NEW reclaim \in BOOLEAN
      PROVE  Ready("read", [Blank EXCEPT !.task = t, !.mode = mode, !.reclaim = reclaim])
  BY BlankType DEF Ready, Blank, Work, Steps
<1>3. ASSUME NEW mode \in Modes, NEW seen \in Statuses \cup {"none"}
      PROVE  Ready("flip", [Blank EXCEPT !.task = t, !.mode = mode, !.seen = seen])
  BY BlankType DEF Ready, Blank, Work, Steps
<1>4. record[t] \in Statuses \cup {"none"} /\ isStuck(t) \in BOOLEAN
  BY DEF TypeInv, TypeOK, isStuck
<1>5. ASSUME NEW mode \in Modes, Invoke(p, t, mode) PROVE TypeInv'
  <2>1. Goto(p, "read", [Blank EXCEPT !.task = t, !.mode = mode, !.reclaim = (mode = "run")])
    BY <1>5 DEF Invoke
  <2> DEFINE b == (mode = "run")
  <2>2. b \in BOOLEAN
    OBVIOUS
  <2> HIDE DEF b
  <2>3. Ready("read", [Blank EXCEPT !.task = t, !.mode = mode, !.reclaim = b])
    BY <1>2, <2>2
  <2> QED
    BY <1>1, <2>1, <2>3, GoesOn DEF b
<1>6. CASE RerunCheck(p, t)
  <2>1. "rerun" \in Modes
        /\ Goto(p, "read", [Blank EXCEPT !.task = t, !.mode = "rerun", !.reclaim = isStuck(t)])
    BY <1>6 DEF RerunCheck
  <2>2. Ready("read", [Blank EXCEPT !.task = t, !.mode = "rerun", !.reclaim = isStuck(t)])
    BY <1>2, <1>4, <2>1
  <2> QED
    BY <1>1, <2>1, <2>2, GoesOn
<1>7. CASE ResolveCheck(p, t)
  <2>1. "resolve" \in Modes
        /\ Goto(p, "flip", [Blank EXCEPT !.task = t, !.mode = "resolve", !.seen = record[t]])
    BY <1>7 DEF ResolveCheck
  <2>2. Ready("flip", [Blank EXCEPT !.task = t, !.mode = "resolve", !.seen = record[t]])
    BY <1>3, <1>4, <2>1
  <2> QED
    BY <1>1, <2>1, <2>2, GoesOn
<1>8. CASE SkipCheck(p, t)
  <2>1. "skip" \in Modes
        /\ Goto(p, "flip", [Blank EXCEPT !.task = t, !.mode = "skip", !.seen = record[t]])
    BY <1>8 DEF SkipCheck
  <2>2. Ready("flip", [Blank EXCEPT !.task = t, !.mode = "skip", !.seen = record[t]])
    BY <1>3, <1>4, <2>1
  <2> QED
    BY <1>1, <2>1, <2>2, GoesOn
<1> QED
  BY <1>5, <1>6, <1>7, <1>8

(* A process that goes on with its task, or ends it.                        *)
LEMMA StepTypes ==
  ASSUME TypeInv, SharedTyped', NEW p \in Processes,
         \/ EndTask(p)
         \/ \E step \in Steps, w \in Work :
              work[p].task \in Tasks /\ w.task = work[p].task /\ Goto(p, step, w)
  PROVE  TypeInv'
<1>1. CASE EndTask(p)
  BY <1>1, EndTaskTypes, Combine
<1>2. ASSUME NEW step \in Steps, NEW w \in Work, work[p].task \in Tasks, w.task = work[p].task,
             Goto(p, step, w)
      PROVE  TypeInv'
  BY <1>2, GoesOn DEF Ready
<1> QED
  BY <1>1, <1>2

LEMMA AdvanceTypes ==
  ASSUME TypeInv, NEW p \in Processes, Advance(p)
  PROVE  TypeInv'
<1> DEFINE w == work[p]
           t == work[p].task
<1>1. w \in Work /\ w.todo \in SUBSET Rows
  BY DEF TypeInv, TypeOK, Work
<1>2. pc[p] # "idle" => t \in Tasks
  BY DEF TypeInv, AtTask
<1>3. SharedTyped
  BY DEF TypeInv, TypeOK, SharedTyped
<1>4. ASSUME NEW S \in SUBSET Rows
      PROVE  [work[p] EXCEPT !.todo = S] \in Work /\ [work[p] EXCEPT !.todo = S].task = t
  BY <1>1 DEF Work
<1>5. ASSUME NEW s \in Statuses \cup {"none"}
      PROVE  [work[p] EXCEPT !.seen = s] \in Work /\ [work[p] EXCEPT !.seen = s].task = t
  BY <1>1 DEF Work
<1>6. CASE Consider(p)
  <2>1. SharedTyped'
    BY <1>3, <1>6 DEF Consider, SharedTyped, shared, Statuses
  <2>2. EndTask(p) \/ Goto(p, "read", w)
    BY <1>6 DEF Consider
  <2>3. t \in Tasks
    BY <1>2, <1>6 DEF Consider
  <2> QED
    BY <1>1, <2>1, <2>2, <2>3, StepTypes DEF Steps
<1>7. CASE Flip(p)
  <2>1. SharedTyped'
    BY <1>3, <1>7 DEF Flip, SharedTyped, shared, Statuses
  <2> QED
    BY <1>7, <2>1, StepTypes DEF Flip
<1>8. CASE ReadRecord(p)
  <2>1. SharedTyped' /\ t \in Tasks /\ record[t] \in Statuses \cup {"none"}
    BY <1>2, <1>3, <1>8, SameShared DEF ReadRecord, SharedTyped
  <2>2. EndTask(p) \/ Goto(p, "check", [work[p] EXCEPT !.seen = record[t]])
    BY <1>8 DEF ReadRecord
  <2> QED
    BY <1>5, <2>1, <2>2, StepTypes DEF Steps
<1>9. CASE CheckPredecessors(p)
  <2>1. SharedTyped' /\ t \in Tasks
    BY <1>2, <1>9, SameShared DEF CheckPredecessors
  <2>2. EndTask(p) \/ Goto(p, "claim", w)
    BY <1>9 DEF CheckPredecessors
  <2> QED
    BY <1>1, <2>1, <2>2, StepTypes DEF Steps
<1>10. CASE Claim(p)
  <2>1. SharedTyped' /\ t \in Tasks
    BY <1>2, <1>3, <1>10 DEF Claim, SharedTyped, Statuses
  <2>2. EndTask(p) \/ Goto(p, "select", w)
    BY <1>10 DEF Claim
  <2> QED
    BY <1>1, <2>1, <2>2, StepTypes DEF Steps
<1>11. CASE SelectRows(p)
  <2>1. SharedTyped' /\ t \in Tasks /\ eligible[t] \in SUBSET Rows
    BY <1>2, <1>3, <1>11, SameShared DEF SelectRows, SharedTyped
  <2>2. Goto(p, "handle", [work[p] EXCEPT !.todo = eligible[t]])
    BY <1>11 DEF SelectRows
  <2> QED
    BY <1>4, <2>1, <2>2, StepTypes DEF Steps
<1>12. CASE HandleRow(p)
  <2>1. PICK row \in work[p].todo :
          /\ Goto(p, "handle", [work[p] EXCEPT !.todo = @ \ {row}])
          /\ IF StillEligible(t, row)
             THEN /\ eligible' = [eligible EXCEPT ![t] = @ \ {row}]
                  /\ handled' = [handled EXCEPT ![t][row] = Bump(@)]
             ELSE UNCHANGED <<eligible, handled>>
    BY <1>12 DEF HandleRow
  <2>2. row \in Rows /\ t \in Tasks
    BY <1>1, <1>2, <1>12 DEF HandleRow
  <2> DEFINE k == handled[t][row]
  <2> DEFINE n == Bump(k)
  <2>3. n \in 0..2
    <3>1. handled[t] \in [Rows -> 0..2]
      BY <1>3, <2>2 DEF SharedTyped
    <3>2. k \in 0..2
      BY <2>2, <3>1
    <3> HIDE DEF k
    <3> QED
      BY <3>2 DEF Bump
  <2>4. SharedTyped'
    <3>1. eligible' \in [Tasks -> SUBSET Rows]
      BY <1>3, <2>1, <2>2 DEF SharedTyped
    <3>2. handled' \in [Tasks -> [Rows -> 0..2]]
      <4>1. handled \in [Tasks -> [Rows -> 0..2]]
        BY <1>3 DEF SharedTyped
      <4>2. \/ handled' = [handled EXCEPT ![t] = [handled[t] EXCEPT ![row] = n]]
            \/ handled' = handled
        BY <2>1
      <4> HIDE DEF n
      <4>3. [handled[t] EXCEPT ![row] = n] \in [Rows -> 0..2]
        BY <2>2, <2>3, <4>1
      <4> QED
        BY <2>2, <4>1, <4>2, <4>3
    <3> QED
      BY <1>3, <1>12, <3>1, <3>2 DEF HandleRow, SharedTyped
  <2>5. Goto(p, "handle", [work[p] EXCEPT !.todo = work[p].todo \ {row}])
    BY <2>1
  <2> DEFINE S == work[p].todo \ {row}
  <2>6. S \in SUBSET Rows
    BY <1>1
  <2> HIDE DEF S
  <2> QED
    BY <1>4, <2>2, <2>4, <2>5, <2>6, StepTypes DEF Steps, S
<1>13. CASE HandlerThrows(p)
  <2>1. SharedTyped' /\ t \in Tasks
    BY <1>2, <1>13, SameShared DEF HandlerThrows
  <2>2. Goto(p, "failing", [work[p] EXCEPT !.todo = {}])
    BY <1>13 DEF HandlerThrows
  <2> QED
    BY <1>4, <2>1, <2>2, StepTypes DEF Steps
<1>14. CASE HandlerReturns(p)
  <2>1. t \in Tasks /\ Bump(completed[t]) \in 0..2
    BY <1>2, <1>3, <1>14 DEF HandlerReturns, Bump, SharedTyped
  <2>2. SharedTyped'
    BY <1>3, <1>14, <2>1 DEF HandlerReturns, SharedTyped
  <2>3. Goto(p, "succeeding", w)
    BY <1>14 DEF HandlerReturns
  <2> QED
    BY <1>1, <2>1, <2>2, <2>3, StepTypes DEF Steps
<1>15. CASE RecordOutcome(p)
  <2>1. SharedTyped'
    BY <1>3, <1>15 DEF RecordOutcome, SharedTyped, shared, Outcome, Statuses
  <2> QED
    BY <1>15, <2>1, StepTypes DEF RecordOutcome
<1> QED
  BY <1>6, <1>7, <1>8, <1>9, <1>10, <1>11, <1>12, <1>13, <1>14, <1>15 DEF Advance

LEMMA InitTypes == Init => TypeInv
<1> SUFFICES ASSUME Init PROVE TypeInv
  OBVIOUS
<1>1. TypeOK
  BY TasksAssumption, BlankType DEF Init, TypeOK, Steps
<1> QED
  BY <1>1 DEF Init, TypeInv, AtTask

LEMMA NextKeepsTypes ==
  ASSUME TypeInv, [Next]_vars
  PROVE  TypeInv'
<1>1. CASE UNCHANGED vars
  BY <1>1 DEF vars, TypeInv, TypeOK, AtTask
<1>2. ASSUME NEW p \in Processes, NEW t \in Tasks,
             \/ \E mode \in Modes : Invoke(p, t, mode)
             \/ RerunCheck(p, t) \/ ResolveCheck(p, t) \/ SkipCheck(p, t)
      PROVE  TypeInv'
  BY <1>2, StartTypes
<1>3. ASSUME NEW p \in Processes, StartPass(p) PROVE TypeInv'
  <2> DEFINE w == [Blank EXCEPT !.mode = "run_all", !.position = 1, !.task = topologicalOrder[1]]
  <2>1. "run_all" \in Modes /\ Declared # <<>> /\ Goto(p, "consider", w)
    BY <1>3 DEF StartPass
  <2>2. 1 \in 1..Len(Declared)
    BY <2>1, DeclaredFacts
  <2>3. Ready("consider", w)
    BY <2>1, <2>2, PassWork
  <2>4. SharedTyped'
    BY <1>3, SameShared DEF StartPass
  <2> HIDE DEF w
  <2> QED
    BY <2>1, <2>3, <2>4, GoesOn
<1>4. ASSUME NEW p \in Processes, Advance(p) PROVE TypeInv'
  BY <1>4, AdvanceTypes
<1>5. ASSUME NEW p \in Processes, Crash(p) PROVE TypeInv'
  <2>1. SharedTyped'
    BY <1>5, TasksAssumption DEF Crash, TypeInv, TypeOK, SharedTyped
  <2> QED
    BY <1>5, <2>1, BlankType, GoesOn DEF Crash, Ready, Steps
<1>6. ASSUME NEW t \in Tasks, Age(t) PROVE TypeInv'
  BY <1>6 DEF Age, TypeInv, TypeOK, AtTask
<1> QED
  BY <1>1, <1>2, <1>3, <1>4, <1>5, <1>6 DEF Next

(* Records, counters and processes keep their types: a pass is always at a  *)
(* task of the schema, whatever the dependencies are, because one of the    *)
(* tasks left can always be taken next.                                     *)
THEOREM TasksTyped == Spec => []TypeOK
<1>1. TypeInv /\ [Next]_vars => TypeInv'
  BY NextKeepsTypes
<1>2. TypeInv => TypeOK
  BY DEF TypeInv
<1> QED
  BY <1>1, <1>2, InitTypes, PTL DEF Spec

-----------------------------------------------------------------------------
(* The night, told by the records. *)

PhaseOf(status) ==
  CASE status \in {"none", "not_due"} -> "waiting"
    [] status = "succeeded" -> "done"
    [] OTHER -> status

LEMMA PhaseFacts ==
  /\ DOMAIN Phase = Tasks
  /\ \A t \in Tasks : Phase[t] = PhaseOf(record[t])
  /\ PhaseOf("none") = "waiting" /\ PhaseOf("not_due") = "waiting"
  /\ PhaseOf("running") = "running" /\ PhaseOf("failed") = "failed"
  /\ PhaseOf("succeeded") = "done"
BY DEF Phase, PhaseOf

(* One record changes: the phase of its task does, and no other.            *)
LEMMA PhaseFollows ==
  ASSUME record \in [Tasks -> Statuses \cup {"none"}], NEW t \in Tasks, NEW status,
         record' = [record EXCEPT ![t] = status]
  PROVE  Phase' = [Phase EXCEPT ![t] = PhaseOf(status)]
<1>1. Phase' = [x \in Tasks |-> PhaseOf(record'[x])]
  BY DEF Phase, PhaseOf
<1>2. Phase = [x \in Tasks |-> PhaseOf(record[x])]
  BY DEF Phase, PhaseOf
<1>3. \A x \in Tasks : record'[x] = IF x = t THEN status ELSE record[x]
  OBVIOUS
<1> QED
  BY <1>1, <1>2, <1>3

NightInv == TypeInv /\ RunInv /\ LeftInv

(* A pass that steps over a task leaves it waiting.                         *)
LEMMA ConsiderInNight ==
  ASSUME NightInv, NEW p \in Processes, Consider(p)
  PROVE  UNCHANGED <<Phase, eligible>>
<1> DEFINE t == work[p].task
<1>1. t \in Tasks /\ eligible' = eligible
  BY DEF Consider, NightInv, TypeInv, AtTask, shared
<1>2. CASE record' = record
  BY <1>1, <1>2 DEF Phase
<1>3. CASE record' # record
  <2>1. record[t] = "none" /\ record' = [record EXCEPT ![t] = "not_due"]
    BY <1>3 DEF Consider
  <2>2. Phase' = [Phase EXCEPT ![t] = PhaseOf("not_due")]
    BY <1>1, <2>1, PhaseFollows DEF NightInv, TypeInv, TypeOK
  <2>3. Phase[t] = PhaseOf("not_due")
    BY <1>1, <2>1, PhaseFacts
  <2>4. Phase' = Phase
    BY <2>2, <2>3 DEF Phase
  <2> QED
    BY <1>1, <2>4
<1> QED
  BY <1>2, <1>3

(* A claim begins a task that waits or failed, after what it waits for.     *)
LEMMA ClaimInNight ==
  ASSUME NightInv, NEW p \in Processes, Claim(p)
  PROVE  [Night!Next]_<<Phase, eligible>>
<1> DEFINE t == work[p].task
<1>1. t \in Tasks /\ eligible' = eligible /\ pc[p] = "claim" /\ Knows(p)
  BY DEF Claim, NightInv, TypeInv, AtTask, RunInv
<1>2. CASE ~Claimable(t, work[p].seen)
  BY <1>1, <1>2 DEF Claim, Phase
<1>3. CASE Claimable(t, work[p].seen)
  <2>1. record' = [record EXCEPT ![t] = "running"] /\ record[t] \notin {"running", "succeeded"}
    BY <1>1, <1>3 DEF Claim, Claimable, Knows
  <2>2. record[t] \in {"none", "not_due", "failed"}
    BY <1>1, <2>1 DEF NightInv, TypeInv, TypeOK, Statuses
  <2>3. Phase[t] \in {"waiting", "failed"}
    BY <1>1, <2>2, PhaseFacts
  <2>4. Phase' = [Phase EXCEPT ![t] = "running"]
    <3>1. Phase' = [Phase EXCEPT ![t] = PhaseOf("running")]
      BY <1>1, <2>1, PhaseFollows DEF NightInv, TypeInv, TypeOK
    <3> QED
      BY <3>1, PhaseFacts
  <2>5. \A d \in DependsOn[t] \ NotDue : Phase[d] = "done"
    BY <1>1, PhaseFacts, DeclaredFacts DEF Knows, Running
  <2>6. Night!Begin(t)
    BY <1>1, <2>3, <2>4, <2>5 DEF Night!Begin, Night!Becomes
  <2> QED
    BY <1>1, <2>6 DEF Night!Next
<1> QED
  BY <1>2, <1>3

(* A row is handled by the task that runs, if it is still there.            *)
LEMMA HandleInNight ==
  ASSUME NightInv, NEW p \in Processes, HandleRow(p)
  PROVE  [Night!Next]_<<Phase, eligible>>
<1> DEFINE t == work[p].task
<1>1. t \in Tasks /\ record' = record /\ pc[p] = "handle" /\ Knows(p)
  BY DEF HandleRow, NightInv, TypeInv, AtTask, RunInv
<1>2. Phase' = Phase /\ Phase[t] = "running"
  <2>1. record[t] = "running"
    BY <1>1 DEF Knows, Running
  <2> QED
    BY <1>1, <2>1, PhaseFacts DEF Phase
<1>3. PICK row \in work[p].todo :
        IF StillEligible(t, row) THEN eligible' = [eligible EXCEPT ![t] = @ \ {row}]
        ELSE eligible' = eligible
  BY DEF HandleRow
<1>4. CASE ~StillEligible(t, row)
  BY <1>2, <1>3, <1>4
<1>5. CASE StillEligible(t, row)
  <2>1. row \in eligible[t] /\ eligible' = [eligible EXCEPT ![t] = @ \ {row}]
    BY <1>3, <1>5 DEF StillEligible
  <2>2. Night!Handle(t)
    BY <1>2, <2>1 DEF Night!Handle
  <2> QED
    BY <1>1, <2>2 DEF Night!Next
<1> QED
  BY <1>4, <1>5

(* The outcome ends the run: as a failure, or done with no row left.        *)
LEMMA OutcomeInNight ==
  ASSUME NightInv, NEW p \in Processes, RecordOutcome(p)
  PROVE  Night!Next
<1> DEFINE t == work[p].task
<1>1. /\ t \in Tasks /\ eligible' = eligible /\ pc[p] \in {"failing", "succeeding"}
      /\ Knows(p) /\ Leaves(p) /\ record' = [record EXCEPT ![t] = Outcome(pc[p])]
  BY DEF RecordOutcome, NightInv, TypeInv, AtTask, RunInv, LeftInv, shared
<1>2. Phase[t] = "running" /\ Phase' = [Phase EXCEPT ![t] = PhaseOf(Outcome(pc[p]))]
  <2>1. record[t] = "running"
    BY <1>1 DEF Knows, Running
  <2> QED
    BY <1>1, <2>1, PhaseFacts, PhaseFollows DEF NightInv, TypeInv, TypeOK
<1>3. CASE pc[p] = "failing"
  <2>1. Night!Fail(t)
    BY <1>1, <1>2, <1>3, PhaseFacts DEF Night!Fail, Night!Becomes, Outcome
  <2> QED
    BY <1>1, <2>1 DEF Night!Next
<1>4. CASE pc[p] = "succeeding"
  <2>1. eligible[t] = {}
    BY <1>1, <1>4 DEF Leaves
  <2>2. Night!Finish(t)
    BY <1>1, <1>2, <1>4, <2>1, PhaseFacts DEF Night!Finish, Night!Becomes, Outcome
  <2> QED
    BY <1>1, <2>2 DEF Night!Next
<1> QED
  BY <1>1, <1>3, <1>4

LEMMA NextInNight ==
  ASSUME Unattended, NightInv, [Next]_vars
  PROVE  [Night!Next]_<<Phase, eligible>>
<1>1. CASE UNCHANGED <<record, eligible>>
  BY <1>1 DEF Phase
<1>2. ASSUME NEW p \in Processes, Advance(p)
      PROVE  [Night!Next]_<<Phase, eligible>>
  <2>1. ~Flip(p)
    BY DEF NightInv, RunInv, Knows, Flip
  <2>2. CASE ReadRecord(p) \/ CheckPredecessors(p) \/ SelectRows(p)
             \/ HandlerThrows(p) \/ HandlerReturns(p)
    BY <1>1, <2>2 DEF ReadRecord, CheckPredecessors, SelectRows, HandlerThrows, HandlerReturns, shared
  <2> QED
    BY <1>2, <2>1, <2>2, ConsiderInNight, ClaimInNight, HandleInNight, OutcomeInNight DEF Advance
<1>3. ASSUME NEW p \in Processes, NEW t \in Tasks,
             \/ \E mode \in Modes : Invoke(p, t, mode)
             \/ RerunCheck(p, t) \/ ResolveCheck(p, t) \/ SkipCheck(p, t)
      PROVE  UNCHANGED <<record, eligible>>
  BY <1>3 DEF Invoke, RerunCheck, ResolveCheck, SkipCheck, shared
<1>4. ASSUME NEW p \in Processes, StartPass(p) \/ Crash(p)
      PROVE  UNCHANGED <<record, eligible>>
  BY <1>4 DEF StartPass, Crash, shared
<1>5. ASSUME NEW t \in Tasks, Age(t)
      PROVE  UNCHANGED <<record, eligible>>
  BY <1>5 DEF Age
<1>6. UNCHANGED vars => UNCHANGED <<record, eligible>>
  BY DEF vars
<1> QED
  BY <1>1, <1>2, <1>3, <1>4, <1>5, <1>6 DEF Next

(* However many deliveries and passes compete and wherever processes crash, *)
(* every statement of the guard and of the row scan is one step of the      *)
(* night that TaskNight promises, or none.                                  *)
THEOREM ImplementsNight ==
  ASSUME Unattended
  PROVE  Spec => RefinesNight
<1>1. Init => NightInv
  BY InitTypes, InitRuns, InitLeft DEF NightInv
<1>2. NightInv /\ [Next]_vars => NightInv'
  <2>1. {"resolve", "skip"} \cap Modes = {}
    BY DEF Unattended
  <2> QED
    BY <2>1, NextKeepsTypes, NextKeepsRuns, NextKeepsLeft DEF NightInv
<1>3. Init => Night!Init
  BY PhaseFacts DEF Init, Night!Init, Phase
<1>4. NightInv /\ [Next]_vars => [Night!Next]_<<Phase, eligible>>
  BY NextInNight
<1> QED
  BY <1>1, <1>2, <1>3, <1>4, PTL DEF Spec, RefinesNight, Night!Spec
================================================================================
