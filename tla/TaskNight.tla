------------------------------- MODULE TaskNight --------------------------------
(***************************************************************************)
(* What the scheduled tasks promise for one business date, without         *)
(* processes, deliveries, passes or claims.  A task begins when all that   *)
(* it waits for is done and works through its rows; it may fail and begin  *)
(* again with the rows that are left; it is done when none is left, and    *)
(* then it stays done.                                                     *)
(***************************************************************************)
CONSTANTS
  Tasks,
  Awaits,   \* [Tasks -> SUBSET Tasks]: what has to be done before the task begins
  RowsOf    \* [Tasks -> SUBSET Rows]: what there is to do

VARIABLES
  phase,    \* phase[t]: waiting, running, failed or done
  left      \* left[t]: the rows that t has not handled yet

Init ==
  /\ phase = [t \in Tasks |-> "waiting"]
  /\ left = RowsOf

Becomes(t, new) == phase' = [phase EXCEPT ![t] = new] /\ UNCHANGED left

Begin(t) ==
  /\ phase[t] \in {"waiting", "failed"}
  /\ \A d \in Awaits[t] : phase[d] = "done"
  /\ Becomes(t, "running")

Handle(t) ==
  /\ phase[t] = "running"
  /\ \E row \in left[t] : left' = [left EXCEPT ![t] = @ \ {row}]
  /\ UNCHANGED phase

Fail(t) == phase[t] = "running" /\ Becomes(t, "failed")
Finish(t) == phase[t] = "running" /\ left[t] = {} /\ Becomes(t, "done")

Next == \E t \in Tasks : Begin(t) \/ Handle(t) \/ Fail(t) \/ Finish(t)

Spec == Init /\ [][Next]_<<phase, left>>
================================================================================
