----------------------------- MODULE TaskRefinement -----------------------------
(***************************************************************************)
(* ScheduledTasks implements TaskNight as long as tasks are started by     *)
(* deliveries and passes only.  The phase of a task is read off its        *)
(* completion record alone: a record that says not_due stands for a task   *)
(* that has not begun, since a delivery may still run it.                  *)
(***************************************************************************)
EXTENDS ScheduledTasks

Phase ==
  [t \in Tasks |->
     CASE record[t] \in {"none", "not_due"} -> "waiting"
       [] record[t] = "succeeded" -> "done"
       [] OTHER -> record[t]]

Night == INSTANCE TaskNight
  WITH phase <- Phase, left <- eligible, Awaits <- [t \in Tasks |-> DependsOn[t] \ NotDue]

(* However many deliveries and passes compete for the tasks, and wherever   *)
(* processes crash, the records tell of a night in which every task began   *)
(* after what it waits for and was done, once, with no row left: every      *)
(* statement of the guard and of the row scan is one step of TaskNight or   *)
(* none.                                                                    *)
RefinesNight == Night!Spec
================================================================================
