---------------------------- MODULE MCScheduledTasks ----------------------------
(***************************************************************************)
(* Small instances of ScheduledTasks for TLC.                              *)
(***************************************************************************)
EXTENDS TaskRefinement, TLC

CONSTANTS a, b, c, r1, r2, p1, p2

(* Declared before the task it waits for. *)
Backwards == <<b, a, c>>
Pair == <<b, a>>

(* b waits for a. *)
AThenB == [t \in Tasks |-> IF t = b THEN {a} ELSE {}]

(* Only a scans rows. *)
ScanOfA == [t \in Tasks |-> IF t = a THEN Rows ELSE {}]

ProcessSymmetry == Permutations(Processes)
RowSymmetry == Permutations(Rows)
Symmetry == ProcessSymmetry \cup RowSymmetry
================================================================================
