----------------------------- MODULE MCApprovalFlow -----------------------------
(***************************************************************************)
(* Small instances of ApprovalFlow for TLC.                                *)
(***************************************************************************)
EXTENDS ApprovalRefinement, TLC

CONSTANTS f1, f2, f3, u1, u2, s1, s2

(* f1 precedes f2. *)
Chain == [f \in {f1, f2} |-> IF f = f2 THEN {f1} ELSE {}]
(* Two flows that may be decided in any order. *)
Parallel == [f \in {f1, f2} |-> {}]
(* f3 waits for both of the others. *)
Join == [f \in {f1, f2, f3} |-> IF f = f3 THEN {f1, f2} ELSE {}]

(* Every submitter holds the requestor role of every flow. *)
AllFlows == [u \in Users |-> Flows]

(* Sessions are interchangeable. *)
SessionSymmetry == Permutations(Sessions)
================================================================================
