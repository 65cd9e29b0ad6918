----------------------------- MODULE MCApprovalLocks ----------------------------
(* Small instances of ApprovalLocks for TLC. *)
EXTENDS ApprovalLocks, TLC

CONSTANTS f1, f2, s1, s2, s3

(* Two flows that may be decided in any order. *)
Parallel == [f \in Flows |-> {}]

(* Sessions are interchangeable. *)
SessionSymmetry == Permutations(Sessions)
================================================================================
