---------------------------- MODULE MCRecordVersions ----------------------------
(* The record versions on small instances. *)
EXTENDS RecordVersions, TLC

(* Identities, versions and sessions are interchangeable. *)
Interchangeable ==
  Permutations(Identities) \cup Permutations(Versions) \cup Permutations(Sessions)
================================================================================
