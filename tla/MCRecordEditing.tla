----------------------------- MODULE MCRecordEditing -----------------------------
(* Editing records with children, on small instances. *)
EXTENDS RecordEditing, TLC

(* The declarations in use: a tree is a list with a nullable parent link,   *)
(* approval lines have a required one.                                     *)
Declared ==
  {d \in Declarations :
     /\ d.many => d.optional /\ d.list /\ ~d.self
     /\ d.self => d.optional /\ d.list
     /\ d.approved => ~d.optional /\ ~d.list /\ ~d.many}

(* Approval lines that have pages of their own: every save of the form of  *)
(* their parent deletes them (README, known limits).                       *)
IndependentLines == {d \in Declared : d.approved /\ d.pages}

(* All others. *)
Usual == Declared \ IndependentLines

(* Records of one entity and sessions are interchangeable. *)
Interchangeable ==
  Permutations(Masters) \cup Permutations(Lines) \cup Permutations(Sessions)
================================================================================
