--------------------------- MODULE ApprovalRefinement ---------------------------
(***************************************************************************)
(* ApprovalFlow implements ReviewCycle as long as requests do not overlap  *)
(* and approvers act through the page.  The record is in the phase its     *)
(* status field says, except that a split parent stays split whatever an   *)
(* edit writes into that field.                                            *)
(***************************************************************************)
EXTENDS ApprovalFlow

Phase ==
  IF SplitParent THEN "split"
  ELSE IF entity = "submitted" THEN "review" ELSE entity

Cycle == INSTANCE ReviewCycle WITH phase <- Phase, Withdrawable <- HasOnWithdrawn

(* The record moves from phase to phase only as the abstract life cycle     *)
(* allows: every handler, with the round bookkeeping and the dispatches it  *)
(* makes, is one abstract step or none.                                     *)
RefinesReviewCycle == Cycle!Spec
================================================================================
