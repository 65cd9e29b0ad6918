--------------------------- MODULE ApprovalPredicates ---------------------------
(***************************************************************************)
(* The positive predicates of lib/approval_request/submit_predicate.ts and *)
(* the ordering check of lib/approval_request/order-check.ts.  The code    *)
(* evaluates them on the rows of one round; a round is here a function     *)
(* from approval flows to the status of that flow's row, NoRow where the   *)
(* flow has no row in the round.                                           *)
(***************************************************************************)
EXTENDS FiniteSets

NoRow == "no_row"

(* enum ApprovalRequestStatus of prisma/schema.prisma. *)
RequestStatus == {"pending", "approved", "rejected", "terminal_rejected",
                  "withdrawn", "split_invalidated"}

(* The statuses found among the rows of a round. *)
RowStatuses(round) == {round[f] : f \in DOMAIN round} \ {NoRow}

(* Mutant: a pending row no longer blocks a new round. *)
canSubmitWhilePending(statuses) ==
  \/ statuses = {}
  \/ /\ statuses # {"approved"}
     /\ "terminal_rejected" \notin statuses
     /\ "split_invalidated" \notin statuses

(* Mutant: a fully approved round no longer blocks a new one. *)
canSubmitAfterApproval(statuses) ==
  \/ statuses = {}
  \/ /\ "pending" \notin statuses
     /\ "terminal_rejected" \notin statuses
     /\ "split_invalidated" \notin statuses

(* May a new round be created, given the statuses of the current one? *)
canSubmitForApproval(statuses) ==
  \/ statuses = {}
  \/ /\ "pending" \notin statuses
     /\ statuses # {"approved"}
     /\ "terminal_rejected" \notin statuses
     /\ "split_invalidated" \notin statuses

(* May the current round be withdrawn, given the statuses of its rows? *)
canWithdrawApproval(statuses) == "pending" \in statuses

(* Has every flow that precedes f an approved row in this round? *)
PrecedingApproved(round, precededBy, f) ==
  \A p \in precededBy[f] : round[p] = "approved"

(***************************************************************************)
(* The rule the approval section of a record page applies before it offers *)
(* the approve and reject buttons of a row.  The approver's role is left   *)
(* out: every session of the model holds it.                               *)
(***************************************************************************)
canActOnApprovalRequest(round, precededBy, f, actionable) ==
  /\ actionable
  /\ round[f] = "pending"
  /\ PrecedingApproved(round, precededBy, f)

(***************************************************************************)
(* The follow-on flows whose last missing predecessor is now approved,     *)
(* among those that list f as a predecessor.  Like the code, it does not   *)
(* ask what the status of the follow-on flow's own row is.                 *)
(***************************************************************************)
NewlyActionable(round, precededBy, f) ==
  {g \in DOMAIN round : f \in precededBy[g] /\ PrecedingApproved(round, precededBy, g)}

(* Every row of the round, and there is one, is approved. *)
AllApproved(round) == RowStatuses(round) = {"approved"}
================================================================================
