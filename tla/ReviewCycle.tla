------------------------------ MODULE ReviewCycle -------------------------------
(***************************************************************************)
(* What the approval workflow promises to the people who use it: the life  *)
(* of a record, without rounds, rows, locks or sessions.  A record is      *)
(* drafted, put under review and decided; while it is under review only a  *)
(* decision, a withdrawal or a split moves it, and an approval or a        *)
(* terminal rejection is the end of it.                                    *)
(***************************************************************************)
CONSTANTS
  TerminalReject,  \* a rejection is final
  Withdrawable,    \* the requestor may take the record back
  Splittable       \* the record may be replaced by its parts

VARIABLE phase

(* The phases in which a record belongs to its author. *)
Authored == {"draft"} \cup (IF TerminalReject THEN {} ELSE {"rejected"})

Init == phase = "absent"

Create == phase = "absent" /\ phase' \in {"draft", "review"}
Submit == phase \in Authored /\ phase' = "review"
Rework == phase \in Authored /\ phase' = "draft"
Approve == phase = "review" /\ phase' = "approved"
Reject == phase = "review" /\ phase' = "rejected"
Withdraw == Withdrawable /\ phase = "review" /\ phase' = "draft"
Split == Splittable /\ phase \in {"draft", "review"} /\ phase' = "split"
Delete == phase \in Authored \cup {"split"} /\ phase' = "deleted"

Next == Create \/ Submit \/ Rework \/ Approve \/ Reject \/ Withdraw \/ Split \/ Delete

Spec == Init /\ [][Next]_phase
================================================================================
