------------------------------ MODULE ApprovalFlow ------------------------------
(***************************************************************************)
(* The approval workflow of one record (one approvable) of a generated     *)
(* application, used by concurrent sessions.                               *)
(*                                                                         *)
(* A record is submitted in rounds.  A round has one approval_request row  *)
(* per approval flow that matches the submitter's roles; the rows of a     *)
(* round are approved in the order preceded_by asks for, and the approval  *)
(* of the last one dispatches the final effect once, guarded by the        *)
(* approvable's approved_at.  A rejection or a withdrawal closes a round,  *)
(* a split closes all of them.                                             *)
(*                                                                         *)
(* Each handler runs in a session.  What it reads before its transaction   *)
(* is a step of its own.  A Serializable transaction is one step, at its   *)
(* commit: it cannot run while another session holds a lock on a row it    *)
(* writes (the code would wait and then fail with a serialization error).  *)
(* A READ COMMITTED transaction is one step per group of statements        *)
(* between two points where another session's commit can be seen; its      *)
(* writes reach the shared state at its commit and the rows it wrote stay  *)
(* locked until then.  A session may fail at any point, which rolls its    *)
(* transaction back.  The row locks a transaction takes one after the      *)
(* other, and the requests that wait for each other on the way, are the    *)
(* subject of ApprovalLocks; the one the database then fails is Abort here.*)
(* What a handler does after its transaction has committed, the            *)
(* announcement of the next flows' turn, is a step of its own again, and   *)
(* is lost when the process dies before it.                                *)
(***************************************************************************)
EXTENDS ApprovalPredicates, Naturals

CONSTANTS
  Flows,            \* approval_flow rows of the record's entity
  PrecededBy,       \* [Flows -> SUBSET Flows]: approval_flow.preceded_by
  Users,            \* users who submit
  NoUser,           \* approvable.creator_id before any submission
  FlowsFor,         \* [Users -> SUBSET Flows]: flows whose requestor role the user holds
  Sessions,         \* requests in flight at the same time
  EntryPoints,      \* how approvers act: "rest" (API route), "action" (server action)
  MaxRounds,        \* bound: submissions of the record
  TerminalReject,   \* x-approval.on_rejected.terminal of the record's entity
  HasOnWithdrawn,   \* x-approval.on_withdrawn is declared
  Splittable,       \* x-splittable is declared
  ProxyView,        \* the flows name a proxy view of the record's model
  ClientRule,       \* approvers act only through buttons the page offers
  SameSecond        \* two rounds may share one created_at second

ASSUME FlowsAssumption ==
  /\ PrecededBy \in [Flows -> SUBSET Flows]
  /\ FlowsFor \in [Users -> SUBSET Flows]
  /\ NoUser \notin Users

ASSUME BoundAssumption == MaxRounds \in Nat \ {0}

ASSUME SwitchAssumption ==
  /\ EntryPoints \subseteq {"rest", "action"}
  /\ {TerminalReject, HasOnWithdrawn, Splittable, ProxyView, ClientRule, SameSecond}
       \subseteq BOOLEAN

VARIABLES
  entity,       \* the record's status field, "absent" before it exists
  status,       \* status[r][f]: the row of flow f in round r
  submittedAt,  \* created_at, in seconds, of the rows of a round (0: none)
  nRounds,      \* rounds created so far
  approvedAt,   \* approvable.approved_at is set
  requestor,    \* approvable.creator_id
  children,     \* children[f]: rows of flow f each split child was given
  fired,        \* final dispatches run so far (saturates at 2)
  told,         \* told[r][f]: was the turn of flow f announced in round r?
  pc,           \* pc[s]: where the request in session s stands
  work          \* work[s]: its local variables

record == <<entity, approvedAt, fired>>
rounds == <<submittedAt, nRounds, requestor>>
local == <<pc, work>>
vars == <<record, status, rounds, children, told, local>>

-----------------------------------------------------------------------------
Rounds == 1..MaxRounds
Rows == Rounds \X Flows
NoTarget == <<0, "none">>
Row(row) == status[row[1]][row[2]]

EntityStatus == {"absent", "deleted", "draft", "submitted", "approved", "rejected", "split"}
Exists == entity \notin {"absent", "deleted"}

(* Mutant: the submit value does not lock the record. *)
LockedAfterDecision == {"approved"} \cup (IF TerminalReject THEN {"rejected"} ELSE {})

(* Values of the status field at which a row may not be edited or deleted. *)
LockedValues == {"submitted", "approved"} \cup (IF TerminalReject THEN {"rejected"} ELSE {})

(* Values an edit form may write over prev: system-managed ones only as a no-op. *)
PayloadValues(prev) == {"draft", "submitted", prev}

Steps == {"idle", "approve_checked", "approve_begun", "approve_updated", "approve_read",
          "approve_announcing", "reject_checked", "withdraw_checked", "edit_begun", "edit_updated",
          "split_checked", "split_updated", "delete_checked"}

Work == [row : Rows \cup {NoTarget}, entry : EntryPoints \cup {"none"},
         before : RequestStatus \cup {NoRow}, fire : BOOLEAN, reached : SUBSET Flows,
         prev : EntityStatus, value : EntityStatus, user : Users \cup {NoUser},
         inherited : [Flows -> 0..MaxRounds], held : SUBSET Rows]

Blank == [row |-> NoTarget, entry |-> "none", before |-> NoRow, fire |-> FALSE,
          reached |-> {}, prev |-> "absent", value |-> "absent", user |-> NoUser,
          inherited |-> [f \in Flows |-> 0], held |-> {}]

(* The announcement of a turn: not made, made, or dead with the process    *)
(* that was about to make it.                                              *)
Announcement == {"no", "yes", "lost"}

(* A count that only distinguishes none, one and more. *)
Bump(n) == IF n < 2 THEN n + 1 ELSE 2

-----------------------------------------------------------------------------
(* The current round: its rows have the greatest created_at.  Rounds of    *)
(* one second tie, and findFirst may return a row of any of them.          *)
CreatedRounds == 1..nRounds
LatestRounds ==
  {r \in CreatedRounds : \A q \in CreatedRounds : submittedAt[q] <= submittedAt[r]}

(* What the two-step lookup of the current round may find. *)
LatestStatuses ==
  IF nRounds = 0 THEN {{}} ELSE {RowStatuses(status[r]) : r \in LatestRounds}

LastSecond == IF nRounds = 0 THEN 0 ELSE submittedAt[nRounds]

(* Creation of a round for the submitter u: one pending row per matching   *)
(* flow, and nothing at all when no flow matches.                          *)
OpenRound(u) ==
  IF FlowsFor[u] = {}
  THEN UNCHANGED <<status, rounds>>
  ELSE /\ nRounds < MaxRounds
       /\ nRounds' = nRounds + 1
       /\ status' = [status EXCEPT ![nRounds + 1] =
                       [f \in Flows |-> IF f \in FlowsFor[u] THEN "pending" ELSE NoRow]]
       /\ \E second \in {LastSecond + 1} \cup (IF SameSecond /\ nRounds > 0
                                              THEN {LastSecond} ELSE {}) :
            submittedAt' = [submittedAt EXCEPT ![nRounds + 1] = second]
       /\ requestor' = u

(* Bound: a submission starts only while the rounds created and those that *)
(* edits under way may create leave room for one more.                     *)
RoomForRound ==
  nRounds + Cardinality({s \in Sessions : work[s].value = "submitted"}) < MaxRounds

(* Row locks held by other sessions' open transactions. *)
HeldByOthers(s) == UNION {work[t].held : t \in Sessions \ {s}}
RowsWritten(r, new) == {<<r, f>> : f \in {g \in Flows : new[g] # status[r][g]}}
EntityFree(s) == \A t \in Sessions \ {s} : pc[t] # "edit_updated"

Goto(s, step, w) ==
  /\ pc' = [pc EXCEPT ![s] = step]
  /\ work' = [work EXCEPT ![s] = w]

Done(s) == Goto(s, "idle", Blank)

(* The dispatch modules are keyed by model: a REST route that passes them  *)
(* the key of a proxy view finds no branch and does nothing.               *)
Dispatches(entry) == ~(ProxyView /\ entry = "rest")

-----------------------------------------------------------------------------
Init ==
  /\ entity = "absent"
  /\ status = [r \in Rounds |-> [f \in Flows |-> NoRow]]
  /\ submittedAt = [r \in Rounds |-> 0]
  /\ nRounds = 0
  /\ approvedAt = FALSE
  /\ requestor = NoUser
  /\ children = [f \in Flows |-> 0]
  /\ fired = 0
  /\ told = [r \in Rounds |-> [f \in Flows |-> "no"]]
  /\ pc = [s \in Sessions |-> "idle"]
  /\ work = [s \in Sessions |-> Blank]

(***************************************************************************)
(* Creating the record.  Created at the submit value it is submitted too:  *)
(* its approvable is new, so no pending row can be found.                  *)
(***************************************************************************)
Create(s, u, value) ==
  /\ pc[s] = "idle" /\ entity = "absent"
  /\ entity' = value
  /\ IF value = "submitted" THEN OpenRound(u) ELSE UNCHANGED <<status, rounds>>
  /\ UNCHANGED <<approvedAt, fired, children, told, local>>

(***************************************************************************)
(* The explicit (re)submit action, one Serializable transaction.  When the *)
(* current round does not allow it, it returns without a word.             *)
(***************************************************************************)
SubmitForApproval(s, u) ==
  /\ pc[s] = "idle" /\ Exists /\ EntityFree(s)
  /\ RoomForRound
  /\ \E statuses \in LatestStatuses : canSubmitForApproval(statuses)
  /\ entity' = "submitted"
  /\ OpenRound(u)
  /\ UNCHANGED <<approvedAt, fired, children, told, local>>

-----------------------------------------------------------------------------
(* An ordinary edit, a READ COMMITTED transaction.  It reads the row and   *)
(* checks the edit guard and the system-managed values on what it read.    *)
EditBegin(s, u, value) ==
  /\ pc[s] = "idle" /\ Exists
  /\ entity \notin LockedValues
  /\ value = "submitted" => RoomForRound
  /\ Goto(s, "edit_begun", [Blank EXCEPT !.prev = entity, !.value = value, !.user = u])
  /\ UNCHANGED <<record, status, rounds, children, told>>

(* The UPDATE statement: it locks the row, whatever the row now holds. *)
EditUpdate(s) ==
  /\ pc[s] = "edit_begun" /\ Exists /\ EntityFree(s)
  /\ Goto(s, "edit_updated", work[s])
  /\ UNCHANGED <<record, status, rounds, children, told>>

(* The edge into the submit value opens a round if the current one allows. *)
EditCommit(s) ==
  LET edge == work[s].prev # "submitted" /\ work[s].value = "submitted"
  IN /\ pc[s] = "edit_updated"
     /\ entity' = work[s].value
     /\ \E statuses \in LatestStatuses :
          IF edge /\ canSubmitForApproval(statuses)
          THEN OpenRound(work[s].user) ELSE UNCHANGED <<status, rounds>>
     /\ Done(s)
     /\ UNCHANGED <<approvedAt, fired, children, told>>

-----------------------------------------------------------------------------
(***************************************************************************)
(* Approving and rejecting a row begin alike, outside any transaction: the *)
(* caller's role, then the order of the flows within the row's round.      *)
(* Nothing here asks whether the row is pending or its round is current;   *)
(* only the buttons of the page do (ClientRule).                           *)
(***************************************************************************)
MayAct(row) ==
  /\ Row(row) # NoRow
  /\ PrecedingApproved(status[row[1]], PrecededBy, row[2])
  /\ ClientRule => canActOnApprovalRequest(status[row[1]], PrecededBy, row[2],
                                           row[1] \in LatestRounds)

CheckApprove(s, row, entry) ==
  /\ pc[s] = "idle" /\ MayAct(row)
  /\ Goto(s, "approve_checked", [Blank EXCEPT !.row = row, !.entry = entry])
  /\ UNCHANGED <<record, status, rounds, children, told>>

CheckReject(s, row, entry) ==
  /\ pc[s] = "idle" /\ MayAct(row)
  /\ Goto(s, "reject_checked", [Blank EXCEPT !.row = row, !.entry = entry])
  /\ UNCHANGED <<record, status, rounds, children, told>>

(* What an approval decides after its own row is approved: does it dispatch *)
(* the final effect, and whose turn does it announce?                       *)
ApprovedRound(row) == [status[row[1]] EXCEPT ![row[2]] = "approved"]

(* Mutant: the idempotency flag is not read. *)
FiresAgain(row) == AllApproved(ApprovedRound(row))
(* Mutant: the round is read before the row is written. *)
FiresLate(row) == AllApproved(status[row[1]]) /\ ~approvedAt
Fires(row) == AllApproved(ApprovedRound(row)) /\ ~approvedAt

(* Mutant: the round is read before the row is written. *)
ReachedLate(row, before) ==
  IF before = "approved" THEN {} ELSE NewlyActionable(status[row[1]], PrecededBy, row[2])
Reached(row, before) ==
  IF before = "approved" THEN {}
  ELSE NewlyActionable(ApprovedRound(row), PrecededBy, row[2])

(* The writes of an approval. *)
WriteApproval(row, fire, entry) ==
  /\ status' = [status EXCEPT ![row[1]][row[2]] = "approved"]
  /\ approvedAt' = (approvedAt \/ fire)
  /\ IF fire /\ Dispatches(entry)
     THEN entity' = "approved" /\ fired' = Bump(fired)
     ELSE UNCHANGED <<entity, fired>>
  /\ UNCHANGED <<rounds, children, told>>

(* After its commit an approval has the turns it brought about to announce. *)
EndApproval(s, row, reached) ==
  IF reached = {}
  THEN Done(s)
  ELSE Goto(s, "approve_announcing", [Blank EXCEPT !.row = row, !.reached = reached])

(* The REST route approves in one Serializable transaction. *)
ApproveRest(s) ==
  LET row == work[s].row
  IN /\ pc[s] = "approve_checked" /\ work[s].entry = "rest"
     /\ Row(row) # NoRow /\ row \notin HeldByOthers(s)
     /\ Fires(row) => EntityFree(s)
     /\ WriteApproval(row, Fires(row), "rest")
     /\ EndApproval(s, row, Reached(row, Row(row)))

(* Mutant: the status kept is the record's, not the request's. *)
ApproveBeginOnRecord(s) ==
  /\ pc[s] = "approve_checked" /\ work[s].entry = "action"
  /\ Row(work[s].row) # NoRow
  /\ Goto(s, "approve_begun", [work[s] EXCEPT !.before = entity])
  /\ UNCHANGED <<record, status, rounds, children, told>>

(* The server action approves in a READ COMMITTED transaction.  It reads   *)
(* the row's status first, to know later whether it changed anything.      *)
ApproveBegin(s) ==
  /\ pc[s] = "approve_checked" /\ work[s].entry = "action"
  /\ Row(work[s].row) # NoRow
  /\ Goto(s, "approve_begun", [work[s] EXCEPT !.before = Row(work[s].row)])
  /\ UNCHANGED <<record, status, rounds, children, told>>

(* The unconditional UPDATE of the row takes its lock. *)
ApproveUpdate(s) ==
  /\ pc[s] = "approve_begun"
  /\ Row(work[s].row) # NoRow /\ work[s].row \notin HeldByOthers(s)
  /\ Goto(s, "approve_updated", [work[s] EXCEPT !.held = {work[s].row}])
  /\ UNCHANGED <<record, status, rounds, children, told>>

(* The rows of the round and approved_at, as committed by now. *)
ApproveRead(s) ==
  /\ pc[s] = "approve_updated"
  /\ Goto(s, "approve_read",
          [work[s] EXCEPT !.fire = Fires(work[s].row),
                          !.reached = Reached(work[s].row, work[s].before)])
  /\ UNCHANGED <<record, status, rounds, children, told>>

ApproveCommit(s) ==
  /\ pc[s] = "approve_read"
  /\ work[s].fire => EntityFree(s)
  /\ WriteApproval(work[s].row, work[s].fire, "action")
  /\ EndApproval(s, work[s].row, work[s].reached)

(* Once the transaction has returned, the approvers of the flows reached   *)
(* are told, flow by flow, each on the row the flow then has.  Rows of     *)
(* other rounds are told along; that says nothing of their turn and is     *)
(* left out.                                                               *)
Announce(s) ==
  LET r == work[s].row[1]
  IN /\ pc[s] = "approve_announcing"
     /\ \E f \in work[s].reached :
          /\ told' = IF status[r][f] = NoRow THEN told ELSE [told EXCEPT ![r][f] = "yes"]
          /\ IF work[s].reached = {f}
             THEN Done(s)
             ELSE Goto(s, "approve_announcing", [work[s] EXCEPT !.reached = @ \ {f}])
     /\ UNCHANGED <<record, status, rounds, children>>

(* A rejection ends the round: its other pending rows become withdrawn. *)
RejectedRound(row, terminal) ==
  [f \in Flows |->
     CASE f = row[2] -> IF terminal THEN "terminal_rejected" ELSE "rejected"
       [] f # row[2] /\ status[row[1]][f] = "pending" -> "withdrawn"
       [] OTHER -> status[row[1]][f]]

(***************************************************************************)
(* Rejecting, one Serializable transaction on both entry points.  A        *)
(* terminal rejection shares the fire-once guard of approval; any other    *)
(* one dispatches every time.                                              *)
(***************************************************************************)
Reject(s) ==
  LET row == work[s].row
      entry == work[s].entry
      terminal == TerminalReject /\ Dispatches(entry)
      closed == RejectedRound(row, terminal)
      dispatched == Dispatches(entry) /\ (terminal => ~approvedAt)
  IN /\ pc[s] = "reject_checked" /\ Row(row) # NoRow
     /\ ({row} \cup RowsWritten(row[1], closed)) \cap HeldByOthers(s) = {}
     /\ dispatched => EntityFree(s)
     /\ status' = [status EXCEPT ![row[1]] = closed]
     /\ entity' = IF dispatched THEN "rejected" ELSE entity
     /\ approvedAt' = (approvedAt \/ (terminal /\ dispatched))
     /\ fired' = IF terminal /\ dispatched THEN Bump(fired) ELSE fired
     /\ Done(s)
     /\ UNCHANGED <<rounds, children, told>>

-----------------------------------------------------------------------------
(* Withdrawing: the requestor is recognised before the transaction, the    *)
(* round is found in it.                                                   *)
CheckWithdraw(s) ==
  /\ pc[s] = "idle" /\ Exists /\ requestor # NoUser
  /\ Goto(s, "withdraw_checked", Blank)
  /\ UNCHANGED <<record, status, rounds, children, told>>

(* The pending rows of a withdrawn round are closed, the others are kept. *)
WithdrawnRound(r) ==
  [f \in Flows |-> IF status[r][f] = "pending" THEN "withdrawn" ELSE status[r][f]]

(* Mutant: on_withdrawn is not dispatched. *)
RecordAsItWas == entity

(* x-approval.on_withdrawn.set_fields gives the record back to its author. *)
OnWithdrawn == "draft"

Withdraw(s) ==
  /\ pc[s] = "withdraw_checked" /\ HasOnWithdrawn /\ EntityFree(s)
  /\ \E r \in LatestRounds :
       /\ canWithdrawApproval(RowStatuses(status[r]))
       /\ RowsWritten(r, WithdrawnRound(r)) \cap HeldByOthers(s) = {}
       /\ status' = [status EXCEPT ![r] = WithdrawnRound(r)]
  /\ entity' = OnWithdrawn
  /\ Done(s)
  /\ UNCHANGED <<approvedAt, fired, rounds, children, told>>

-----------------------------------------------------------------------------
ExistingRows == {row \in Rows : Row(row) # NoRow}

(* The rows of a flow that a split reads, over every round. *)
FlowRows(f) == {r \in Rounds : status[r][f] # NoRow}

(***************************************************************************)
(* Splitting.  The parent and all its request rows are read before the     *)
(* READ COMMITTED transaction; the transaction then rewrites every row of  *)
(* the approvable and gives each child one row per row that was read.      *)
(***************************************************************************)
CheckSplit(s) ==
  /\ pc[s] = "idle" /\ Splittable /\ Exists
  /\ entity \notin {"split", "rejected"} /\ ~approvedAt
  /\ ExistingRows # {}
  /\ Goto(s, "split_checked",
          [Blank EXCEPT !.inherited = [f \in Flows |-> Cardinality(FlowRows(f))]])
  /\ UNCHANGED <<record, status, rounds, children, told>>

SplitUpdate(s) ==
  /\ pc[s] = "split_checked" /\ Exists
  /\ ExistingRows \cap HeldByOthers(s) = {}
  /\ Goto(s, "split_updated", [work[s] EXCEPT !.held = ExistingRows])
  /\ UNCHANGED <<record, status, rounds, children, told>>

SplitCommit(s) ==
  /\ pc[s] = "split_updated" /\ Exists /\ EntityFree(s)
  /\ status' = [r \in Rounds |-> [f \in Flows |->
       IF <<r, f>> \in work[s].held THEN "split_invalidated" ELSE status[r][f]]]
  /\ entity' = "split"
  /\ children' = work[s].inherited
  /\ Done(s)
  /\ UNCHANGED <<approvedAt, fired, rounds, told>>

-----------------------------------------------------------------------------
(* Deleting: the guard looks at the row it read; the statements then       *)
(* delete by id, and the approvable's request rows go with it.             *)
CheckDelete(s) ==
  /\ pc[s] = "idle" /\ Exists /\ entity \notin LockedValues
  /\ Goto(s, "delete_checked", Blank)
  /\ UNCHANGED <<record, status, rounds, children, told>>

Delete(s) ==
  /\ pc[s] = "delete_checked" /\ Exists /\ EntityFree(s)
  /\ HeldByOthers(s) = {}
  /\ entity' = "deleted"
  /\ status' = [r \in Rounds |-> [f \in Flows |-> NoRow]]
  /\ Done(s)
  /\ UNCHANGED <<approvedAt, fired, rounds, children, told>>

-----------------------------------------------------------------------------
(* A request whose object is gone, or that finds nothing to do, ends with  *)
(* an error and no effect.                                                 *)
Refuse(s) ==
  /\ \/ /\ pc[s] \in {"approve_checked", "approve_begun", "reject_checked"}
        /\ Row(work[s].row) = NoRow
     \/ /\ pc[s] \in {"edit_begun", "split_checked", "delete_checked"}
        /\ ~Exists
     \/ /\ pc[s] = "withdraw_checked"
        /\ \/ ~HasOnWithdrawn
           \/ LatestRounds = {}
           \/ \E r \in LatestRounds : ~canWithdrawApproval(RowStatuses(status[r]))
  /\ Done(s)
  /\ UNCHANGED <<record, status, rounds, children, told>>

(* A crash, a timeout, a serialization failure, a lock cycle or a lost     *)
(* connection: the database rolls the session's transaction back.          *)
Abort(s) ==
  /\ pc[s] \notin {"idle", "approve_announcing"}
  /\ Done(s)
  /\ UNCHANGED <<record, status, rounds, children, told>>

(* The same after the commit of an approval: the approval stands, and what *)
(* was still to be announced is not: approving the row again finds it      *)
(* approved already and announces nothing.                                 *)
LoseAnnouncement(s) ==
  LET row == work[s].row
  IN /\ pc[s] = "approve_announcing"
     /\ told' = [told EXCEPT ![row[1]] = [f \in Flows |->
                   IF f \in work[s].reached /\ @[f] = "no" THEN "lost" ELSE @[f]]]
     /\ Done(s)
     /\ UNCHANGED <<record, status, rounds, children>>

Fail(s) == Abort(s) \/ LoseAnnouncement(s)

-----------------------------------------------------------------------------
(* A new request. *)
Start(s) ==
  \/ \E u \in Users, value \in {"draft", "submitted"} : Create(s, u, value)
  \/ \E u \in Users : SubmitForApproval(s, u)
  \/ \E u \in Users, value \in PayloadValues(entity) : EditBegin(s, u, value)
  \/ \E row \in Rows, entry \in EntryPoints : CheckApprove(s, row, entry)
                                             \/ CheckReject(s, row, entry)
  \/ CheckWithdraw(s)
  \/ CheckSplit(s)
  \/ CheckDelete(s)

(* The next step of a request under way. *)
Continue(s) ==
  \/ EditUpdate(s) \/ EditCommit(s)
  \/ ApproveRest(s)
  \/ ApproveBegin(s) \/ ApproveUpdate(s) \/ ApproveRead(s) \/ ApproveCommit(s)
  \/ Announce(s)
  \/ Reject(s)
  \/ Withdraw(s)
  \/ SplitUpdate(s) \/ SplitCommit(s)
  \/ Delete(s)
  \/ Refuse(s)

Next == \E s \in Sessions : Start(s) \/ Continue(s) \/ Fail(s)

Spec == Init /\ [][Next]_vars

-----------------------------------------------------------------------------
(* Properties. *)

(* Type correctness: every variable, and every local variable of a request, *)
(* stays in its range; in particular the locks are on rows and the round    *)
(* counter within its bound.                                                *)
TypeOK ==
  /\ entity \in EntityStatus
  /\ status \in [Rounds -> [Flows -> RequestStatus \cup {NoRow}]]
  /\ submittedAt \in [Rounds -> Nat]
  /\ nRounds \in 0..MaxRounds
  /\ approvedAt \in BOOLEAN
  /\ requestor \in Users \cup {NoUser}
  /\ children \in [Flows -> 0..MaxRounds]
  /\ fired \in 0..2
  /\ told \in [Rounds -> [Flows -> Announcement]]
  /\ pc \in [Sessions -> Steps]
  /\ work \in [Sessions -> Work]

Open(r) == \E f \in Flows : status[r][f] = "pending"
Idle == \A s \in Sessions : pc[s] = "idle"

(* At most one round of a record awaits decisions, however submissions by   *)
(* edit, by the submit action, withdrawals and rejections interleave; the   *)
(* submissions rely on the row lock of their UPDATE and on the round lookup *)
(* coming after it.                                                         *)
OneOpenRound == \A r, q \in Rounds : Open(r) /\ Open(q) => r = q

(* The final effect of a record, on_approved or a terminal on_rejected, is  *)
(* dispatched at most once; approved_at is its idempotency flag.            *)
FinalOnce == fired <= 1

(* A round whose rows are all approved has had its final effect: the last   *)
(* approval to commit sees the others.                                      *)
CompletedIsFinal ==
  entity # "deleted" /\ (\E r \in Rounds : AllApproved(status[r])) => approvedAt

(* As soon as every flow before a pending one is approved in the round, its *)
(* approvers have been told that it is their turn, or a request that has    *)
(* committed the approval is about to tell them, or that request died on    *)
(* the way to it.  Only the last loses an announcement, no interleaving of  *)
(* Serializable approvals does: of two that bring a turn about together the *)
(* later sees the earlier.                                                  *)
AboutToTell(r, f) ==
  \E s \in Sessions :
    pc[s] = "approve_announcing" /\ work[s].row[1] = r /\ f \in work[s].reached
TurnAnnounced ==
  \A r \in Rounds, f \in Flows :
    /\ status[r][f] = "pending" /\ PrecededBy[f] # {}
    /\ PrecedingApproved(status[r], PrecededBy, f)
    => told[r][f] # "no" \/ AboutToTell(r, f)

(* A record under review stays at the submit value: no edit, deletion,      *)
(* split or dispatch moves it while a row awaits a decision.                *)
ReviewLocked == (\E r \in Rounds : Open(r)) => entity = "submitted"

(* Conversely a record left at the submit value has a round under review:   *)
(* it is never locked for editing with nobody to decide on it.  A split     *)
(* parent is the exception, an edit may still write the submit value there. *)
SplitParent == \E row \in Rows : Row(row) = "split_invalidated"
SubmittedIsUnderReview ==
  Idle /\ entity = "submitted" /\ ~SplitParent => \E r \in Rounds : Open(r)

(* In every round a flow is approved only after the flows that precede it.  *)
ApprovedInOrder ==
  \A r \in Rounds, f \in Flows :
    status[r][f] = "approved" => \A p \in PrecededBy[f] : status[r][p] = "approved"
================================================================================
