----------------------------- MODULE ApprovalLocks ------------------------------
(***************************************************************************)
(* The row locks of the approval workflow of one record.                   *)
(*                                                                         *)
(* Every handler of ApprovalFlow runs in a transaction that locks the rows *)
(* it writes, statement by statement, and keeps them until it ends: its    *)
(* approval_request rows, the approvable, the record.  The handlers do not *)
(* take them in one order.  An approval goes from its own row to the       *)
(* approvable and the record; a rejection takes the pending rows of the    *)
(* round after its own; an edit or a submission takes the record first and *)
(* the approvable when it opens a round; a deletion ends with the rows.    *)
(* Requests therefore can wait for each other in a circle, which the       *)
(* database breaks by failing one of them.                                 *)
(*                                                                         *)
(* A transaction is here a queue of statements, each a set of rows that it *)
(* locks in any order.  A Serializable transaction decides on its snapshot *)
(* what it will write, and fails on a row that was changed since, or when  *)
(* another Serializable one of the same round has committed since.  A READ *)
(* COMMITTED one decides when it comes to the statement.  Writes reach the *)
(* shared state at the commit.  What a handler reads before its            *)
(* transaction and does after it is the subject of ApprovalFlow, and left  *)
(* out here; so are the shared locks of foreign keys: only a deletion      *)
(* conflicts with them, and it meets their holder at the record before.    *)
(***************************************************************************)
EXTENDS ApprovalPredicates, Naturals, Sequences

CONSTANTS
  Flows,            \* approval_flow rows of the record's entity
  PrecededBy,       \* [Flows -> SUBSET Flows]: approval_flow.preceded_by
  Sessions,         \* requests in flight at the same time
  NoSession,        \* owner of a row that is not locked
  MaxRounds,        \* bound: submissions of the record
  MaxRequests,      \* bound: requests begun
  TerminalReject,   \* x-approval.on_rejected.terminal of the record's entity
  HasOnWithdrawn,   \* x-approval.on_withdrawn is declared
  Splittable        \* x-splittable is declared

ASSUME FlowsAssumption == PrecededBy \in [Flows -> SUBSET Flows]
ASSUME OwnerAssumption == NoSession \notin Sessions
ASSUME BoundAssumption == MaxRounds \in Nat \ {0} /\ MaxRequests \in Nat
ASSUME SwitchAssumption == {TerminalReject, HasOnWithdrawn, Splittable} \subseteq BOOLEAN

VARIABLES
  entity,     \* the record's status field
  status,     \* status[r][f]: the row of flow f in round r
  nRounds,    \* rounds created so far
  approved,   \* approvable.approved_at is set
  owner,      \* owner[o]: the session that holds the lock of row o
  request,    \* request[s]: the transaction in session s
  begun       \* requests begun so far

data == <<entity, status, nRounds, approved>>
vars == <<data, owner, request, begun>>

-----------------------------------------------------------------------------
Rounds == 1..MaxRounds
Rows == Rounds \X Flows
approvable == <<0, "approvable">>
record == <<0, "record">>
Objects == Rows \cup {approvable, record}
NoObject == <<0, "none">>

Row(row) == status[row[1]][row[2]]
ExistingRows == {row \in Rows : Row(row) # NoRow}
Exists == entity # "deleted"
Present(o) == IF o \in Rows THEN Row(o) # NoRow ELSE Exists
LatestStatuses == IF nRounds = 0 THEN {} ELSE RowStatuses(status[nRounds])

EntityStatus == {"deleted", "draft", "submitted", "approved", "rejected", "split"}

(* Values of the status field at which the record may not be edited or deleted. *)
LockedValues == {"submitted", "approved"} \cup (IF TerminalReject THEN {"rejected"} ELSE {})

(* Transactions opened with isolationLevel Serializable; the others run at *)
(* the database's default, READ COMMITTED.                                 *)
Serializable == {"approve", "reject", "withdraw", "submit"}
Kinds == Serializable \cup {"approve_action", "edit", "split", "delete"}

(* What a transaction is to write: mark into the request rows it locks,    *)
(* value into the record if it locks it.                                   *)
Request == [kind : Kinds \cup {"idle"}, row : Rows \cup {NoObject}, round : 0..MaxRounds,
            mark : RequestStatus \cup {NoRow}, value : EntityStatus,
            todo : Seq(SUBSET Objects), due : BOOLEAN, wants : Objects \cup {NoObject},
            overtaken : SUBSET Objects, outrun : BOOLEAN]

Idle == [kind |-> "idle", row |-> NoObject, round |-> 0, mark |-> NoRow, value |-> "draft",
         todo |-> <<>>, due |-> FALSE, wants |-> NoObject, overtaken |-> {}, outrun |-> FALSE]

Statements(locks) == SelectSeq(locks, LAMBDA rows : rows # {})

Init ==
  /\ entity = "draft"
  /\ status = [r \in Rounds |-> [f \in Flows |-> NoRow]]
  /\ nRounds = 0
  /\ approved = FALSE
  /\ owner = [o \in Objects |-> NoSession]
  /\ request = [s \in Sessions |-> Idle]
  /\ begun = 0

-----------------------------------------------------------------------------
(* The locks a decision takes once its own row is locked. *)
Fires(row) == AllApproved([status[row[1]] EXCEPT ![row[2]] = "approved"]) /\ ~approved

(* Mutant: the record is written before the approvable. *)
RecordFirstLocks(row) == IF Fires(row) THEN <<{record}, {approvable}>> ELSE <<>>
FinalLocks(row) == IF Fires(row) THEN <<{approvable}, {record}>> ELSE <<>>

Siblings(row) ==
  {<<row[1], f>> : f \in {g \in Flows \ {row[2]} : status[row[1]][g] = "pending"}}

RejectLocks(row, reason) ==
  LET dispatched == TerminalReject => ~approved
  IN <<Siblings(row),
       IF reason \/ (TerminalReject /\ dispatched) THEN {approvable} ELSE {},
       IF dispatched THEN {record} ELSE {}>>

(* A READ COMMITTED transaction comes to the part it decides on late. *)
LateLocks(q) ==
  CASE q.kind = "approve_action" -> FinalLocks(q.row)
    [] q.kind = "edit" -> IF canSubmitForApproval(LatestStatuses) THEN <<{approvable}>> ELSE <<>>
    [] q.kind = "split" -> <<ExistingRows, {record}>>
    [] q.kind = "delete" -> <<ExistingRows>>

-----------------------------------------------------------------------------
Begin(s, q) ==
  /\ request[s] = Idle
  /\ begun < MaxRequests /\ begun' = begun + 1
  /\ request' = [request EXCEPT ![s] = q]
  /\ UNCHANGED <<data, owner>>

(* Neither decision asks whether the row is pending or its round current. *)
MayAct(row) == Row(row) # NoRow /\ PrecedingApproved(status[row[1]], PrecededBy, row[2])

BeginApprove(s, row, kind) ==
  /\ MayAct(row)
  /\ Begin(s, [Idle EXCEPT !.kind = kind, !.row = row, !.round = row[1],
                 !.mark = "approved", !.value = "approved", !.due = kind \notin Serializable,
                 !.todo = <<{row}>> \o (IF kind \in Serializable THEN FinalLocks(row) ELSE <<>>)])

BeginReject(s, row, reason) ==
  /\ MayAct(row)
  /\ Begin(s, [Idle EXCEPT !.kind = "reject", !.row = row, !.round = row[1],
                 !.mark = "withdrawn", !.value = "rejected",
                 !.todo = <<{row}>> \o Statements(RejectLocks(row, reason))])

BeginWithdraw(s) ==
  /\ Exists /\ HasOnWithdrawn /\ canWithdrawApproval(LatestStatuses)
  /\ Begin(s, [Idle EXCEPT !.kind = "withdraw", !.round = nRounds,
                 !.mark = "withdrawn", !.value = "draft",
                 !.todo = <<{row \in Rows : row[1] = nRounds /\ Row(row) = "pending"},
                            {record}>>])

(* Bound: a submission starts only while the rounds created and those under *)
(* way leave room for one more.                                             *)
RoomForRound ==
  nRounds + Cardinality({s \in Sessions : request[s].value = "submitted"}) < MaxRounds

BeginSubmit(s) ==
  /\ Exists /\ canSubmitForApproval(LatestStatuses) /\ RoomForRound
  /\ Begin(s, [Idle EXCEPT !.kind = "submit", !.round = nRounds, !.value = "submitted",
                 !.todo = <<{record}, {approvable}>>])

(* The edge into the submit value is judged on the row the guard read. *)
BeginEdit(s, value) ==
  /\ Exists /\ entity \notin LockedValues
  /\ value = "submitted" => RoomForRound
  /\ Begin(s, [Idle EXCEPT !.kind = "edit", !.value = value, !.todo = <<{record}>>,
                 !.due = (value = "submitted")])

BeginSplit(s) ==
  /\ Splittable /\ Exists /\ entity \notin {"split", "rejected"} /\ ~approved
  /\ ExistingRows # {}
  /\ Begin(s, [Idle EXCEPT !.kind = "split", !.mark = "split_invalidated", !.value = "split",
                 !.due = TRUE])

BeginDelete(s) ==
  /\ Exists /\ entity \notin LockedValues
  /\ Begin(s, [Idle EXCEPT !.kind = "delete", !.value = "deleted",
                 !.todo = <<{record}, {approvable}>>, !.due = TRUE])

-----------------------------------------------------------------------------
Held(s) == {o \in Objects : owner[o] = s}
NextRows(q) == IF q.todo = <<>> THEN {} ELSE Head(q.todo)
Reaches(s, o) == o \in NextRows(request[s]) /\ request[s].wants \in {NoObject, o}

(* Mutant: the transactions are not Serializable. *)
GoneOnly(s, o) == ~Present(o)

(* A row the statement cannot write: it is gone, or was changed after the  *)
(* snapshot of a Serializable transaction.                                 *)
Unwritable(s, o) == ~Present(o) \/ o \in request[s].overtaken

(* A statement locks the next of its rows, or starts to wait for it. *)
Lock(s) ==
  \E o \in Objects :
    /\ Reaches(s, o) /\ owner[o] = NoSession /\ ~Unwritable(s, o)
    /\ owner' = [owner EXCEPT ![o] = s]
    /\ LET rest == Head(request[s].todo) \ {o}
       IN request' = [request EXCEPT ![s].wants = NoObject,
                        ![s].todo = (IF rest = {} THEN <<>> ELSE <<rest>>) \o Tail(@)]
    /\ UNCHANGED data

Wait(s) ==
  /\ request[s].wants = NoObject
  /\ \E o \in NextRows(request[s]) :
       /\ owner[o] # NoSession
       /\ request' = [request EXCEPT ![s].wants = o]
  /\ UNCHANGED <<data, owner>>

Decide(s) ==
  /\ request[s].due /\ request[s].todo = <<>>
  /\ request' = [request EXCEPT ![s].due = FALSE,
                                ![s].todo = Statements(LateLocks(request[s]))]
  /\ UNCHANGED <<data, owner>>

Release(s, after) ==
  /\ owner' = [o \in Objects |-> IF owner[o] = s THEN NoSession ELSE owner[o]]
  /\ request' = [after EXCEPT ![s] = Idle]

(* Does the transaction open a round?  An edit locks the approvable only then. *)
Opens(s) ==
  request[s].kind = "submit" \/ (request[s].kind = "edit" /\ approvable \in Held(s))

(* Mutant: the row is given the record's new value. *)
MarkedAsRecord(s, row) == request[s].value

Marked(s, row) ==
  IF request[s].kind = "reject" /\ row = request[s].row
  THEN IF TerminalReject THEN "terminal_rejected" ELSE "rejected"
  ELSE request[s].mark

Remaining(q) == UNION {q.todo[i] : i \in DOMAIN q.todo}

(* The Serializable transactions under way learn which of the rows they    *)
(* have still to lock are no longer those of their snapshots, and whether  *)
(* another Serializable one of their round was first: each of the two has  *)
(* then read what the other writes, rows of the round or the approvable.   *)
Overtaking(s) ==
  [t \in Sessions |->
     IF request[t].kind \notin Serializable THEN request[t]
     ELSE [request[t] EXCEPT
             !.overtaken = @ \cup (Held(s) \cap Remaining(request[t])),
             !.outrun = @ \/ /\ request[s].kind \in Serializable
                             /\ request[s].round = request[t].round]]

Commit(s) ==
  LET q == request[s]
  IN /\ q.kind # "idle" /\ q.todo = <<>> /\ ~q.due /\ ~q.outrun
     /\ entity' = IF record \in Held(s) THEN q.value ELSE entity
     /\ status' = [r \in Rounds |-> [f \in Flows |->
          CASE <<r, f>> \in Held(s) -> Marked(s, <<r, f>>)
            [] Opens(s) /\ r = nRounds + 1 -> "pending"
            [] OTHER -> status[r][f]]]
     /\ nRounds' = IF Opens(s) THEN nRounds + 1 ELSE nRounds
     /\ approved' = (approved \/ /\ approvable \in Held(s)
                                 /\ \/ q.kind \in {"approve", "approve_action"}
                                    \/ q.kind = "reject" /\ TerminalReject)
     /\ Release(s, Overtaking(s))

-----------------------------------------------------------------------------
(* What becomes of a transaction that fails: the database rolls it back    *)
(* and the handler answers with an error.  None of them tries again.       *)
GiveUp(s) == Release(s, request) /\ UNCHANGED data

(* A serialization failure, or a row that is gone. *)
Refuse(s) ==
  /\ \/ \E o \in Objects : Reaches(s, o) /\ owner[o] = NoSession /\ Unwritable(s, o)
     \/ request[s].outrun /\ request[s].todo = <<>>
  /\ GiveUp(s)

(* A crash, a timeout or a lost connection; or the database breaks a circle *)
(* of requests that wait for each other, by failing this one of them.       *)
Fail(s) == request[s].kind # "idle" /\ GiveUp(s)

-----------------------------------------------------------------------------
Start(s) ==
  \/ \E row \in Rows, kind \in {"approve", "approve_action"} : BeginApprove(s, row, kind)
  \/ \E row \in Rows, reason \in BOOLEAN : BeginReject(s, row, reason)
  \/ BeginWithdraw(s)
  \/ BeginSubmit(s)
  \/ \E value \in {"draft", "submitted"} : BeginEdit(s, value)
  \/ BeginSplit(s)
  \/ BeginDelete(s)

Advance(s) ==
  /\ Lock(s) \/ Wait(s) \/ Decide(s) \/ Commit(s) \/ Refuse(s) \/ Fail(s)
  /\ UNCHANGED begun

Next == \E s \in Sessions : Start(s) \/ Advance(s)

Spec == Init /\ [][Next]_vars

-----------------------------------------------------------------------------
(* Properties. *)

(* Type correctness: every variable stays in its range, and what a session *)
(* is to lock are rows of the record.                                      *)
TypeOK ==
  /\ entity \in EntityStatus
  /\ status \in [Rounds -> [Flows -> RequestStatus \cup {NoRow}]]
  /\ nRounds \in 0..MaxRounds
  /\ approved \in BOOLEAN
  /\ owner \in [Objects -> Sessions \cup {NoSession}]
  /\ request \in [Sessions -> Request]

(* Each of the sessions waits for another of them, and no part of them does *)
(* so on its own.                                                           *)
WaitAmong(sessions) ==
  sessions # {} /\ \A s \in sessions :
    request[s].wants # NoObject /\ owner[request[s].wants] \in sessions
Circle(sessions) ==
  WaitAmong(sessions) /\ \A part \in SUBSET sessions : WaitAmong(part) => part = sessions

(* Which requests can wait for each other in a circle.  Approvals never do *)
(* among themselves, nor with rejections: all of them go from the rows to  *)
(* the approvable and the record.  A circle is                             *)
(*  - between requests that take several rows of the round, one after the  *)
(*    other: rejections, withdrawals and splits;                           *)
(*  - or it runs through a deletion, which has the record and takes the    *)
(*    rows last;                                                           *)
(*  - or it runs through an edit or a submission, which has the record and *)
(*    takes the approvable, and then the other decides a row that was      *)
(*    decided already: while a row is pending nobody opens a round.        *)
CirclesExplained ==
  \A sessions \in SUBSET Sessions : Circle(sessions) =>
    \/ \A s \in sessions : request[s].kind \in {"reject", "withdraw", "split"}
    \/ \E s \in sessions : request[s].kind = "delete"
    \/ \E s, t \in sessions :
         /\ request[s].kind \in {"edit", "submit"}
         /\ request[t].kind \in {"approve", "approve_action", "reject"}
         /\ Row(request[t].row) # "pending"

(* What a rejection or a withdrawal closes along with the round was pending *)
(* until then: it never cancels the decision another approver has taken     *)
(* since it looked for the pending rows, because it is Serializable.        *)
OnlyPendingCancelled ==
  [][\A row \in Rows :
       status'[row[1]][row[2]] = "withdrawn" => Row(row) \in {"withdrawn", "pending"}]_vars
================================================================================
