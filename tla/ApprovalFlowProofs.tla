--------------------------- MODULE ApprovalFlowProofs ---------------------------
(***************************************************************************)
(* Theorems about ApprovalFlow, for every set of flows, users and sessions *)
(* and every number of rounds.                                             *)
(***************************************************************************)
EXTENDS ApprovalRefinement, FiniteSetTheorems, TLAPS

-----------------------------------------------------------------------------
(* Type correctness. *)

(* A session that has not begun, or that has ended, has empty local variables. *)
LEMMA BlankType == Blank \in Work
BY BoundAssumption DEF Blank, Work, RequestStatus, EntityStatus, NoRow

(* Counting the rounds in which a flow has a row stays within the bound. *)
LEMMA CountType ==
  ASSUME NEW P
  PROVE  Cardinality({r \in Rounds : r \in P}) \in 0..MaxRounds
<1>1. IsFiniteSet(Rounds) /\ Cardinality(Rounds) = MaxRounds
  BY BoundAssumption, FS_Interval DEF Rounds
<1>2. {r \in Rounds : r \in P} \in SUBSET Rounds
  OBVIOUS
<1>3. /\ IsFiniteSet({r \in Rounds : r \in P})
      /\ Cardinality({r \in Rounds : r \in P}) <= Cardinality(Rounds)
  BY <1>1, <1>2, FS_Subset
<1> QED
  BY <1>1, <1>3, FS_CardinalityType, BoundAssumption

(* Moving a session to another step with well-typed local variables. *)
LEMMA GotoType ==
  ASSUME TypeOK, NEW s \in Sessions, NEW step \in Steps, NEW w \in Work, Goto(s, step, w)
  PROVE  pc' \in [Sessions -> Steps] /\ work' \in [Sessions -> Work]
BY DEF TypeOK, Goto

LEMMA DoneType ==
  ASSUME TypeOK, NEW s \in Sessions, Done(s)
  PROVE  pc' \in [Sessions -> Steps] /\ work' \in [Sessions -> Work]
BY GotoType, BlankType DEF Done, Steps

(* Opening a round keeps the rounds and their rows well typed. *)
LEMMA OpenRoundType ==
  ASSUME TypeOK, NEW u \in Users, OpenRound(u)
  PROVE  /\ status' \in [Rounds -> [Flows -> RequestStatus \cup {NoRow}]]
         /\ submittedAt' \in [Rounds -> Nat]
         /\ nRounds' \in 0..MaxRounds
         /\ requestor' \in Users \cup {NoUser}
<1>1. CASE FlowsFor[u] = {}
  BY <1>1 DEF OpenRound, TypeOK, rounds
<1>2. CASE FlowsFor[u] # {}
  <2>1. nRounds' \in 0..MaxRounds
    BY <1>2, BoundAssumption DEF OpenRound, TypeOK
  <2>2. [f \in Flows |-> IF f \in FlowsFor[u] THEN "pending" ELSE NoRow]
          \in [Flows -> RequestStatus \cup {NoRow}]
    BY DEF RequestStatus
  <2>3. status' \in [Rounds -> [Flows -> RequestStatus \cup {NoRow}]]
    BY <1>2, <2>2 DEF OpenRound, TypeOK
  <2>4. LastSecond \in Nat
    BY DEF LastSecond, TypeOK, Rounds
  <2>5. submittedAt' \in [Rounds -> Nat]
    BY <1>2, <2>4 DEF OpenRound, TypeOK
  <2> QED
    BY <1>2, <2>1, <2>3, <2>5 DEF OpenRound
<1> QED
  BY <1>1, <1>2

(* The local variables a handler relies on are set by the step before it. *)
ApproveSteps == {"approve_begun", "approve_updated", "approve_read"}
DecisionSteps == ApproveSteps \cup {"approve_checked", "reject_checked"}
RowSteps == DecisionSteps \cup {"approve_announcing"}
EditSteps == {"edit_begun", "edit_updated"}

Prepared ==
  \A s \in Sessions :
    /\ pc[s] \in RowSteps => work[s].row \in Rows
    /\ pc[s] \in EditSteps => work[s].user \in Users /\ work[s].value # "absent"

TypeInv == TypeOK /\ Prepared

(* A step that only moves a session on keeps the shared variables well typed. *)
LEMMA LocalStepType ==
  ASSUME TypeInv, NEW s \in Sessions, NEW step \in Steps, NEW w \in Work, Goto(s, step, w),
         UNCHANGED <<record, status, rounds, children, told>>,
         step \in RowSteps => w.row \in Rows,
         step \in EditSteps => w.user \in Users /\ w.value # "absent"
  PROVE  TypeInv'
<1>1. pc' \in [Sessions -> Steps] /\ work' \in [Sessions -> Work]
  BY GotoType DEF TypeInv
<1>2. TypeOK'
  BY <1>1 DEF TypeInv, TypeOK, record, rounds
<1>3. Prepared'
  <2> SUFFICES ASSUME NEW t \in Sessions
               PROVE  /\ pc'[t] \in RowSteps => work'[t].row \in Rows
                      /\ pc'[t] \in EditSteps =>
                           work'[t].user \in Users /\ work'[t].value # "absent"
    BY DEF Prepared
  <2>1. CASE t = s
    BY <2>1 DEF TypeInv, TypeOK, Goto
  <2>2. CASE t # s
    BY <2>2 DEF TypeInv, TypeOK, Goto, Prepared
  <2> QED
    BY <2>1, <2>2
<1> QED
  BY <1>2, <1>3 DEF TypeInv

(* A session that ends keeps what the others have prepared. *)
LEMMA DonePrepared ==
  ASSUME TypeInv, NEW s \in Sessions, Done(s)
  PROVE  Prepared'
<1>1. pc'[s] = "idle" /\ \A t \in Sessions \ {s} : pc'[t] = pc[t] /\ work'[t] = work[t]
  BY DEF Done, Goto, TypeInv, TypeOK
<1> QED
  BY <1>1 DEF TypeInv, Prepared, RowSteps, DecisionSteps, ApproveSteps, EditSteps

(* A session that takes its first step leaves from empty local variables. *)
LEMMA CheckType ==
  ASSUME TypeInv, NEW s \in Sessions, NEW row \in Rows, NEW entry \in EntryPoints,
         CheckApprove(s, row, entry) \/ CheckReject(s, row, entry)
  PROVE  TypeInv'
<1> DEFINE w == [Blank EXCEPT !.row = row, !.entry = entry]
<1>1. w \in Work /\ w.row \in Rows
  BY BlankType DEF Work, Blank
<1>2. \E step \in {"approve_checked", "reject_checked"} : Goto(s, step, w)
  BY DEF CheckApprove, CheckReject
<1>3. UNCHANGED <<record, status, rounds, children, told>>
  BY DEF CheckApprove, CheckReject
<1> QED
  BY <1>1, <1>2, <1>3, LocalStepType DEF Steps, RowSteps, DecisionSteps, EditSteps, ApproveSteps

LEMMA EditBeginType ==
  ASSUME TypeInv, NEW s \in Sessions, NEW u \in Users, NEW value \in PayloadValues(entity),
         EditBegin(s, u, value)
  PROVE  TypeInv'
<1> DEFINE w == [Blank EXCEPT !.prev = entity, !.value = value, !.user = u]
<1>1. value \in EntityStatus /\ value # "absent"
  BY DEF TypeInv, TypeOK, PayloadValues, EntityStatus, EditBegin, Exists
<1>2. w \in Work /\ w.user \in Users /\ w.value # "absent"
  BY <1>1, BlankType DEF Work, Blank, TypeInv, TypeOK
<1> QED
  BY <1>2, LocalStepType DEF EditBegin, Steps, RowSteps, DecisionSteps, EditSteps, ApproveSteps
LEMMA OtherChecksType ==
  ASSUME TypeInv, NEW s \in Sessions, CheckWithdraw(s) \/ CheckSplit(s) \/ CheckDelete(s)
  PROVE  TypeInv'
<1>1. CASE CheckWithdraw(s) \/ CheckDelete(s)
  BY <1>1, BlankType, LocalStepType
  DEF CheckWithdraw, CheckDelete, Steps, RowSteps, DecisionSteps, EditSteps, ApproveSteps
<1>2. CASE CheckSplit(s)
  <2> DEFINE count == [f \in Flows |-> Cardinality(FlowRows(f))]
             w == [Blank EXCEPT !.inherited = count]
  <2>1. ASSUME NEW f \in Flows
        PROVE  Cardinality(FlowRows(f)) \in 0..MaxRounds
    <3>1. {r \in Rounds : r \in FlowRows(f)} = FlowRows(f)
      BY DEF FlowRows
    <3>2. Cardinality({r \in Rounds : r \in FlowRows(f)}) \in 0..MaxRounds
      BY CountType
    <3> QED
      BY <3>1, <3>2
  <2>2. w \in Work
    BY <2>1, BlankType DEF Work
  <2> QED
    BY <1>2, <2>2, LocalStepType
    DEF CheckSplit, Steps, RowSteps, DecisionSteps, EditSteps, ApproveSteps
<1> QED
  BY <1>1, <1>2

(* The steps in the middle of a READ COMMITTED transaction. *)
LEMMA MiddleStepType ==
  ASSUME TypeInv, NEW s \in Sessions,
         EditUpdate(s) \/ ApproveBegin(s) \/ ApproveUpdate(s) \/ ApproveRead(s) \/ SplitUpdate(s)
  PROVE  TypeInv'
<1> USE DEF Steps, RowSteps, DecisionSteps, EditSteps, ApproveSteps
<1>1. work[s] \in Work
  BY DEF TypeInv, TypeOK
<1>2. CASE EditUpdate(s)
  BY <1>1, <1>2, LocalStepType DEF EditUpdate, TypeInv, Prepared
<1>3. CASE ApproveBegin(s)
  <2>1. work[s].row \in Rows
    BY <1>3 DEF ApproveBegin, TypeInv, Prepared
  <2>2. Row(work[s].row) \in RequestStatus
    BY <1>3, <2>1 DEF ApproveBegin, TypeInv, TypeOK, Row, Rows
  <2>3. [work[s] EXCEPT !.before = Row(work[s].row)] \in Work
    BY <1>1, <2>2 DEF Work
  <2> QED
    BY <1>3, <2>1, <2>3, LocalStepType DEF ApproveBegin, Work
<1>4. CASE ApproveUpdate(s)
  <2>1. work[s].row \in Rows
    BY <1>4 DEF ApproveUpdate, TypeInv, Prepared
  <2>2. [work[s] EXCEPT !.held = {work[s].row}] \in Work
    BY <1>1, <2>1 DEF Work
  <2> QED
    BY <1>4, <2>1, <2>2, LocalStepType DEF ApproveUpdate, Work
<1>5. CASE ApproveRead(s)
  <2> DEFINE fire == Fires(work[s].row)
             reached == Reached(work[s].row, work[s].before)
             w == [work[s] EXCEPT !.fire = fire, !.reached = reached]
  <2>1. work[s].row \in Rows
    BY <1>5 DEF ApproveRead, TypeInv, Prepared
  <2>2. fire \in BOOLEAN
    BY DEF Fires, AllApproved
  <2>3. reached \in SUBSET Flows
    BY <2>1 DEF Reached, NewlyActionable, ApprovedRound, TypeInv, TypeOK, Rows
  <2>4. w \in Work /\ w.row = work[s].row
    <3> HIDE DEF fire, reached
    <3> QED
      BY <1>1, <2>2, <2>3 DEF Work
  <2> QED
    BY <1>5, <2>1, <2>4, LocalStepType DEF ApproveRead
<1>6. CASE SplitUpdate(s)
  <2>1. [work[s] EXCEPT !.held = ExistingRows] \in Work
    BY <1>1 DEF Work, ExistingRows
  <2> QED
    BY <1>6, <2>1, LocalStepType DEF SplitUpdate
<1> QED
  BY <1>2, <1>3, <1>4, <1>5, <1>6

(* A step that leaves the local variables of every session alone. *)
LEMMA SubmissionType ==
  ASSUME TypeInv, NEW s \in Sessions, NEW u \in Users,
         \/ \E value \in {"draft", "submitted"} : Create(s, u, value)
         \/ SubmitForApproval(s, u)
  PROVE  TypeInv'
<1>1. entity' \in EntityStatus /\ UNCHANGED <<approvedAt, fired, children, told, local>>
  BY DEF Create, SubmitForApproval, EntityStatus
<1>2. OpenRound(u) \/ UNCHANGED <<status, rounds>>
  BY DEF Create, SubmitForApproval
<1>3. TypeOK'
  <2>1. CASE OpenRound(u)
    BY <1>1, <2>1, OpenRoundType DEF TypeInv, TypeOK, local
  <2>2. CASE UNCHANGED <<status, rounds>>
    BY <1>1, <2>2 DEF TypeInv, TypeOK, local, rounds
  <2> QED
    BY <1>2, <2>1, <2>2
<1>4. Prepared'
  BY <1>1 DEF TypeInv, Prepared, local
<1> QED
  BY <1>3, <1>4 DEF TypeInv
(* The writes of an approval keep the rows, the record and the counts typed. *)
LEMMA WriteApprovalType ==
  ASSUME TypeInv, NEW row \in Rows, NEW fire \in BOOLEAN, NEW entry, WriteApproval(row, fire, entry)
  PROVE  /\ status' \in [Rounds -> [Flows -> RequestStatus \cup {NoRow}]]
         /\ approvedAt' \in BOOLEAN /\ entity' \in EntityStatus /\ fired' \in 0..2
<1> USE DEF TypeInv, TypeOK
<1>1. status' \in [Rounds -> [Flows -> RequestStatus \cup {NoRow}]]
  BY DEF WriteApproval, Rows, RequestStatus
<1>2. approvedAt' \in BOOLEAN
  BY DEF WriteApproval
<1>3. entity' \in EntityStatus /\ fired' \in 0..2
  BY DEF WriteApproval, EntityStatus, Bump
<1> QED
  BY <1>1, <1>2, <1>3

(* A session that ends its approval, or goes on announcing, is prepared for it. *)
LEMMA AnnouncingPrepared ==
  ASSUME TypeInv, NEW s \in Sessions, NEW w \in Work, w.row \in Rows,
         Done(s) \/ Goto(s, "approve_announcing", w)
  PROVE  pc' \in [Sessions -> Steps] /\ work' \in [Sessions -> Work] /\ Prepared'
<1>1. CASE Done(s)
  BY <1>1, DoneType, DonePrepared DEF TypeInv
<1>2. CASE Goto(s, "approve_announcing", w)
  <2>1. pc' \in [Sessions -> Steps] /\ work' \in [Sessions -> Work]
    BY <1>2, GotoType DEF TypeInv, Steps
  <2>2. /\ pc'[s] = "approve_announcing" /\ work'[s].row \in Rows
        /\ \A t \in Sessions \ {s} : pc'[t] = pc[t] /\ work'[t] = work[t]
    BY <1>2 DEF Goto, TypeInv, TypeOK
  <2> QED
    BY <2>1, <2>2 DEF TypeInv, Prepared, EditSteps
<1> QED
  BY <1>1, <1>2

LEMMA EndApprovalType ==
  ASSUME TypeInv, NEW s \in Sessions, NEW row \in Rows, NEW reached \in SUBSET Flows,
         EndApproval(s, row, reached)
  PROVE  pc' \in [Sessions -> Steps] /\ work' \in [Sessions -> Work] /\ Prepared'
<1> DEFINE w == [Blank EXCEPT !.row = row, !.reached = reached]
<1>1. w \in Work /\ w.row \in Rows
  BY BlankType DEF Work, Blank
<1>2. Done(s) \/ Goto(s, "approve_announcing", w)
  BY DEF EndApproval
<1> HIDE DEF w
<1> QED
  BY <1>1, <1>2, AnnouncingPrepared

(* The steps that end a request. *)
LEMMA ApproveType ==
  ASSUME TypeInv, NEW s \in Sessions, ApproveRest(s) \/ ApproveCommit(s)
  PROVE  TypeInv'
<1>1. work[s].row \in Rows /\ work[s] \in Work
  BY DEF ApproveRest, ApproveCommit, TypeInv, TypeOK, Prepared, RowSteps, DecisionSteps, ApproveSteps
<1>2. \E fire \in BOOLEAN, reached \in SUBSET Flows, entry \in {"rest", "action"} :
        WriteApproval(work[s].row, fire, entry) /\ EndApproval(s, work[s].row, reached)
  <2>1. CASE ApproveRest(s)
    <3>1. Fires(work[s].row) \in BOOLEAN
      BY DEF Fires, AllApproved
    <3>2. Reached(work[s].row, Row(work[s].row)) \in SUBSET Flows
      BY <1>1 DEF Reached, NewlyActionable, ApprovedRound, TypeInv, TypeOK, Rows
    <3> QED
      BY <2>1, <3>1, <3>2 DEF ApproveRest
  <2>2. CASE ApproveCommit(s)
    BY <1>1, <2>2 DEF ApproveCommit, Work
  <2> QED
    BY <2>1, <2>2
<1>3. PICK fire \in BOOLEAN, reached \in SUBSET Flows, entry \in {"rest", "action"} :
        WriteApproval(work[s].row, fire, entry) /\ EndApproval(s, work[s].row, reached)
  BY <1>2
<1>4. TypeOK'
  <2>1. UNCHANGED <<submittedAt, nRounds, requestor, children, told>>
    BY <1>3 DEF WriteApproval, rounds
  <2> QED
    BY <1>1, <1>3, <2>1, WriteApprovalType, EndApprovalType DEF TypeInv, TypeOK
<1> QED
  BY <1>1, <1>3, <1>4, EndApprovalType DEF TypeInv

(* The announcements after an approval, and their loss. *)
LEMMA AnnounceType ==
  ASSUME TypeInv, NEW s \in Sessions, Announce(s) \/ LoseAnnouncement(s)
  PROVE  TypeInv'
<1> USE DEF TypeInv, TypeOK
<1>1. work[s].row \in Rows /\ work[s] \in Work /\ work[s].row[1] \in Rounds
  BY DEF Announce, LoseAnnouncement, Prepared, RowSteps, Rows
<1>2. UNCHANGED <<record, status, rounds, children>>
  BY DEF Announce, LoseAnnouncement
<1>3. told' \in [Rounds -> [Flows -> Announcement]]
  <2>1. CASE Announce(s)
    <3>1. PICK f \in work[s].reached :
             told' = IF status[work[s].row[1]][f] = NoRow THEN told
                     ELSE [told EXCEPT ![work[s].row[1]][f] = "yes"]
      BY <2>1 DEF Announce
    <3> QED
      BY <1>1, <3>1 DEF Announcement, Work
  <2>2. CASE LoseAnnouncement(s)
    BY <1>1, <2>2 DEF LoseAnnouncement, Announcement
  <2> QED
    BY <2>1, <2>2
<1>4. \E w \in Work : w.row \in Rows /\ (Done(s) \/ Goto(s, "approve_announcing", w))
  <2>1. CASE Announce(s)
    <3>1. PICK f \in work[s].reached :
             Done(s) \/ Goto(s, "approve_announcing", [work[s] EXCEPT !.reached = @ \ {f}])
      BY <2>1 DEF Announce
    <3>2. [work[s] EXCEPT !.reached = @ \ {f}] \in Work
      BY <1>1 DEF Work
    <3>3. [work[s] EXCEPT !.reached = @ \ {f}].row = work[s].row
      BY <1>1 DEF Work
    <3> QED
      BY <1>1, <3>1, <3>2, <3>3
  <2>2. CASE LoseAnnouncement(s)
    BY <1>1, <2>2 DEF LoseAnnouncement
  <2> QED
    BY <2>1, <2>2
<1>5. pc' \in [Sessions -> Steps] /\ work' \in [Sessions -> Work] /\ Prepared'
  BY <1>4, AnnouncingPrepared
<1> QED
  BY <1>2, <1>3, <1>5 DEF record, rounds

LEMMA EditCommitType ==
  ASSUME TypeInv, NEW s \in Sessions, EditCommit(s)
  PROVE  TypeInv'
<1>1. Done(s) /\ UNCHANGED <<approvedAt, fired, children, told>>
  BY DEF EditCommit
<1>2. entity' \in EntityStatus /\ work[s].user \in Users
  BY DEF EditCommit, TypeInv, TypeOK, Work, Prepared, EditSteps
<1>3. OpenRound(work[s].user) \/ UNCHANGED <<status, rounds>>
  BY DEF EditCommit
<1>4. TypeOK'
  <2>1. CASE OpenRound(work[s].user)
    BY <1>1, <1>2, <2>1, OpenRoundType, DoneType DEF TypeInv, TypeOK
  <2>2. CASE UNCHANGED <<status, rounds>>
    BY <1>1, <1>2, <2>2, DoneType DEF TypeInv, TypeOK, rounds
  <2> QED
    BY <1>3, <2>1, <2>2
<1> QED
  BY <1>1, <1>4, DonePrepared DEF TypeInv

LEMMA RejectType ==
  ASSUME TypeInv, NEW s \in Sessions, Reject(s)
  PROVE  TypeInv'
<1>1. Done(s) /\ UNCHANGED <<rounds, children, told>>
  BY DEF Reject
<1>2. work[s].row \in Rows
  BY DEF Reject, TypeInv, Prepared, RowSteps, DecisionSteps
<1>3. status' \in [Rounds -> [Flows -> RequestStatus \cup {NoRow}]]
  <2>1. ASSUME NEW terminal
        PROVE  RejectedRound(work[s].row, terminal) \in [Flows -> RequestStatus \cup {NoRow}]
    BY <1>2 DEF RejectedRound, RequestStatus, TypeInv, TypeOK, Rows
  <2> QED
    BY <1>2, <2>1 DEF Reject, TypeInv, TypeOK
<1>4. entity' \in EntityStatus /\ approvedAt' \in BOOLEAN /\ fired' \in 0..2
  BY DEF Reject, Bump, EntityStatus, TypeInv, TypeOK
<1>5. TypeOK'
  BY <1>1, <1>3, <1>4, DoneType DEF TypeInv, TypeOK, rounds
<1> QED
  BY <1>1, <1>5, DonePrepared DEF TypeInv

(* The current round is one of the rounds that were created. *)
LEMMA LatestIsCreated ==
  ASSUME TypeOK, NEW r \in LatestRounds
  PROVE  r \in Rounds /\ r \in 1..nRounds
<1>1. r \in CreatedRounds
  BY DEF LatestRounds
<1> QED
  BY <1>1, BoundAssumption DEF CreatedRounds, Rounds, TypeOK

LEMMA OtherEndsType ==
  ASSUME TypeInv, NEW s \in Sessions,
         Withdraw(s) \/ SplitCommit(s) \/ Delete(s) \/ Refuse(s) \/ Abort(s)
  PROVE  TypeInv'
<1>1. Done(s) /\ UNCHANGED <<rounds, approvedAt, fired, told>>
  BY DEF Withdraw, SplitCommit, Delete, Refuse, Abort, record
<1>2. status' \in [Rounds -> [Flows -> RequestStatus \cup {NoRow}]]
  <2>1. CASE Withdraw(s)
    <3>1. PICK r \in LatestRounds : status' = [status EXCEPT ![r] = WithdrawnRound(r)]
      BY <2>1 DEF Withdraw
    <3>2. r \in Rounds
      BY LatestIsCreated DEF TypeInv
    <3>3. WithdrawnRound(r) \in [Flows -> RequestStatus \cup {NoRow}]
      BY <3>2 DEF WithdrawnRound, RequestStatus, TypeInv, TypeOK
    <3> QED
      BY <3>1, <3>3 DEF TypeInv, TypeOK
  <2>2. CASE SplitCommit(s)
    BY <2>2 DEF SplitCommit, RequestStatus, TypeInv, TypeOK
  <2>3. CASE Delete(s)
    BY <2>3 DEF Delete
  <2>4. CASE Refuse(s) \/ Abort(s)
    BY <2>4 DEF Refuse, Abort, TypeInv, TypeOK
  <2> QED
    BY <2>1, <2>2, <2>3, <2>4
<1>3. entity' \in EntityStatus
  BY DEF Withdraw, SplitCommit, Delete, Refuse, Abort, record, OnWithdrawn, EntityStatus,
         TypeInv, TypeOK
<1>4. children' \in [Flows -> 0..MaxRounds]
  BY DEF Withdraw, SplitCommit, Delete, Refuse, Abort, TypeInv, TypeOK, Work
<1>5. TypeOK'
  BY <1>1, <1>2, <1>3, <1>4, DoneType DEF TypeInv, TypeOK, rounds
<1> QED
  BY <1>1, <1>5, DonePrepared DEF TypeInv

(* The initial state is well typed. *)
LEMMA InitType == Init => TypeInv
<1> SUFFICES ASSUME Init PROVE TypeInv
  OBVIOUS
<1>1. TypeOK
  <2>1. [r \in Rounds |-> [f \in Flows |-> NoRow]] \in [Rounds -> [Flows -> RequestStatus \cup {NoRow}]]
    OBVIOUS
  <2>2. [f \in Flows |-> 0] \in [Flows -> 0..MaxRounds]
    BY BoundAssumption
  <2>3. /\ status \in [Rounds -> [Flows -> RequestStatus \cup {NoRow}]]
        /\ children \in [Flows -> 0..MaxRounds]
        /\ nRounds \in 0..MaxRounds
    BY <2>1, <2>2, BoundAssumption DEF Init
  <2>4. submittedAt \in [Rounds -> Nat] /\ told \in [Rounds -> [Flows -> Announcement]]
    BY DEF Init, Announcement
  <2>5. pc \in [Sessions -> Steps] /\ work \in [Sessions -> Work]
    BY BlankType DEF Init, Steps
  <2>6. entity \in EntityStatus /\ approvedAt \in BOOLEAN /\ fired \in 0..2
    <3>1. entity = "absent" /\ fired = 0
      BY DEF Init
    <3>2. approvedAt \in BOOLEAN
      BY Zenon DEF Init
    <3> QED
      BY <3>1, <3>2 DEF EntityStatus
  <2>7. requestor \in Users \cup {NoUser}
    BY DEF Init
  <2> QED
    BY <2>3, <2>4, <2>5, <2>6, <2>7 DEF TypeOK
<1>2. Prepared
  BY DEF Init, Prepared, RowSteps, DecisionSteps, ApproveSteps, EditSteps
<1> QED
  BY <1>1, <1>2 DEF TypeInv

(* Every step keeps the state well typed. *)
LEMMA NextType == TypeInv /\ [Next]_vars => TypeInv'
<1> SUFFICES ASSUME TypeInv, [Next]_vars PROVE TypeInv'
  OBVIOUS
<1>1. CASE UNCHANGED vars
  BY <1>1 DEF TypeInv, TypeOK, Prepared, vars, record, rounds, local
<1>2. ASSUME NEW s \in Sessions, Start(s)
      PROVE  TypeInv'
  BY <1>2, SubmissionType, EditBeginType, CheckType, OtherChecksType DEF Start
<1>3. ASSUME NEW s \in Sessions, Continue(s)
      PROVE  TypeInv'
  BY <1>3, MiddleStepType, ApproveType, AnnounceType, EditCommitType, RejectType, OtherEndsType DEF Continue
<1>4. ASSUME NEW s \in Sessions, Fail(s)
      PROVE  TypeInv'
  BY <1>4, AnnounceType, OtherEndsType DEF Fail
<1> QED
  BY <1>1, <1>2, <1>3, <1>4 DEF Next

(* The inductive invariant on which every later theorem builds. *)
LEMMA TypeInvHolds == Spec => []TypeInv
BY InitType, NextType, PTL DEF Spec

(* Every variable stays in its range, for every set of flows, users and     *)
(* sessions, with every interleaving of the handlers.                       *)
THEOREM TypeCorrect == Spec => []TypeOK
<1>1. TypeInv => TypeOK
  BY DEF TypeInv
<1> QED
  BY <1>1, TypeInvHolds, PTL

-----------------------------------------------------------------------------
(* At most one round is open. *)

(* The rounds were created at growing seconds, so that the current round is *)
(* the one created last; only that one may be open; and a record that does  *)
(* not exist yet has none.                                                  *)
Growing == \A r, q \in 1..nRounds : r < q => submittedAt[r] < submittedAt[q]
LastOpen == \A r \in Rounds : Open(r) => r = nRounds
Unborn == entity = "absent" => nRounds = 0
RoundInv == TypeInv /\ Growing /\ LastOpen /\ Unborn

(* A submission that finds the current round closed finds every round closed. *)
LEMMA CanSubmitMeansClosed ==
  ASSUME RoundInv, NEW statuses \in LatestStatuses, canSubmitForApproval(statuses)
  PROVE  \A r \in Rounds : ~Open(r)
<1>1. nRounds \in 0..MaxRounds /\ MaxRounds \in Nat /\ LastOpen
      /\ submittedAt \in [Rounds -> Nat] /\ status \in [Rounds -> [Flows -> RequestStatus \cup {NoRow}]]
  BY BoundAssumption DEF RoundInv, TypeInv, TypeOK
<1>2. CASE nRounds = 0
  BY <1>1, <1>2 DEF LastOpen, Rounds
<1>3. CASE nRounds # 0
  <2>1. PICK r \in LatestRounds : statuses = RowStatuses(status[r])
    BY <1>3 DEF LatestStatuses
  <2>2. r \in 1..nRounds /\ nRounds \in 1..nRounds
    BY <1>1, <1>3, <2>1, LatestIsCreated DEF RoundInv, TypeInv
  <2>3. submittedAt[nRounds] <= submittedAt[r]
    BY <2>1, <2>2 DEF LatestRounds, CreatedRounds
  <2>4. r = nRounds
    <3>1. r < nRounds => submittedAt[r] < submittedAt[nRounds]
      BY <2>2 DEF RoundInv, Growing
    <3>2. submittedAt[r] \in Nat /\ submittedAt[nRounds] \in Nat
      BY <1>1, <2>2 DEF Rounds
    <3> QED
      BY <1>1, <2>2, <2>3, <3>1, <3>2
  <2>5. "pending" \notin RowStatuses(status[nRounds])
    BY <2>1, <2>4 DEF canSubmitForApproval
  <2>6. nRounds \in Rounds
    BY <1>1, <1>3 DEF Rounds
  <2>7. ~Open(nRounds)
    BY <1>1, <2>5, <2>6 DEF RowStatuses, Open, NoRow
  <2> QED
    BY <1>1, <2>7 DEF LastOpen
<1> QED
  BY <1>2, <1>3

(* A round opened when all others are closed is the last and the only open one. *)
LEMMA OpenRoundKeeps ==
  ASSUME RoundInv, ~SameSecond, NEW u \in Users, OpenRound(u), \A r \in Rounds : ~Open(r)
  PROVE  Growing' /\ LastOpen'
<1>1. CASE FlowsFor[u] = {}
  BY <1>1 DEF OpenRound, RoundInv, Growing, LastOpen, Open, rounds
<1>2. CASE FlowsFor[u] # {}
  <2>1. nRounds \in 0..MaxRounds /\ MaxRounds \in Nat /\ nRounds < MaxRounds
        /\ submittedAt \in [Rounds -> Nat]
    BY <1>2, BoundAssumption DEF RoundInv, TypeInv, TypeOK, OpenRound
  <2>2. nRounds' = nRounds + 1 /\ nRounds + 1 \in Rounds
    BY <1>2, <2>1 DEF OpenRound, Rounds
  <2>3. submittedAt' = [submittedAt EXCEPT ![nRounds + 1] = LastSecond + 1]
    BY <1>2 DEF OpenRound
  <2>4. LastOpen'
    <3> SUFFICES ASSUME NEW r \in Rounds, Open(r)', r # nRounds + 1 PROVE FALSE
      BY <2>2 DEF LastOpen, Rounds
    <3>1. status'[r] = status[r]
      BY <1>2 DEF OpenRound, RoundInv, TypeInv, TypeOK
    <3> QED
      BY <3>1 DEF Open
  <2>5. Growing'
    <3> SUFFICES ASSUME NEW r \in 1..nRounds', NEW q \in 1..nRounds', r < q
                 PROVE  submittedAt'[r] < submittedAt'[q]
      BY DEF Growing
    <3>1. r \in 1..nRounds /\ r \in Rounds /\ submittedAt'[r] = submittedAt[r]
      BY <2>1, <2>2, <2>3 DEF Rounds
    <3>2. CASE q \in 1..nRounds
      <4>1. submittedAt'[q] = submittedAt[q]
        BY <2>1, <2>2, <2>3, <3>2 DEF Rounds
      <4> QED
        BY <3>1, <3>2, <4>1 DEF RoundInv, Growing
    <3>3. CASE q = nRounds + 1
      <4>1. LastSecond = submittedAt[nRounds] /\ nRounds \in 1..nRounds /\ nRounds \in Rounds
        BY <2>1, <3>1 DEF LastSecond, Rounds
      <4>2. submittedAt[r] <= submittedAt[nRounds]
        <5>1. r < nRounds => submittedAt[r] < submittedAt[nRounds]
          BY <3>1, <4>1 DEF RoundInv, Growing
        <5> QED
          BY <2>1, <3>1, <4>1, <5>1
      <4>3. submittedAt'[q] = submittedAt[nRounds] + 1
        BY <2>1, <2>2, <2>3, <3>3, <4>1
      <4> QED
        BY <2>1, <3>1, <4>1, <4>2, <4>3
    <3> QED
      BY <2>1, <2>2, <3>2, <3>3
  <2> QED
    BY <2>4, <2>5
<1> QED
  BY <1>1, <1>2

(* A step that opens no round and sets no row to pending keeps the invariant. *)
LEMMA NothingOpenedKeeps ==
  ASSUME RoundInv, UNCHANGED <<submittedAt, nRounds>>,
         \A r \in Rounds, f \in Flows : status'[r][f] = "pending" => status[r][f] = "pending",
         entity' = "absent" => entity = "absent"
  PROVE  Growing' /\ LastOpen' /\ Unborn'
BY DEF RoundInv, Growing, LastOpen, Unborn, Open

(* Which steps those are: all but the submissions. *)
NothingOpened ==
  /\ UNCHANGED <<submittedAt, nRounds>>
  /\ \A r \in Rounds, f \in Flows : status'[r][f] = "pending" => status[r][f] = "pending"
  /\ entity' = "absent" => entity = "absent"

LEMMA LocalStepOpensNothing ==
  ASSUME UNCHANGED <<record, status, rounds, children, told>>
  PROVE  NothingOpened
BY DEF NothingOpened, record, rounds

LEMMA ApproveOpensNothing ==
  ASSUME TypeInv, NEW row, NEW fire, NEW entry, WriteApproval(row, fire, entry)
  PROVE  NothingOpened
<1>1. UNCHANGED <<submittedAt, nRounds>> /\ (entity' = "absent" => entity = "absent")
  BY DEF WriteApproval, rounds
<1>2. ASSUME NEW r \in Rounds, NEW f \in Flows, status'[r][f] = "pending"
      PROVE  status[r][f] = "pending"
  BY <1>2 DEF WriteApproval, TypeInv, TypeOK
<1> QED
  BY <1>1, <1>2 DEF NothingOpened

LEMMA AnnounceOpensNothing ==
  ASSUME NEW s \in Sessions, Announce(s) \/ LoseAnnouncement(s)
  PROVE  NothingOpened
BY DEF NothingOpened, Announce, LoseAnnouncement, record, rounds

LEMMA RejectOpensNothing ==
  ASSUME TypeInv, NEW s \in Sessions, Reject(s)
  PROVE  NothingOpened
<1>1. UNCHANGED <<submittedAt, nRounds>> /\ (entity' = "absent" => entity = "absent")
  BY DEF Reject, rounds
<1>2. PICK terminal : status' = [status EXCEPT ![work[s].row[1]] = RejectedRound(work[s].row, terminal)]
  BY DEF Reject
<1>3. ASSUME NEW r \in Rounds, NEW f \in Flows, status'[r][f] = "pending"
      PROVE  status[r][f] = "pending"
  <2>1. CASE r = work[s].row[1]
    <3>1. RejectedRound(work[s].row, terminal)[f] = "pending"
      BY <1>2, <1>3, <2>1 DEF TypeInv, TypeOK
    <3>2. CASE f = work[s].row[2]
      BY <3>1, <3>2 DEF RejectedRound
    <3>3. CASE f # work[s].row[2]
      BY <2>1, <3>1, <3>3 DEF RejectedRound
    <3> QED
      BY <3>2, <3>3
  <2>2. CASE r # work[s].row[1]
    BY <1>2, <1>3, <2>2 DEF TypeInv, TypeOK
  <2> QED
    BY <2>1, <2>2
<1> QED
  BY <1>1, <1>3 DEF NothingOpened

LEMMA OtherEndsOpenNothing ==
  ASSUME TypeInv, NEW s \in Sessions, Withdraw(s) \/ SplitCommit(s) \/ Delete(s)
  PROVE  NothingOpened
<1>1. UNCHANGED <<submittedAt, nRounds>> /\ (entity' = "absent" => entity = "absent")
  BY DEF Withdraw, SplitCommit, Delete, OnWithdrawn, rounds
<1>2. ASSUME NEW r \in Rounds, NEW f \in Flows, status'[r][f] = "pending"
      PROVE  status[r][f] = "pending"
  <2>1. CASE Withdraw(s)
    <3>1. PICK q \in LatestRounds : status' = [status EXCEPT ![q] = WithdrawnRound(q)]
      BY <2>1 DEF Withdraw
    <3>2. CASE r = q
      BY <1>2, <3>1, <3>2 DEF WithdrawnRound, TypeInv, TypeOK
    <3>3. CASE r # q
      BY <1>2, <3>1, <3>3 DEF TypeInv, TypeOK
    <3> QED
      BY <3>2, <3>3
  <2>2. CASE SplitCommit(s)
    BY <1>2, <2>2 DEF SplitCommit
  <2>3. CASE Delete(s)
    BY <1>2, <2>3 DEF Delete, NoRow
  <2> QED
    BY <2>1, <2>2, <2>3
<1> QED
  BY <1>1, <1>2 DEF NothingOpened

(* The three ways to submit a record: at its creation, by the submit action *)
(* and by an edit that moves it to the submit value.                        *)
LEMMA SubmissionKeeps ==
  ASSUME RoundInv, ~SameSecond, NEW s \in Sessions,
         \/ \E u \in Users, value \in {"draft", "submitted"} : Create(s, u, value)
         \/ \E u \in Users : SubmitForApproval(s, u)
         \/ EditCommit(s)
  PROVE  Growing' /\ LastOpen' /\ Unborn'
<1>1. entity' # "absent"
  BY DEF Create, SubmitForApproval, EditCommit, RoundInv, TypeInv, Prepared, EditSteps
<1>2. \/ UNCHANGED <<status, rounds>>
      \/ \E u \in Users : OpenRound(u) /\ \A r \in Rounds : ~Open(r)
  <2>1. ASSUME NEW u \in Users, NEW value \in {"draft", "submitted"}, Create(s, u, value)
        PROVE  <1>2!1 \/ <1>2!2
    <3>1. \A r \in Rounds : ~Open(r)
      BY <2>1, BoundAssumption DEF Create, RoundInv, Unborn, LastOpen, Rounds
    <3> QED
      BY <2>1, <3>1 DEF Create
  <2>2. ASSUME NEW u \in Users, SubmitForApproval(s, u)
        PROVE  <1>2!1 \/ <1>2!2
    BY <2>2, CanSubmitMeansClosed DEF SubmitForApproval
  <2>3. ASSUME EditCommit(s)
        PROVE  <1>2!1 \/ <1>2!2
    <3>1. work[s].user \in Users
      BY <2>3 DEF EditCommit, RoundInv, TypeInv, Prepared, EditSteps
    <3>2. PICK statuses \in LatestStatuses :
            \/ canSubmitForApproval(statuses) /\ OpenRound(work[s].user)
            \/ UNCHANGED <<status, rounds>>
      BY <2>3 DEF EditCommit
    <3> QED
      BY <3>1, <3>2, CanSubmitMeansClosed
  <2> QED
    BY <2>1, <2>2, <2>3
<1>3. Growing' /\ LastOpen'
  <2>1. CASE UNCHANGED <<status, rounds>>
    BY <2>1 DEF RoundInv, Growing, LastOpen, Open, rounds
  <2> QED
    BY <1>2, <2>1, OpenRoundKeeps
<1> QED
  BY <1>1, <1>3 DEF Unborn

LEMMA NextKeepsRounds ==
  ASSUME ~SameSecond, RoundInv, [Next]_vars
  PROVE  RoundInv'
<1>1. TypeInv /\ TypeInv'
  BY NextType DEF RoundInv
<1>2. ASSUME NothingOpened
      PROVE  Growing' /\ LastOpen' /\ Unborn'
  BY <1>2, NothingOpenedKeeps DEF NothingOpened
<1>3. CASE UNCHANGED vars
  BY <1>1, <1>2, <1>3, LocalStepOpensNothing DEF vars, RoundInv
<1>4. ASSUME NEW s \in Sessions, Start(s)
      PROVE  Growing' /\ LastOpen' /\ Unborn'
  <2>1. ASSUME NEW u \in Users, NEW value \in {"draft", "submitted"}, Create(s, u, value)
        PROVE  Growing' /\ LastOpen' /\ Unborn'
    BY <2>1, SubmissionKeeps
  <2>2. ASSUME NEW u \in Users, SubmitForApproval(s, u)
        PROVE  Growing' /\ LastOpen' /\ Unborn'
    BY <2>2, SubmissionKeeps
  <2>3. ASSUME NEW u \in Users, NEW value \in PayloadValues(entity), EditBegin(s, u, value)
        PROVE  NothingOpened
    BY <2>3, LocalStepOpensNothing DEF EditBegin
  <2>4. ASSUME NEW row \in Rows, NEW entry \in EntryPoints,
               CheckApprove(s, row, entry) \/ CheckReject(s, row, entry)
        PROVE  NothingOpened
    BY <2>4, LocalStepOpensNothing DEF CheckApprove, CheckReject
  <2>5. ASSUME CheckWithdraw(s) \/ CheckSplit(s) \/ CheckDelete(s)
        PROVE  NothingOpened
    BY <2>5, LocalStepOpensNothing DEF CheckWithdraw, CheckSplit, CheckDelete
  <2> QED
    BY <1>2, <1>4, <2>1, <2>2, <2>3, <2>4, <2>5 DEF Start
<1>5. ASSUME NEW s \in Sessions, Continue(s)
      PROVE  Growing' /\ LastOpen' /\ Unborn'
  <2>1. ASSUME EditCommit(s)
        PROVE  Growing' /\ LastOpen' /\ Unborn'
    BY <2>1, SubmissionKeeps
  <2>2. ASSUME EditUpdate(s) \/ ApproveBegin(s) \/ ApproveUpdate(s) \/ ApproveRead(s)
               \/ SplitUpdate(s) \/ Refuse(s)
        PROVE  NothingOpened
    BY <2>2, LocalStepOpensNothing
    DEF EditUpdate, ApproveBegin, ApproveUpdate, ApproveRead, SplitUpdate, Refuse
  <2>3. ASSUME ApproveRest(s) \/ ApproveCommit(s)
        PROVE  NothingOpened
    BY <1>1, <2>3, ApproveOpensNothing DEF ApproveRest, ApproveCommit
  <2>6. ASSUME Announce(s)
        PROVE  NothingOpened
    BY <2>6, AnnounceOpensNothing
  <2>4. ASSUME Reject(s)
        PROVE  NothingOpened
    BY <1>1, <2>4, RejectOpensNothing
  <2>5. ASSUME Withdraw(s) \/ SplitCommit(s) \/ Delete(s)
        PROVE  NothingOpened
    BY <1>1, <2>5, OtherEndsOpenNothing
  <2> QED
    BY <1>2, <1>5, <2>1, <2>2, <2>3, <2>4, <2>5, <2>6 DEF Continue
<1>6. ASSUME NEW s \in Sessions, Fail(s)
      PROVE  Growing' /\ LastOpen' /\ Unborn'
  BY <1>2, <1>6, LocalStepOpensNothing, AnnounceOpensNothing DEF Fail, Abort
<1> QED
  BY <1>1, <1>3, <1>4, <1>5, <1>6 DEF Next, RoundInv

LEMMA InitRounds == Init => RoundInv
<1> SUFFICES ASSUME Init PROVE RoundInv
  OBVIOUS
<1>1. TypeInv
  BY InitType
<1>2. nRounds = 0 /\ status = [r \in Rounds |-> [f \in Flows |-> NoRow]]
  BY DEF Init
<1>3. Growing /\ Unborn /\ LastOpen
  BY <1>2 DEF Growing, Unborn, LastOpen, Open, NoRow
<1> QED
  BY <1>1, <1>3 DEF RoundInv

(* If no two rounds share a creation second, at most one round of a record  *)
(* ever awaits decisions: the edit, the submit action and the creation each *)
(* open a round only when the current round is closed, and every other      *)
(* handler only closes rows.                                                *)
THEOREM OneRoundOpen ==
  ASSUME ~SameSecond
  PROVE  Spec => []OneOpenRound
<1>1. Init => RoundInv
  BY InitRounds
<1>2. RoundInv /\ [Next]_vars => RoundInv'
  BY NextKeepsRounds
<1>3. RoundInv => OneOpenRound
  BY DEF RoundInv, LastOpen, OneOpenRound
<1> QED
  BY <1>1, <1>2, <1>3, PTL DEF Spec

-----------------------------------------------------------------------------
(* The final effect and the announcements. *)

(* No commit falls between the two halves of an approval: approvers use the *)
(* Serializable REST route, or requests do not overlap at all.              *)
Undisturbed == EntryPoints \subseteq {"rest"} \/ \A s, t \in Sessions : s = t

(* A session that acts on a row came through an entry point there is, and   *)
(* what a server action has read is still so.                               *)
Entered ==
  \A s \in Sessions :
    /\ pc[s] \in DecisionSteps => work[s].entry \in EntryPoints
    /\ pc[s] \in ApproveSteps => work[s].entry = "action"

UpToDate ==
  \A s \in Sessions :
    /\ pc[s] \in ApproveSteps =>
         Row(work[s].row) # NoRow /\ work[s].before = Row(work[s].row)
    /\ pc[s] = "approve_read" =>
         /\ work[s].fire = Fires(work[s].row)
         /\ work[s].reached = Reached(work[s].row, Row(work[s].row))

SessionInv == TypeInv /\ Entered /\ UpToDate

LEMMA InitSession == Init => SessionInv
BY InitType DEF SessionInv, Entered, UpToDate, Init, DecisionSteps, ApproveSteps

(* A step leaves the sessions that did not take it alone. *)
LEMMA OthersStay ==
  ASSUME TypeInv, NEW s \in Sessions, Start(s) \/ Continue(s) \/ Fail(s)
  PROVE  \A t \in Sessions \ {s} : pc'[t] = pc[t] /\ work'[t] = work[t]
<1>1. (\E step \in Steps : \E w : Goto(s, step, w)) \/ UNCHANGED local
  BY DEF Start, Continue, Fail, Abort, Announce, LoseAnnouncement, EndApproval, Create, SubmitForApproval, EditBegin, CheckApprove, CheckReject,
     CheckWithdraw, CheckSplit, CheckDelete, EditUpdate, EditCommit, ApproveRest, ApproveBegin,
     ApproveUpdate, ApproveRead, ApproveCommit, Reject, Withdraw, SplitUpdate, SplitCommit,
     Delete, Refuse, Done, Steps
<1> QED
  BY <1>1 DEF Goto, local, TypeInv, TypeOK

(* The step a session is at after one of its own. *)
LEMMA OwnStep ==
  ASSUME TypeInv, NEW s \in Sessions, Start(s) \/ Continue(s) \/ Fail(s), pc'[s] \in DecisionSteps
  PROVE  \/ /\ pc'[s] \in {"approve_checked", "reject_checked"}
            /\ work'[s].entry \in EntryPoints
         \/ ApproveBegin(s) \/ ApproveUpdate(s) \/ ApproveRead(s)
<1> USE DEF TypeInv, TypeOK, Goto, DecisionSteps, ApproveSteps
<1>1. CASE Start(s)
  <2>1. ASSUME NEW row \in Rows, NEW entry \in EntryPoints,
               CheckApprove(s, row, entry) \/ CheckReject(s, row, entry)
        PROVE  pc'[s] \in {"approve_checked", "reject_checked"} /\ work'[s].entry \in EntryPoints
    BY <2>1 DEF CheckApprove, CheckReject, Blank
  <2>2. ASSUME NEW u \in Users, NEW value \in PayloadValues(entity), EditBegin(s, u, value)
        PROVE  FALSE
    BY <2>2 DEF EditBegin
  <2>3. ~CheckWithdraw(s) /\ ~CheckSplit(s) /\ ~CheckDelete(s)
    BY DEF CheckWithdraw, CheckSplit, CheckDelete
  <2>4. ASSUME NEW u \in Users, NEW value \in {"draft", "submitted"},
               Create(s, u, value) \/ SubmitForApproval(s, u)
        PROVE  FALSE
    BY <2>4 DEF Create, SubmitForApproval, local
  <2> QED
    BY <1>1, <2>1, <2>2, <2>3, <2>4 DEF Start
<1>2. CASE Continue(s)
  <2>1. ~Done(s)
    BY DEF Done
  <2>2. ~EditUpdate(s) /\ ~SplitUpdate(s)
    BY DEF EditUpdate, SplitUpdate
  <2>3. ASSUME NEW row, NEW reached, EndApproval(s, row, reached)
        PROVE  FALSE
    BY <2>1, <2>3 DEF EndApproval
  <2>4. ~Announce(s)
    BY <2>1 DEF Announce
  <2> QED
    BY <1>2, <2>1, <2>2, <2>3, <2>4
    DEF Continue, EditCommit, ApproveRest, ApproveCommit, Reject, Withdraw, SplitCommit, Delete, Refuse
<1>3. CASE Fail(s)
  BY <1>3 DEF Fail, Abort, LoseAnnouncement, Done
<1> QED
  BY <1>1, <1>2, <1>3

LEMMA NextEntered ==
  ASSUME TypeInv, Entered, NEW s \in Sessions, Start(s) \/ Continue(s) \/ Fail(s)
  PROVE  Entered'
<1> SUFFICES ASSUME NEW t \in Sessions, pc'[t] \in DecisionSteps
             PROVE  /\ work'[t].entry \in EntryPoints
                    /\ pc'[t] \in ApproveSteps => work'[t].entry = "action"
  BY DEF Entered, DecisionSteps
<1>1. CASE t # s
  BY <1>1, OthersStay DEF Entered
<1>2. CASE t = s
  <2>1. CASE pc'[s] \in {"approve_checked", "reject_checked"} /\ work'[s].entry \in EntryPoints
    BY <1>2, <2>1 DEF ApproveSteps
  <2>2. CASE ApproveBegin(s) \/ ApproveUpdate(s) \/ ApproveRead(s)
    <3>1. pc[s] \in DecisionSteps /\ work[s].entry = "action"
      BY <2>2 DEF ApproveBegin, ApproveUpdate, ApproveRead, DecisionSteps, ApproveSteps, Entered
    <3>2. work'[s].entry = work[s].entry
      <4>1. work[s] \in Work /\ work \in [Sessions -> Work]
        BY DEF TypeInv, TypeOK
      <4>2. ApproveBegin(s) => work'[s].entry = work[s].entry
        BY <4>1 DEF ApproveBegin, Goto, Work
      <4>3. ApproveUpdate(s) => work'[s].entry = work[s].entry
        BY <4>1 DEF ApproveUpdate, Goto, Work
      <4>4. ApproveRead(s) => work'[s].entry = work[s].entry
        BY <4>1 DEF ApproveRead, Goto, Work
      <4> QED
        BY <2>2, <4>2, <4>3, <4>4
    <3> QED
      BY <1>2, <3>1, <3>2 DEF Entered
  <2> QED
    BY <1>2, <2>1, <2>2, OwnStep
<1> QED
  BY <1>1, <1>2

LEMMA NextUpToDate ==
  ASSUME Undisturbed, SessionInv, NEW s \in Sessions, Start(s) \/ Continue(s) \/ Fail(s)
  PROVE  UpToDate'
<1> SUFFICES ASSUME NEW t \in Sessions, pc'[t] \in ApproveSteps
             PROVE  /\ Row(work[t].row)' # NoRow /\ work'[t].before = Row(work[t].row)'
                    /\ pc'[t] = "approve_read" =>
                         /\ work'[t].fire = Fires(work[t].row)'
                         /\ work'[t].reached = Reached(work[t].row, Row(work[t].row))'
  BY DEF UpToDate, ApproveSteps
<1> USE DEF SessionInv
<1>1. t = s
  <2>1. CASE EntryPoints \subseteq {"rest"}
    BY <2>1, NextEntered DEF Entered, DecisionSteps
  <2> QED
    BY <2>1 DEF Undisturbed
<1> DEFINE row == work[s].row
<1>2. CASE ApproveBegin(s)
  BY <1>1, <1>2 DEF ApproveBegin, Goto, Row, record, TypeInv, TypeOK, Work
<1>3. CASE ApproveUpdate(s)
  <2>1. Row(row) # NoRow /\ work[s].before = Row(row)
    BY <1>3 DEF ApproveUpdate, UpToDate, ApproveSteps
  <2>2. UNCHANGED status /\ work'[s].row = row /\ work'[s].before = work[s].before
        /\ pc'[s] # "approve_read"
    BY <1>3 DEF ApproveUpdate, Goto, TypeInv, TypeOK, Work
  <2> QED
    BY <1>1, <2>1, <2>2 DEF Row
<1>4. CASE ApproveRead(s)
  <2>1. Row(row) # NoRow /\ work[s].before = Row(row)
    BY <1>4 DEF ApproveRead, UpToDate, ApproveSteps
  <2>2. /\ UNCHANGED <<status, approvedAt>> /\ work'[s].row = row /\ work'[s].before = work[s].before
        /\ work'[s].fire = Fires(row) /\ work'[s].reached = Reached(row, work[s].before)
    BY <1>4 DEF ApproveRead, Goto, TypeInv, TypeOK, Work, record
  <2> QED
    BY <1>1, <2>1, <2>2 DEF Row, Fires, Reached, ApprovedRound
<1>5. ApproveBegin(s) \/ ApproveUpdate(s) \/ ApproveRead(s)
  BY <1>1, OwnStep DEF DecisionSteps, ApproveSteps
<1> QED
  BY <1>2, <1>3, <1>4, <1>5

LEMMA NextSession ==
  ASSUME Undisturbed, SessionInv, [Next]_vars
  PROVE  SessionInv'
<1>1. CASE UNCHANGED vars
  BY <1>1, NextType
  DEF vars, record, rounds, local, SessionInv, Entered, UpToDate, Row, Fires, Reached, ApprovedRound
<1>2. ASSUME NEW s \in Sessions, Start(s) \/ Continue(s) \/ Fail(s)
      PROVE  SessionInv'
  BY <1>2, NextType, NextEntered, NextUpToDate DEF SessionInv, Next
<1> QED
  BY <1>1, <1>2 DEF Next

(* An approval decides on the rows and the flag as its commit finds them. *)
LEMMA ApprovalDecides ==
  ASSUME SessionInv, NEW s \in Sessions, ApproveRest(s) \/ ApproveCommit(s)
  PROVE  LET row == work[s].row
         IN  /\ row \in Rows /\ Row(row) # NoRow
             /\ work[s].entry \in EntryPoints
             /\ WriteApproval(row, Fires(row), work[s].entry)
             /\ EndApproval(s, row, Reached(row, Row(row)))
<1>1. pc[s] \in DecisionSteps
  BY DEF ApproveRest, ApproveCommit, DecisionSteps, ApproveSteps
<1> QED
  BY <1>1 DEF SessionInv, TypeInv, Prepared, RowSteps, Entered, UpToDate, ApproveRest, ApproveCommit, ApproveSteps

(* The turn of a flow was announced, or its announcement is on its way or   *)
(* lost.  While the flow has a row, that stays so.                          *)
Announced(r, f) == told[r][f] # "no" \/ AboutToTell(r, f)

LEMMA TurnsByAnnounced ==
  TurnAnnounced <=> \A r \in Rounds, f \in Flows :
                      /\ status[r][f] = "pending" /\ PrecededBy[f] # {}
                      /\ PrecedingApproved(status[r], PrecededBy, f)
                      => Announced(r, f)
BY DEF TurnAnnounced, Announced

(* Only the announcing session says more, and a session that announces      *)
(* does nothing else.                                                       *)
LEMMA ToldStays ==
  ASSUME TypeInv, NEW s \in Sessions, Start(s) \/ Continue(s) \/ Fail(s),
         NEW r \in Rounds, NEW f \in Flows, told[r][f] # "no"
  PROVE  told'[r][f] # "no"
<1>1. UNCHANGED told \/ Announce(s) \/ LoseAnnouncement(s)
  BY DEF Start, Continue, Fail, Abort, Create, SubmitForApproval, EditBegin, CheckApprove, CheckReject,
     CheckWithdraw, CheckSplit, CheckDelete, EditUpdate, EditCommit, ApproveRest, ApproveBegin,
     ApproveUpdate, ApproveRead, ApproveCommit, WriteApproval, Reject, Withdraw, SplitUpdate,
     SplitCommit, Delete, Refuse
<1>2. CASE Announce(s)
  BY <1>2 DEF Announce, TypeInv, TypeOK
<1>3. CASE LoseAnnouncement(s)
  BY <1>3 DEF LoseAnnouncement, TypeInv, TypeOK
<1> QED
  BY <1>1, <1>2, <1>3

LEMMA AnnouncingSteps ==
  ASSUME TypeInv, NEW s \in Sessions, Start(s) \/ Continue(s) \/ Fail(s),
         pc[s] = "approve_announcing"
  PROVE  Announce(s) \/ LoseAnnouncement(s)
BY DEF Start, Continue, Fail, Abort, Create, SubmitForApproval, EditBegin, CheckApprove, CheckReject,
   CheckWithdraw, CheckSplit, CheckDelete, EditUpdate, EditCommit, ApproveRest, ApproveBegin,
   ApproveUpdate, ApproveRead, ApproveCommit, Reject, Withdraw, SplitUpdate, SplitCommit,
   Delete, Refuse

LEMMA AnnouncedStays ==
  ASSUME TypeInv, [Next]_vars, NEW r \in Rounds, NEW f \in Flows,
         Announced(r, f), status'[r][f] # NoRow
  PROVE  Announced(r, f)'
<1>1. CASE UNCHANGED vars
  BY <1>1 DEF vars, local, Announced, AboutToTell
<1>2. ASSUME NEW s \in Sessions, Start(s) \/ Continue(s) \/ Fail(s)
      PROVE  Announced(r, f)'
  <2>1. CASE told[r][f] # "no"
    BY <1>2, <2>1, ToldStays DEF Announced
  <2>2. CASE told[r][f] = "no"
    <3>1. PICK t \in Sessions :
             pc[t] = "approve_announcing" /\ work[t].row[1] = r /\ f \in work[t].reached
      BY <2>2 DEF Announced, AboutToTell
    <3>2. CASE t # s
      BY <1>2, <3>1, <3>2, OthersStay DEF Announced, AboutToTell
    <3>3. CASE t = s /\ Announce(s)
      <4>1. PICK g \in work[s].reached :
               /\ told' = IF status[r][g] = NoRow THEN told ELSE [told EXCEPT ![r][g] = "yes"]
               /\ IF work[s].reached = {g}
                  THEN Done(s)
                  ELSE Goto(s, "approve_announcing", [work[s] EXCEPT !.reached = @ \ {g}])
        BY <3>1, <3>3 DEF Announce
      <4>2. CASE g = f
        <5>1. status[r][f] # NoRow
          BY <3>3 DEF Announce
        <5> QED
          BY <4>1, <4>2, <5>1 DEF Announced, TypeInv, TypeOK
      <4>3. CASE g # f
        <5>1. Goto(s, "approve_announcing", [work[s] EXCEPT !.reached = @ \ {g}])
          BY <3>1, <3>3, <4>1, <4>3
        <5>2. /\ pc'[s] = "approve_announcing"
              /\ work'[s] = [work[s] EXCEPT !.reached = @ \ {g}] /\ work[s] \in Work
          BY <5>1 DEF Goto, TypeInv, TypeOK
        <5>3. work'[s].row[1] = r /\ f \in work'[s].reached
          BY <3>1, <3>3, <4>3, <5>2 DEF Work
        <5> QED
          BY <5>2, <5>3 DEF Announced, AboutToTell
      <4> QED
        BY <4>2, <4>3
    <3>4. CASE t = s /\ LoseAnnouncement(s)
      BY <3>1, <3>4 DEF LoseAnnouncement, Announced, TypeInv, TypeOK
    <3> QED
      BY <1>2, <3>1, <3>2, <3>3, <3>4, AnnouncingSteps
  <2> QED
    BY <2>1, <2>2
<1> QED
  BY <1>1, <1>2 DEF Next

(* A step that approves nothing: a round it changes has no approved row     *)
(* left, or is not complete and gained neither an approved row nor a        *)
(* pending one.                                                             *)
Quiet ==
  \A r \in Rounds :
    \/ status'[r] = status[r]
    \/ \A f \in Flows : status'[r][f] # "approved"
    \/ /\ ~AllApproved(status'[r])
       /\ \A f \in Flows : status'[r][f] \in {"approved", "pending"} => status'[r][f] = status[r][f]

(* The final effect was dispatched at most once, and its flag says so. *)
FiredOnce == fired <= 1 /\ (fired > 0 => approvedAt)
CompleteIsFinal == \A r \in Rounds : AllApproved(status[r]) => approvedAt
EffectInv == SessionInv /\ FiredOnce /\ CompleteIsFinal /\ TurnAnnounced

(* A round is complete when it has a row and all its rows are approved. *)
LEMMA Completed ==
  ASSUME NEW round \in [Flows -> RequestStatus \cup {NoRow}]
  PROVE  AllApproved(round) <=> /\ \E f \in Flows : round[f] = "approved"
                                /\ \A f \in Flows : round[f] \in {"approved", NoRow}
BY DEF AllApproved, RowStatuses, NoRow

LEMMA QuietKeeps ==
  ASSUME EffectInv, TypeInv', [Next]_vars, Quiet, approvedAt => approvedAt'
  PROVE  CompleteIsFinal' /\ TurnAnnounced'
<1> USE DEF EffectInv, SessionInv, TypeInv, TypeOK
<1>1. ASSUME NEW r \in Rounds, AllApproved(status'[r])
      PROVE  approvedAt'
  <2>1. \E f \in Flows : status'[r][f] = "approved"
    BY <1>1, Completed
  <2>2. status'[r] = status[r]
    BY <1>1, <2>1 DEF Quiet
  <2> QED
    BY <1>1, <2>2 DEF EffectInv, CompleteIsFinal
<1>2. ASSUME NEW r \in Rounds, NEW f \in Flows, status'[r][f] = "pending", PrecededBy[f] # {},
             PrecedingApproved(status'[r], PrecededBy, f)
      PROVE  Announced(r, f)'
  <2>1. PrecededBy[f] \subseteq Flows
    BY FlowsAssumption
  <2>2. \E p \in Flows : status'[r][p] = "approved"
    BY <1>2, <2>1 DEF PrecedingApproved
  <2>3. status[r][f] = "pending" /\ \A p \in PrecededBy[f] : status[r][p] = "approved"
    BY <1>2, <2>1, <2>2 DEF Quiet, PrecedingApproved
  <2>4. TypeInv /\ TurnAnnounced
    OBVIOUS
  <2>5. Announced(r, f)
    BY <1>2, <2>3, <2>4, TurnsByAnnounced DEF PrecedingApproved
  <2> QED
    BY <1>2, <2>4, <2>5, AnnouncedStays DEF NoRow
<1> QED
  BY <1>1, <1>2 DEF CompleteIsFinal, TurnAnnounced, Announced

LEMMA OpenRoundQuiet ==
  ASSUME TypeInv, NEW u \in Users, OpenRound(u)
  PROVE  Quiet
<1>1. CASE FlowsFor[u] = {}
  BY <1>1 DEF OpenRound, Quiet
<1>2. CASE FlowsFor[u] # {}
  <2>1. status' = [status EXCEPT ![nRounds + 1] =
                     [f \in Flows |-> IF f \in FlowsFor[u] THEN "pending" ELSE NoRow]]
    BY <1>2 DEF OpenRound
  <2>2. ASSUME NEW r \in Rounds, r = nRounds + 1, NEW f \in Flows
        PROVE  status'[r][f] # "approved"
    BY <2>1, <2>2 DEF TypeInv, TypeOK, NoRow
  <2>3. ASSUME NEW r \in Rounds, r # nRounds + 1
        PROVE  status'[r] = status[r]
    BY <2>1, <2>3 DEF TypeInv, TypeOK
  <2> QED
    BY <2>2, <2>3 DEF Quiet
<1> QED
  BY <1>1, <1>2

LEMMA SubmissionQuiet ==
  ASSUME TypeInv, NEW s \in Sessions,
         \/ \E u \in Users, value \in {"draft", "submitted"} : Create(s, u, value)
         \/ \E u \in Users : SubmitForApproval(s, u)
         \/ EditCommit(s)
  PROVE  Quiet /\ UNCHANGED <<approvedAt, fired>>
<1>1. UNCHANGED <<approvedAt, fired>>
  BY DEF Create, SubmitForApproval, EditCommit
<1>2. UNCHANGED status \/ \E u \in Users : OpenRound(u)
  BY DEF Create, SubmitForApproval, EditCommit, TypeInv, Prepared, EditSteps
<1> QED
  BY <1>1, <1>2, OpenRoundQuiet DEF Quiet

LEMMA RejectQuiet ==
  ASSUME TypeInv, TypeInv', NEW s \in Sessions, Reject(s)
  PROVE  Quiet
<1> DEFINE row == work[s].row
<1> USE DEF TypeInv, TypeOK
<1>1. row \in Rows
  BY DEF Reject, Prepared, RowSteps, DecisionSteps
<1>2. PICK terminal : status' = [status EXCEPT ![row[1]] = RejectedRound(row, terminal)]
  BY DEF Reject
<1>3. row[1] \in Rounds /\ row[2] \in Flows
  BY <1>1 DEF Rows
<1>4. \A f \in Flows : status'[row[1]][f] \in {"approved", "pending"} => status'[row[1]][f] = status[row[1]][f]
  <2> SUFFICES ASSUME NEW f \in Flows, status'[row[1]][f] \in {"approved", "pending"}
               PROVE  status'[row[1]][f] = status[row[1]][f]
    OBVIOUS
  <2>1. status'[row[1]][f] = RejectedRound(row, terminal)[f]
    BY <1>2, <1>3
  <2>2. CASE f = row[2]
    BY <2>1, <2>2 DEF RejectedRound
  <2>3. CASE f # row[2]
    BY <2>1, <2>3 DEF RejectedRound
  <2> QED
    BY <2>2, <2>3
<1>5. status'[row[1]][row[2]] \in {"rejected", "terminal_rejected"}
  BY <1>2, <1>3 DEF RejectedRound
<1>6. ~AllApproved(status'[row[1]])
  BY <1>3, <1>5, Completed DEF NoRow
<1>7. \A r \in Rounds : r # row[1] => status'[r] = status[r]
  BY <1>2
<1> QED
  BY <1>1, <1>4, <1>6, <1>7 DEF Quiet

LEMMA WithdrawQuiet ==
  ASSUME TypeInv, TypeInv', NEW s \in Sessions, Withdraw(s)
  PROVE  Quiet
<1> USE DEF TypeInv, TypeOK
<1>1. PICK r \in LatestRounds : /\ canWithdrawApproval(RowStatuses(status[r]))
                                /\ status' = [status EXCEPT ![r] = WithdrawnRound(r)]
  BY DEF Withdraw
<1>2. r \in Rounds
  BY LatestIsCreated
<1>3. PICK f \in Flows : status[r][f] = "pending"
  BY <1>1, <1>2 DEF canWithdrawApproval, RowStatuses
<1>4. status'[r] = WithdrawnRound(r)
  BY <1>1, <1>2
<1>5. ~AllApproved(status'[r])
  <2>1. status'[r][f] = "withdrawn"
    BY <1>3, <1>4 DEF WithdrawnRound
  <2> QED
    BY <1>2, <2>1, Completed DEF NoRow
<1>6. \A g \in Flows : status'[r][g] \in {"approved", "pending"} => status'[r][g] = status[r][g]
  BY <1>4 DEF WithdrawnRound
<1>7. \A q \in Rounds : q # r => status'[q] = status[q]
  BY <1>1
<1> QED
  BY <1>5, <1>6, <1>7 DEF Quiet, Withdraw

LEMMA SplitQuiet ==
  ASSUME TypeInv, TypeInv', NEW s \in Sessions, SplitCommit(s)
  PROVE  Quiet
<1> USE DEF TypeInv, TypeOK
<1>1. status' = [r \in Rounds |-> [f \in Flows |->
         IF <<r, f>> \in work[s].held THEN "split_invalidated" ELSE status[r][f]]]
  BY DEF SplitCommit
<1>2. ASSUME NEW r \in Rounds, \A f \in Flows : <<r, f>> \notin work[s].held
      PROVE  status'[r] = status[r]
  BY <1>1, <1>2
<1>3. ASSUME NEW r \in Rounds, NEW f \in Flows, <<r, f>> \in work[s].held
      PROVE  ~AllApproved(status'[r])
  <2>1. status'[r][f] = "split_invalidated"
    BY <1>1, <1>3
  <2> QED
    BY <2>1, Completed DEF NoRow
<1>4. \A r \in Rounds, f \in Flows :
        status'[r][f] \in {"approved", "pending"} => status'[r][f] = status[r][f]
  BY <1>1
<1> QED
  BY <1>2, <1>3, <1>4 DEF Quiet, SplitCommit

(* What an approval does to completeness, to the flag and to the turns.     *)
LEMMA ApprovalKeeps ==
  ASSUME EffectInv, TypeInv', [Next]_vars, NEW row \in Rows, NEW entry, NEW s \in Sessions,
         WriteApproval(row, Fires(row), entry), EndApproval(s, row, Reached(row, Row(row)))
  PROVE  FiredOnce' /\ CompleteIsFinal' /\ TurnAnnounced'
<1> USE DEF EffectInv, SessionInv, TypeInv, TypeOK
<1>1. row[1] \in Rounds /\ row[2] \in Flows
  BY DEF Rows
<1>2. /\ status' = [status EXCEPT ![row[1]] = ApprovedRound(row)]
      /\ ApprovedRound(row) = [status[row[1]] EXCEPT ![row[2]] = "approved"]
  BY <1>1 DEF WriteApproval, ApprovedRound
<1>3. FiredOnce'
  <2> DEFINE once == Fires(row) /\ Dispatches(entry)
  <2>1. Fires(row) => ~approvedAt
    BY DEF Fires
  <2>2. approvedAt' = (approvedAt \/ Fires(row)) /\ fired' = IF once THEN Bump(fired) ELSE fired
    BY DEF WriteApproval
  <2>3. CASE once
    <3>1. ~approvedAt /\ approvedAt' /\ fired' = Bump(fired)
      BY <2>1, <2>2, <2>3
    <3>2. fired = 0
      BY <3>1 DEF FiredOnce
    <3> QED
      BY <3>1, <3>2 DEF FiredOnce, Bump
  <2>4. CASE ~once
    <3>1. (approvedAt => approvedAt') /\ fired' = fired
      BY <2>2, <2>4
    <3> QED
      BY <3>1 DEF FiredOnce
  <2> QED
    BY <2>3, <2>4
<1>4. CompleteIsFinal'
  <2> SUFFICES ASSUME NEW r \in Rounds, AllApproved(status'[r])
               PROVE  approvedAt'
    BY DEF CompleteIsFinal
  <2>1. CASE r = row[1]
    BY <1>1, <1>2, <2>1 DEF WriteApproval, Fires
  <2>2. CASE r # row[1]
    BY <1>1, <1>2, <2>2 DEF WriteApproval, CompleteIsFinal
  <2> QED
    BY <2>1, <2>2
<1>5. TurnAnnounced'
  <2> SUFFICES ASSUME NEW r \in Rounds, NEW f \in Flows, status'[r][f] = "pending", PrecededBy[f] # {},
                      PrecedingApproved(status'[r], PrecededBy, f)
               PROVE  Announced(r, f)'
    BY DEF TurnAnnounced, Announced
  <2>1. PrecededBy[f] \subseteq Flows
    BY FlowsAssumption
  <2>2. status[r][f] = "pending"
    BY <1>1, <1>2
  <2>3. CASE PrecedingApproved(status[r], PrecededBy, f)
    <3>1. Announced(r, f)
      BY <2>2, <2>3, TurnsByAnnounced
    <3> QED
      BY <3>1, AnnouncedStays DEF NoRow
  <2>4. CASE ~PrecedingApproved(status[r], PrecededBy, f)
    <3>1. PICK p \in PrecededBy[f] : status[r][p] # "approved" /\ status'[r][p] = "approved"
      BY <2>4 DEF PrecedingApproved
    <3>2. r = row[1] /\ p = row[2]
      BY <1>1, <1>2, <2>1, <3>1
    <3>3. Row(row) # "approved"
      BY <3>1, <3>2 DEF Row
    <3>4. status'[r] = ApprovedRound(row) /\ DOMAIN ApprovedRound(row) = Flows
      BY <1>1, <1>2, <3>2
    <3>5. f \in Reached(row, Row(row))
      BY <3>2, <3>3, <3>4 DEF Reached, NewlyActionable
    <3> DEFINE reached == Reached(row, Row(row))
    <3>6. /\ pc'[s] = "approve_announcing"
          /\ work'[s] = [Blank EXCEPT !.row = row, !.reached = reached]
      BY <3>5 DEF EndApproval, Goto
    <3> HIDE DEF reached
    <3>7. work'[s].row = row /\ work'[s].reached = reached
      BY <3>6 DEF Blank
    <3>8. work'[s].row[1] = r /\ f \in work'[s].reached
      BY <3>2, <3>5, <3>7 DEF reached
    <3>9. AboutToTell(r, f)'
      BY <3>6, <3>8 DEF AboutToTell
    <3> QED
      BY <3>9 DEF Announced
  <2> QED
    BY <2>3, <2>4
<1> QED
  BY <1>3, <1>4, <1>5

(* A dispatch that sets the flag it was guarded by happens once. *)
LEMMA OnceFires ==
  ASSUME TypeOK, FiredOnce, NEW once \in BOOLEAN, once => ~approvedAt,
         approvedAt' = (approvedAt \/ once),
         fired' = IF once THEN Bump(fired) ELSE fired
  PROVE  (approvedAt => approvedAt') /\ FiredOnce'
<1>1. CASE once
  <2>1. ~approvedAt /\ approvedAt' /\ fired' = Bump(fired)
    BY <1>1
  <2>2. fired = 0
    BY <2>1 DEF FiredOnce, TypeOK
  <2> QED
    BY <2>1, <2>2 DEF FiredOnce, Bump
<1>2. CASE ~once
  <2>1. (approvedAt => approvedAt') /\ fired' = fired
    BY <1>2
  <2> QED
    BY <2>1 DEF FiredOnce
<1> QED
  BY <1>1, <1>2

LEMMA NextEffect ==
  ASSUME Undisturbed, EffectInv, [Next]_vars
  PROVE  EffectInv'
<1>1. SessionInv' /\ TypeInv /\ TypeInv'
  BY NextSession DEF EffectInv, SessionInv
<1>2. ASSUME Quiet, UNCHANGED <<approvedAt, fired>>
      PROVE  EffectInv'
  BY <1>1, <1>2, QuietKeeps DEF EffectInv, FiredOnce
<1>3. CASE UNCHANGED vars
  BY <1>2, <1>3 DEF vars, record, Quiet
<1>4. ASSUME NEW s \in Sessions, Start(s)
      PROVE  EffectInv'
  <2>1. ASSUME \/ \E u \in Users, value \in {"draft", "submitted"} : Create(s, u, value)
               \/ \E u \in Users : SubmitForApproval(s, u)
        PROVE  EffectInv'
    BY <1>1, <1>2, <2>1, SubmissionQuiet
  <2>2. ASSUME UNCHANGED <<record, status>>
        PROVE  EffectInv'
    BY <1>2, <2>2 DEF record, Quiet
  <2>3. ASSUME NEW u \in Users, NEW value \in PayloadValues(entity), EditBegin(s, u, value)
        PROVE  UNCHANGED <<record, status>>
    BY <2>3 DEF EditBegin
  <2>4. ASSUME NEW row \in Rows, NEW entry \in EntryPoints,
               CheckApprove(s, row, entry) \/ CheckReject(s, row, entry)
        PROVE  UNCHANGED <<record, status>>
    BY <2>4 DEF CheckApprove, CheckReject
  <2>5. ASSUME CheckWithdraw(s) \/ CheckSplit(s) \/ CheckDelete(s)
        PROVE  UNCHANGED <<record, status>>
    BY <2>5 DEF CheckWithdraw, CheckSplit, CheckDelete
  <2> QED
    BY <1>4, <2>1, <2>2, <2>3, <2>4, <2>5 DEF Start
<1>5. ASSUME NEW s \in Sessions, Continue(s)
      PROVE  EffectInv'
  <2>1. CASE EditCommit(s)
    BY <1>1, <1>2, <2>1, SubmissionQuiet
  <2>2. CASE ApproveRest(s) \/ ApproveCommit(s)
    BY <1>1, <2>2, ApprovalDecides, ApprovalKeeps DEF EffectInv
  <2>8. CASE Announce(s)
    BY <1>2, <2>8 DEF Announce, Quiet, record
  <2>3. CASE Reject(s)
    <3>1. Quiet
      BY <1>1, <2>3, RejectQuiet
    <3>2. PICK once \in BOOLEAN : /\ once => ~approvedAt
                                  /\ approvedAt' = (approvedAt \/ once)
                                  /\ fired' = IF once THEN Bump(fired) ELSE fired
      <4> DEFINE terminal == TerminalReject /\ Dispatches(work[s].entry)
                 dispatched == Dispatches(work[s].entry) /\ (terminal => ~approvedAt)
      <4>1. /\ terminal /\ dispatched => ~approvedAt
            /\ approvedAt' = (approvedAt \/ (terminal /\ dispatched))
            /\ fired' = IF terminal /\ dispatched THEN Bump(fired) ELSE fired
        BY <2>3 DEF Reject
      <4>2. (terminal /\ dispatched) \in BOOLEAN
        OBVIOUS
      <4> QED
        BY <4>1, <4>2
    <3>3. (approvedAt => approvedAt') /\ FiredOnce'
      <4>1. TypeOK /\ FiredOnce
        BY <1>1 DEF TypeInv, EffectInv
      <4> QED
        BY <3>2, <4>1, OnceFires
    <3> QED
      BY <1>1, <3>1, <3>3, QuietKeeps DEF EffectInv
  <2>4. CASE Withdraw(s)
    BY <1>1, <1>2, <2>4, WithdrawQuiet DEF Withdraw
  <2>5. CASE SplitCommit(s)
    BY <1>1, <1>2, <2>5, SplitQuiet DEF SplitCommit
  <2>6. CASE Delete(s)
    BY <1>2, <2>6 DEF Delete, Quiet, NoRow
  <2>7. CASE EditUpdate(s) \/ ApproveBegin(s) \/ ApproveUpdate(s) \/ ApproveRead(s)
             \/ SplitUpdate(s) \/ Refuse(s)
    BY <1>2, <2>7
    DEF EditUpdate, ApproveBegin, ApproveUpdate, ApproveRead, SplitUpdate, Refuse, Quiet, record
  <2> QED
    BY <1>5, <2>1, <2>2, <2>3, <2>4, <2>5, <2>6, <2>7, <2>8 DEF Continue
<1>6. ASSUME NEW s \in Sessions, Fail(s)
      PROVE  EffectInv'
  BY <1>2, <1>6 DEF Fail, Abort, LoseAnnouncement, Quiet, record
<1> QED
  BY <1>3, <1>4, <1>5, <1>6 DEF Next

LEMMA EffectInvHolds ==
  ASSUME Undisturbed
  PROVE  Spec => []EffectInv
<1>1. Init => EffectInv
  <2> SUFFICES ASSUME Init PROVE EffectInv
    OBVIOUS
  <2>1. TypeInv /\ SessionInv
    BY InitType, InitSession
  <2>2. \A r \in Rounds, f \in Flows : status[r][f] = NoRow
    BY DEF Init
  <2>3. \A r \in Rounds : ~AllApproved(status[r])
    BY <2>1, <2>2, Completed DEF TypeInv, TypeOK, NoRow
  <2> QED
    BY <2>1, <2>2, <2>3 DEF EffectInv, FiredOnce, CompleteIsFinal, TurnAnnounced, Init, NoRow
<1>2. EffectInv /\ [Next]_vars => EffectInv'
  BY NextEffect
<1> QED
  BY <1>1, <1>2, PTL DEF Spec

(* Where approvals do not overlap unseen (the REST route, or one request at *)
(* a time), the final effect is dispatched at most once, ...                *)
THEOREM FiresOnce ==
  ASSUME Undisturbed
  PROVE  Spec => []FinalOnce
<1>1. EffectInv => FinalOnce
  BY DEF EffectInv, FiredOnce, FinalOnce
<1> QED
  BY <1>1, EffectInvHolds, PTL

(* ... it is dispatched when the last row of a round is approved, ...       *)
THEOREM CompletionFires ==
  ASSUME Undisturbed
  PROVE  Spec => []CompletedIsFinal
<1>1. EffectInv => CompletedIsFinal
  BY DEF EffectInv, CompleteIsFinal, CompletedIsFinal
<1> QED
  BY <1>1, EffectInvHolds, PTL

(* ... and no interleaving loses the announcement of a turn: a pending flow *)
(* whose predecessors are all approved has been announced, a request that   *)
(* committed the last of them is about to do it, or died before it could.   *)
THEOREM TurnsAreAnnounced ==
  ASSUME Undisturbed
  PROVE  Spec => []TurnAnnounced
<1>1. EffectInv => TurnAnnounced
  BY DEF EffectInv
<1> QED
  BY <1>1, EffectInvHolds, PTL

-----------------------------------------------------------------------------
(* Requests that do not overlap, made through the page. *)

(* Requests do not overlap. *)
Serial == \A s, t \in Sessions : s = t

(* A round that awaits decisions holds nothing else but approvals, and its  *)
(* record is at the submit value and undecided.                             *)
UnderReview ==
  \A r \in Rounds : Open(r) =>
    /\ entity = "submitted"
    /\ \A f \in Flows : status[r][f] \in {"pending", "approved", NoRow}

(* A record at the submit value has such a round. *)
Reviewed == entity = "submitted" /\ ~SplitParent => \E r \in Rounds : Open(r)

(* The record is decided exactly when its last round is. *)
Refused(round) == \E f \in Flows : round[f] = "terminal_rejected"
Decided == entity = "approved" \/ (TerminalReject /\ entity = "rejected")
Settled ==
  /\ approvedAt <=> Decided
  /\ Decided => nRounds \in Rounds
  /\ entity = "approved" => AllApproved(status[nRounds])
  /\ TerminalReject /\ entity = "rejected" => Refused(status[nRounds])
  /\ \A r \in Rounds :
       /\ AllApproved(status[r]) => entity = "approved"
       /\ Refused(status[r]) => entity = "rejected" /\ TerminalReject

(* A split parent has no other rows than invalidated ones. *)
SplitDone ==
  /\ SplitParent => /\ \A row \in Rows : Row(row) \in {NoRow, "split_invalidated"}
                    /\ entity \in {"split", "draft", "submitted"}
  /\ entity = "split" => SplitParent

(* The rounds created have rows, unless they went with the record. *)
HasRows(r) == \E f \in Flows : status[r][f] # NoRow
Filled == \A r \in Rounds : HasRows(r) <=> r <= nRounds /\ entity # "deleted"

(* What the request under way has checked is still so. *)
Checked ==
  \A s \in Sessions :
    /\ pc[s] \in EditSteps =>
         /\ Exists /\ entity \notin LockedValues
         /\ work[s].prev = entity /\ work[s].value \in PayloadValues(entity)
    /\ pc[s] \in DecisionSteps =>
         /\ Row(work[s].row) = "pending"
         /\ PrecedingApproved(status[work[s].row[1]], PrecededBy, work[s].row[2])
    /\ pc[s] \in {"split_checked", "split_updated"} =>
         /\ Splittable /\ Exists /\ entity \notin {"split", "rejected"} /\ ~approvedAt
         /\ ExistingRows # {}
    /\ pc[s] = "split_updated" => work[s].held = ExistingRows
    /\ pc[s] = "delete_checked" => Exists /\ entity \notin LockedValues

RecordInv == UnderReview /\ Reviewed /\ Settled /\ SplitDone /\ Filled /\ ApprovedInOrder
ReviewInv == RoundInv /\ RecordInv /\ Checked

(* The current round is the one created last. *)
LEMMA LatestIsLast ==
  ASSUME RoundInv, nRounds # 0
  PROVE  nRounds \in Rounds /\ LatestRounds = {nRounds}
<1>1. nRounds \in 0..MaxRounds /\ MaxRounds \in Nat /\ submittedAt \in [Rounds -> Nat]
  BY BoundAssumption DEF RoundInv, TypeInv, TypeOK
<1>2. nRounds \in Rounds /\ \A q \in 1..nRounds : submittedAt[q] \in Nat
  BY <1>1 DEF Rounds
<1>3. \A q \in 1..nRounds : q # nRounds => submittedAt[q] < submittedAt[nRounds]
  BY <1>1 DEF RoundInv, Growing
<1> QED
  BY <1>1, <1>2, <1>3 DEF LatestRounds, CreatedRounds, Rounds

(* A round under review is the last one, of an undecided record in one piece. *)
LEMMA OpenIsLast ==
  ASSUME RoundInv, RecordInv, NEW r \in Rounds, Open(r)
  PROVE  /\ r = nRounds /\ entity = "submitted" /\ ~Decided /\ ~SplitParent
         /\ \A f \in Flows : status[r][f] \in {"pending", "approved", NoRow}
<1>1. PICK f \in Flows : status[r][f] = "pending"
  BY DEF Open
<1>2. Row(<<r, f>>) = "pending" /\ <<r, f>> \in Rows
  BY <1>1 DEF Row, Rows
<1> QED
  BY <1>2 DEF RoundInv, LastOpen, RecordInv, UnderReview, Decided, SplitDone, NoRow

LEMMA SplitParentIs == SplitParent <=> \E r \in Rounds, f \in Flows : status[r][f] = "split_invalidated"
<1>1. ASSUME NEW r \in Rounds, NEW f \in Flows, status[r][f] = "split_invalidated"
      PROVE  SplitParent
  <2>1. <<r, f>> \in Rows /\ Row(<<r, f>>) = status[r][f]
    BY DEF Rows, Row
  <2> QED
    BY <1>1, <2>1 DEF SplitParent
<1>2. ASSUME NEW row \in Rows, Row(row) = "split_invalidated"
      PROVE  \E r \in Rounds, f \in Flows : status[r][f] = "split_invalidated"
  BY <1>2 DEF Rows, Row
<1> QED
  BY <1>1, <1>2 DEF SplitParent

(* Which records may be submitted: those neither under review, nor decided, nor split. *)
LEMMA CanSubmitMeans ==
  ASSUME RoundInv, RecordInv, entity # "deleted", NEW statuses \in LatestStatuses
  PROVE  canSubmitForApproval(statuses) <=> entity # "submitted" /\ ~Decided /\ ~SplitParent
<1> USE DEF RecordInv
<1>1. CASE nRounds = 0
  <2>1. canSubmitForApproval(statuses)
    BY <1>1 DEF LatestStatuses, canSubmitForApproval
  <2>2. ASSUME NEW r \in Rounds, NEW f \in Flows
        PROVE  status[r][f] = NoRow
    BY <1>1 DEF Filled, HasRows, Rounds
  <2>3. ~SplitParent /\ \A r \in Rounds : ~Open(r)
    BY <2>2, SplitParentIs DEF Open, NoRow
  <2>4. ~Decided
    BY <1>1 DEF Settled, Rounds
  <2> QED
    BY <2>1, <2>3, <2>4 DEF Reviewed
<1>2. CASE nRounds # 0
  <2>1. nRounds \in Rounds /\ statuses = RowStatuses(status[nRounds])
    BY <1>2, LatestIsLast DEF LatestStatuses
  <2>2. DOMAIN status[nRounds] = Flows
    BY <2>1 DEF RoundInv, TypeInv, TypeOK
  <2>3. PICK f \in Flows : status[nRounds][f] # NoRow
    BY <2>1, BoundAssumption DEF Filled, HasRows, Rounds
  <2>4. statuses # {}
    BY <2>1, <2>2, <2>3 DEF RowStatuses
  <2>5. "pending" \in statuses <=> Open(nRounds)
    BY <2>1, <2>2 DEF RowStatuses, Open, NoRow
  <2>6. statuses = {"approved"} <=> AllApproved(status[nRounds])
    BY <2>1 DEF AllApproved
  <2>7. "terminal_rejected" \in statuses <=> Refused(status[nRounds])
    BY <2>1, <2>2 DEF RowStatuses, Refused, NoRow
  <2>8. SplitParent <=> "split_invalidated" \in statuses
    <3>1. SplitParent => status[nRounds][f] = "split_invalidated"
      <4>1. <<nRounds, f>> \in Rows /\ Row(<<nRounds, f>>) = status[nRounds][f]
        BY <2>1 DEF Rows, Row
      <4> QED
        BY <2>3, <4>1 DEF SplitDone
    <3>2. "split_invalidated" \in statuses => SplitParent
      BY <2>1, <2>2, SplitParentIs DEF RowStatuses
    <3> QED
      BY <2>1, <2>2, <3>1, <3>2 DEF RowStatuses, NoRow
  <2>9. Decided <=> AllApproved(status[nRounds]) \/ Refused(status[nRounds])
    BY <2>1 DEF Settled, Decided
  <2>10. entity = "submitted" /\ ~SplitParent <=> Open(nRounds)
    BY <2>1, OpenIsLast DEF Reviewed
  <2> QED
    BY <2>4, <2>5, <2>6, <2>7, <2>8, <2>9, <2>10 DEF canSubmitForApproval
<1> QED
  BY <1>1, <1>2

(* A submission of such a record, or its creation at the submit value. *)
LEMMA SubmissionKeepsRecord ==
  ASSUME RoundInv, RecordInv, RoundInv', NEW u \in Users, FlowsFor[u] # {}, OpenRound(u),
         entity \notin {"submitted", "deleted"}, ~Decided, ~SplitParent,
         entity' = "submitted", UNCHANGED approvedAt
  PROVE  RecordInv' /\ (entity = "absent" => Cycle!Create) /\ (entity # "absent" => Cycle!Submit)
<1> USE DEF RecordInv
<1> DEFINE n == nRounds + 1
<1>1. /\ nRounds' = n /\ n \in Rounds /\ nRounds \in Nat /\ MaxRounds \in Nat
      /\ status' = [status EXCEPT ![n] = [f \in Flows |-> IF f \in FlowsFor[u] THEN "pending" ELSE NoRow]]
  <2>1. /\ nRounds < MaxRounds /\ nRounds' = n
        /\ status' = [status EXCEPT ![n] = [f \in Flows |-> IF f \in FlowsFor[u] THEN "pending" ELSE NoRow]]
    BY DEF OpenRound
  <2>2. nRounds \in 0..MaxRounds /\ MaxRounds \in Nat
    BY BoundAssumption DEF RoundInv, TypeInv, TypeOK
  <2> QED
    BY <2>1, <2>2 DEF Rounds
<1> HIDE DEF n
<1>2. \A r \in Rounds : r # n => status'[r] = status[r]
  BY <1>1
<1>3. \A f \in Flows : status'[n][f] = IF f \in FlowsFor[u] THEN "pending" ELSE NoRow
  BY <1>1 DEF RoundInv, TypeInv, TypeOK
<1>4. PICK g \in Flows : g \in FlowsFor[u]
  BY FlowsAssumption
<1>5. status'[n][g] = "pending"
  BY <1>3, <1>4
<1>6. UnderReview'
  BY <1>1, <1>3 DEF UnderReview, RoundInv, LastOpen
<1>7. Reviewed'
  BY <1>1, <1>5 DEF Reviewed, Open
<1>8. Settled'
  <2>1. ~Decided' /\ ~approvedAt'
    BY DEF Decided, Settled
  <2>2. ~Refused(status'[n]) /\ ~AllApproved(status'[n])
    <3>1. ~Refused(status'[n])
      BY <1>3 DEF Refused, NoRow
    <3>2. status'[n] \in [Flows -> RequestStatus \cup {NoRow}]
      BY <1>1 DEF RoundInv, TypeInv, TypeOK
    <3> QED
      BY <1>5, <3>1, <3>2, Completed DEF NoRow
  <2>3. ASSUME NEW r \in Rounds
        PROVE  ~Refused(status'[r]) /\ ~AllApproved(status'[r])
    <3>1. ~Refused(status[r]) /\ ~AllApproved(status[r])
      BY DEF Settled, Decided
    <3> QED
      BY <1>2, <2>2, <3>1
  <2> QED
    BY <2>1, <2>3 DEF Settled, Decided
<1>9. ~SplitParent'
  BY <1>2, <1>3, SplitParentIs DEF SplitParent, Row, Rows, NoRow
<1>10. Filled'
  <2> SUFFICES ASSUME NEW r \in Rounds
               PROVE  HasRows(r)' <=> r <= n
    BY <1>1 DEF Filled
  <2>1. CASE r = n
    BY <1>5, <2>1 DEF HasRows, NoRow, Rounds
  <2>2. CASE r # n
    <3>1. HasRows(r)' <=> HasRows(r)
      BY <1>2, <2>2 DEF HasRows
    <3> QED
      BY <1>1, <2>2, <3>1 DEF Filled, Rounds, n
  <2> QED
    BY <2>1, <2>2
<1>11. ApprovedInOrder'
  <2> SUFFICES ASSUME NEW r \in Rounds, NEW f \in Flows, status'[r][f] = "approved"
               PROVE  \A q \in PrecededBy[f] : status'[r][q] = "approved"
    BY DEF ApprovedInOrder
  <2> QED
    BY <1>2, <1>3 DEF ApprovedInOrder, NoRow
<1>12. entity = "absent" \/ entity \in Cycle!Authored
  BY DEF Cycle!Authored, Decided, SplitDone, RoundInv, TypeInv, TypeOK, EntityStatus
<1>13. Phase = entity /\ Phase' = "review"
  BY <1>9 DEF Phase
<1> QED
  BY <1>6, <1>7, <1>8, <1>9, <1>10, <1>11, <1>12, <1>13 DEF SplitDone, Cycle!Create, Cycle!Submit

(* A write of the status field that opens no round. *)
LEMMA EditKeepsRecord ==
  ASSUME RoundInv, RecordInv, UNCHANGED <<status, rounds, approvedAt>>,
         entity \notin {"submitted", "deleted"}, ~Decided,
         entity' \in {"draft", "submitted", entity},
         entity = "absent" => nRounds = 0 /\ entity' = "draft",
         entity' = "submitted" => SplitParent
  PROVE  RecordInv' /\ [Cycle!Next]_Phase
<1> USE DEF RecordInv
<1>1. UNCHANGED <<SplitParent, nRounds>> /\ \A r \in Rounds : UNCHANGED <<Open(r), status[r], HasRows(r)>>
  BY DEF SplitParent, Row, Open, HasRows, rounds
<1>2. \A r \in Rounds : ~Open(r)
  BY OpenIsLast
<1>3. UnderReview' /\ Reviewed'
  BY <1>1, <1>2 DEF UnderReview, Reviewed
<1>4. Settled'
  BY <1>1 DEF Settled, Decided
<1>5. SplitDone'
  BY <1>1 DEF SplitDone, Row
<1>6. Filled' /\ ApprovedInOrder'
  BY <1>1 DEF Filled, ApprovedInOrder
<1>7. [Cycle!Next]_Phase
  <2>1. CASE SplitParent
    BY <1>1, <2>1 DEF Phase
  <2>2. CASE ~SplitParent
    <3>1. Phase = entity /\ Phase' = entity' /\ entity' \in {"draft", entity}
      BY <1>1, <2>2 DEF Phase
    <3>2. entity \in {"absent"} \cup Cycle!Authored
      BY <2>2 DEF Cycle!Authored, Decided, SplitDone, RoundInv, TypeInv, TypeOK, EntityStatus
    <3> QED
      BY <3>1, <3>2 DEF Cycle!Next, Cycle!Create, Cycle!Rework
  <2> QED
    BY <2>1, <2>2
<1> QED
  BY <1>3, <1>4, <1>5, <1>6, <1>7

(* The approval of a pending row whose turn it is. *)
LEMMA ApprovalKeepsRecord ==
  ASSUME RoundInv, RecordInv, RoundInv', ~ProxyView, NEW row \in Rows, Row(row) = "pending",
         PrecedingApproved(status[row[1]], PrecededBy, row[2]), NEW entry,
         WriteApproval(row, Fires(row), entry)
  PROVE  RecordInv' /\ [Cycle!Next]_Phase
<1> USE DEF RecordInv
<1> DEFINE r == row[1]
           f == row[2]
<1>1. r \in Rounds /\ f \in Flows /\ status[r][f] = "pending"
  BY DEF Rows, Row
<1>2. /\ Open(r) /\ r = nRounds /\ entity = "submitted" /\ ~Decided /\ ~SplitParent
      /\ \A g \in Flows : status[r][g] \in {"pending", "approved", NoRow}
  BY <1>1, OpenIsLast DEF Open
<1>3. /\ status' = [status EXCEPT ![r] = ApprovedRound(row)] /\ UNCHANGED nRounds
      /\ ApprovedRound(row) = [status[r] EXCEPT ![f] = "approved"]
  BY <1>1 DEF WriteApproval, ApprovedRound, rounds, RoundInv, TypeInv, TypeOK
<1>4. /\ \A q \in Rounds : q # r => status'[q] = status[q]
      /\ \A g \in Flows : status'[r][g] = IF g = f THEN "approved" ELSE status[r][g]
      /\ status'[r] \in [Flows -> RequestStatus \cup {NoRow}]
  BY <1>1, <1>3 DEF RoundInv, TypeInv, TypeOK
<1>5. ~approvedAt /\ (Fires(row) <=> AllApproved(status'[r]))
  BY <1>1, <1>2, <1>3 DEF Settled, Fires, RoundInv, TypeInv, TypeOK
<1>6. IF AllApproved(status'[r]) THEN entity' = "approved" /\ approvedAt'
      ELSE entity' = "submitted" /\ ~approvedAt'
  BY <1>2, <1>5 DEF WriteApproval, Dispatches
<1> HIDE DEF r, f
<1>7. UnderReview' /\ Reviewed'
  <2>1. CASE AllApproved(status'[r])
    <3>1. ~Open(r)'
      BY <1>4, <2>1, Completed DEF Open, NoRow
    <3>2. \A q \in Rounds : Open(q)' => q = r
      BY <1>2, <1>3 DEF RoundInv, LastOpen
    <3> QED
      BY <1>6, <2>1, <3>1, <3>2 DEF UnderReview, Reviewed
  <2>2. CASE ~AllApproved(status'[r])
    <3>1. \A g \in Flows : status'[r][g] \in {"pending", "approved", NoRow}
      BY <1>2, <1>4
    <3>2. \E g \in Flows : status'[r][g] = "pending"
      BY <1>1, <1>4, <2>2, <3>1, Completed
    <3>3. \A q \in Rounds : Open(q)' => q = r
      BY <1>2, <1>3 DEF RoundInv, LastOpen
    <3> QED
      BY <1>1, <1>6, <2>2, <3>1, <3>2, <3>3 DEF UnderReview, Reviewed, Open
  <2> QED
    BY <2>1, <2>2
<1>8. \A q \in Rounds : ~Refused(status'[q]) /\ (q # r => ~AllApproved(status'[q]))
  <2>1. ASSUME NEW q \in Rounds
        PROVE  ~Refused(status[q]) /\ ~AllApproved(status[q])
    BY <1>2 DEF Settled, Decided
  <2>2. ~Refused(status'[r])
    BY <1>2, <1>4 DEF Refused, NoRow
  <2> QED
    BY <1>4, <2>1, <2>2
<1>9. Settled'
  <2>1. nRounds' \in Rounds /\ nRounds' = r
    BY <1>1, <1>2, <1>3
  <2>2. Decided' <=> AllApproved(status'[r])
    BY <1>6 DEF Decided
  <2>3. approvedAt' <=> Decided'
    BY <1>6, <2>2
  <2> QED
    BY <1>6, <1>8, <2>1, <2>2, <2>3 DEF Settled
<1>10. ~SplitParent'
  <2>1. \A q \in Rounds, g \in Flows : status[q][g] # "split_invalidated"
    BY <1>2, SplitParentIs
  <2>2. \A q \in Rounds, g \in Flows : status'[q][g] # "split_invalidated"
    BY <1>4, <2>1
  <2> QED
    BY <2>2 DEF SplitParent, Row, Rows
<1>11. Filled' /\ ApprovedInOrder'
  <2>1. \A q \in Rounds : HasRows(q)' <=> HasRows(q)
    BY <1>1, <1>4 DEF HasRows, NoRow
  <2>2. \A p \in PrecededBy[f] : status[r][p] = "approved"
    BY DEF PrecedingApproved, r, f
  <2>3. ASSUME NEW q \in Rounds, NEW g \in Flows, status'[q][g] = "approved", NEW p \in PrecededBy[g]
        PROVE  status'[q][p] = "approved"
    <3>1. p \in Flows
      BY FlowsAssumption
    <3>2. CASE q = r /\ g = f
      BY <1>4, <2>2, <3>1, <3>2
    <3>3. CASE ~(q = r /\ g = f)
      BY <1>4, <2>3, <3>1, <3>3 DEF ApprovedInOrder
    <3> QED
      BY <3>2, <3>3
  <2> QED
    BY <1>2, <1>3, <1>6, <2>1, <2>3 DEF Filled, ApprovedInOrder
<1>12. Phase = "review" /\ Phase' \in {"review", "approved"}
  BY <1>2, <1>6, <1>10 DEF Phase
<1> QED
  BY <1>6, <1>7, <1>9, <1>10, <1>11, <1>12 DEF SplitDone, Cycle!Next, Cycle!Approve

(* A rejection or a withdrawal closes the round under review. *)
LEMMA ClosingKeepsRecord ==
  ASSUME RoundInv, RecordInv, RoundInv', NEW r \in Rounds, Open(r), NEW closed,
         status' = [status EXCEPT ![r] = closed], UNCHANGED nRounds,
         \A f \in Flows : closed[f] # "pending" /\ closed[f] # "split_invalidated",
         \A f \in Flows : (closed[f] = "approved") <=> (status[r][f] = "approved"),
         \A f \in Flows : (closed[f] = NoRow) <=> (status[r][f] = NoRow),
         Refused(closed) <=> (TerminalReject /\ entity' = "rejected"),
         approvedAt' <=> Refused(closed),
         entity' = "rejected" \/ (entity' = "draft" /\ HasOnWithdrawn)
  PROVE  RecordInv' /\ [Cycle!Next]_Phase
<1> USE DEF RecordInv
<1>1. /\ r = nRounds /\ entity = "submitted" /\ ~Decided /\ ~SplitParent
      /\ \A g \in Flows : status[r][g] \in {"pending", "approved", NoRow}
  BY OpenIsLast
<1>2. /\ \A q \in Rounds : q # r => status'[q] = status[q]
      /\ status'[r] = closed /\ closed \in [Flows -> RequestStatus \cup {NoRow}]
  BY DEF RoundInv, TypeInv, TypeOK
<1>3. \A q \in Rounds : ~Open(q)'
  BY <1>1, <1>2 DEF RoundInv, LastOpen, Open
<1>4. ASSUME NEW q \in Rounds
      PROVE  ~AllApproved(status'[q]) /\ (Refused(status'[q]) => q = r)
  <2>1. ~Refused(status[q]) /\ ~AllApproved(status[q])
    BY <1>1 DEF Settled, Decided
  <2>2. PICK f \in Flows : status[r][f] = "pending"
    BY DEF Open
  <2>3. closed[f] \notin {"approved", NoRow}
    BY <2>2 DEF NoRow
  <2>4. ~AllApproved(closed)
    BY <1>2, <2>3, Completed
  <2> QED
    BY <1>2, <2>1, <2>4
<1>5. UnderReview' /\ Reviewed'
  BY <1>3 DEF UnderReview, Reviewed
<1>6. Settled'
  <2>1. Decided' <=> (TerminalReject /\ entity' = "rejected")
    BY DEF Decided
  <2>2. approvedAt' <=> Decided'
    BY <2>1
  <2> QED
    BY <1>1, <1>2, <1>4, <2>1, <2>2 DEF Settled
<1>7. ~SplitParent'
  <2>1. \A q \in Rounds, g \in Flows : status[q][g] # "split_invalidated"
    BY <1>1, SplitParentIs
  <2>2. \A q \in Rounds, g \in Flows : status'[q][g] # "split_invalidated"
    BY <1>2, <2>1
  <2> QED
    BY <2>2 DEF SplitParent, Row, Rows
<1>8. Filled'
  <2>1. \A q \in Rounds : HasRows(q)' <=> HasRows(q)
    BY <1>2 DEF HasRows
  <2> QED
    BY <1>1, <2>1 DEF Filled
<1>9. ApprovedInOrder'
  BY <1>2, FlowsAssumption DEF ApprovedInOrder
<1>10. Phase = "review" /\ Phase' = entity'
  BY <1>1, <1>7 DEF Phase
<1> QED
  BY <1>5, <1>6, <1>7, <1>8, <1>9, <1>10 DEF SplitDone, Cycle!Next, Cycle!Reject, Cycle!Withdraw

(* A split invalidates every row. *)
LEMMA SplitKeepsRecord ==
  ASSUME RoundInv, RecordInv, RoundInv', Splittable, Exists, entity \notin {"split", "rejected"},
         ~approvedAt, ExistingRows # {}, entity' = "split", UNCHANGED <<approvedAt, nRounds>>,
         status' = [r \in Rounds |-> [f \in Flows |->
           IF <<r, f>> \in ExistingRows THEN "split_invalidated" ELSE status[r][f]]]
  PROVE  RecordInv' /\ [Cycle!Next]_Phase
<1> USE DEF RecordInv
<1>1. \A r \in Rounds, f \in Flows :
        status'[r][f] = IF status[r][f] # NoRow THEN "split_invalidated" ELSE NoRow
  <2> SUFFICES ASSUME NEW r \in Rounds, NEW f \in Flows
               PROVE  status'[r][f] = IF status[r][f] # NoRow THEN "split_invalidated" ELSE NoRow
    OBVIOUS
  <2>1. <<r, f>> \in ExistingRows <=> status[r][f] # NoRow
    BY DEF ExistingRows, Rows, Row
  <2> QED
    BY <2>1
<1>2. \A r \in Rounds : ~Open(r)' /\ ~Refused(status'[r]) /\ (HasRows(r)' <=> HasRows(r))
  BY <1>1 DEF Open, Refused, HasRows, NoRow
<1>3. ASSUME NEW r \in Rounds
      PROVE  ~AllApproved(status'[r])
  <2>1. status'[r] \in [Flows -> RequestStatus \cup {NoRow}]
    BY DEF RoundInv, TypeInv, TypeOK
  <2> QED
    BY <1>1, <2>1, Completed DEF NoRow
<1>4. SplitParent'
  <2>1. PICK row \in Rows : Row(row) # NoRow
    BY DEF ExistingRows
  <2>2. Row(row)' = "split_invalidated"
    BY <1>1, <2>1 DEF Row, Rows
  <2> QED
    BY <2>2 DEF SplitParent
<1>5. UnderReview' /\ Reviewed' /\ SplitDone'
  BY <1>1, <1>2, <1>4 DEF UnderReview, Reviewed, SplitDone, Row, Rows
<1>6. ~Decided /\ ~Decided'
  BY DEF Settled, Decided
<1>7. Settled'
  BY <1>2, <1>3, <1>6 DEF Settled, Decided
<1>8. Filled' /\ ApprovedInOrder'
  BY <1>1, <1>2 DEF Filled, ApprovedInOrder, Exists, NoRow
<1>9. [Cycle!Next]_Phase
  <2>1. Phase' = "split"
    BY <1>4 DEF Phase
  <2>2. CASE SplitParent
    BY <2>1, <2>2 DEF Phase
  <2>3. CASE ~SplitParent
    <3>1. entity \in {"draft", "submitted"}
      BY <1>6 DEF Exists, Decided, RoundInv, TypeInv, TypeOK, EntityStatus
    <3>2. Phase \in {"draft", "review"}
      BY <2>3, <3>1 DEF Phase
    <3> QED
      BY <2>1, <3>2 DEF Cycle!Next, Cycle!Split
  <2> QED
    BY <2>2, <2>3
<1> QED
  BY <1>5, <1>7, <1>8, <1>9

(* A deletion takes every row along. *)
LEMMA DeleteKeepsRecord ==
  ASSUME RoundInv, RecordInv, RoundInv', Exists, entity \notin LockedValues,
         entity' = "deleted", UNCHANGED <<approvedAt, nRounds>>,
         status' = [r \in Rounds |-> [f \in Flows |-> NoRow]]
  PROVE  RecordInv' /\ [Cycle!Next]_Phase
<1> USE DEF RecordInv
<1>1. \A r \in Rounds, f \in Flows : status'[r][f] = NoRow
  OBVIOUS
<1>2. \A r \in Rounds : ~Open(r)' /\ ~Refused(status'[r]) /\ ~HasRows(r)'
  BY <1>1 DEF Open, Refused, HasRows, NoRow
<1>3. ASSUME NEW r \in Rounds
      PROVE  ~AllApproved(status'[r])
  <2>1. status'[r] \in [Flows -> RequestStatus \cup {NoRow}]
    BY DEF RoundInv, TypeInv, TypeOK
  <2> QED
    BY <1>1, <2>1, Completed DEF NoRow
<1>4. ~SplitParent'
  BY <1>1 DEF SplitParent, Row, Rows, NoRow
<1>5. UnderReview' /\ Reviewed' /\ SplitDone'
  BY <1>2, <1>4 DEF UnderReview, Reviewed, SplitDone
<1>6. ~Decided /\ ~Decided'
  BY DEF LockedValues, Decided
<1>7. Settled'
  BY <1>2, <1>3, <1>6 DEF Settled, Decided
<1>8. Filled' /\ ApprovedInOrder'
  BY <1>1, <1>2 DEF Filled, ApprovedInOrder, NoRow
<1>9. Phase' = "deleted" /\ Phase \in Cycle!Authored \cup {"split"}
  <2>1. entity \in {"draft", "split"} \/ (entity = "rejected" /\ ~TerminalReject)
    BY DEF Exists, LockedValues, RoundInv, TypeInv, TypeOK, EntityStatus
  <2> QED
    BY <1>4, <2>1 DEF Phase, Cycle!Authored
<1> QED
  BY <1>5, <1>7, <1>8, <1>9 DEF Cycle!Next, Cycle!Delete

(* A step that touches neither the record nor its rounds. *)
LEMMA LocalKeepsRecord ==
  ASSUME RecordInv, UNCHANGED <<record, status, rounds>>
  PROVE  RecordInv' /\ [Cycle!Next]_Phase
<1>1. /\ UNCHANGED <<entity, approvedAt, nRounds, status, SplitParent, Phase, Decided>>
      /\ \A r \in Rounds : UNCHANGED <<Open(r), HasRows(r)>>
  BY DEF record, rounds, SplitParent, Row, Open, HasRows, Phase, Decided
<1>2. UnderReview' /\ Reviewed' /\ Settled'
  BY <1>1 DEF RecordInv, UnderReview, Reviewed, Settled, Refused
<1>3. SplitDone' /\ Filled' /\ ApprovedInOrder'
  BY <1>1 DEF RecordInv, SplitDone, Row, Filled, ApprovedInOrder
<1> QED
  BY <1>1, <1>2, <1>3 DEF RecordInv

(* A request that is over, or only announces, has nothing left to rely on. *)
LEMMA IdleChecked ==
  ASSUME \A s \in Sessions : pc[s] \in {"idle", "approve_announcing"}
  PROVE  Checked
BY DEF Checked, EditSteps, DecisionSteps, ApproveSteps

LEMMA DoneChecked ==
  ASSUME Serial, TypeInv, NEW s \in Sessions, NEW w,
         \/ Done(s) \/ Goto(s, "approve_announcing", w)
         \/ pc[s] = "idle" /\ UNCHANGED local
  PROVE  Checked'
<1>1. \A t \in Sessions : pc'[t] \in {"idle", "approve_announcing"}
  BY DEF Serial, Done, Goto, local, TypeInv, TypeOK
<1> QED
  BY <1>1, IdleChecked DEF Checked, EditSteps, DecisionSteps, ApproveSteps

(* What a first step checks is so. *)
LEMMA StartChecked ==
  ASSUME Serial, ClientRule, TypeInv, NEW s \in Sessions, Start(s)
  PROVE  Checked'
<1> USE DEF TypeInv, TypeOK
<1>1. \A t \in Sessions : t = s
  BY DEF Serial
<1>2. ASSUME NEW u \in Users, NEW value \in {"draft", "submitted"},
             Create(s, u, value) \/ SubmitForApproval(s, u)
      PROVE  Checked'
  BY <1>2, DoneChecked DEF Create, SubmitForApproval
<1>3. ASSUME NEW u \in Users, NEW value \in PayloadValues(entity), EditBegin(s, u, value)
      PROVE  Checked'
  <2>1. /\ pc'[s] = "edit_begun" /\ work'[s].prev = entity /\ work'[s].value = value
        /\ UNCHANGED entity /\ Exists /\ entity \notin LockedValues
    BY <1>3 DEF EditBegin, Goto, Blank, record
  <2> QED
    BY <1>1, <2>1 DEF Checked, DecisionSteps, ApproveSteps, Exists
<1>4. ASSUME NEW row \in Rows, NEW entry \in EntryPoints,
             CheckApprove(s, row, entry) \/ CheckReject(s, row, entry)
      PROVE  Checked'
  <2>1. pc'[s] \in {"approve_checked", "reject_checked"} /\ work'[s].row = row /\ UNCHANGED status
    BY <1>4 DEF CheckApprove, CheckReject, Goto, Blank
  <2>2. Row(row) = "pending" /\ PrecedingApproved(status[row[1]], PrecededBy, row[2])
    BY <1>4 DEF CheckApprove, CheckReject, MayAct, canActOnApprovalRequest, Row
  <2> QED
    BY <1>1, <2>1, <2>2 DEF Checked, EditSteps, Row
<1>5. ASSUME CheckWithdraw(s)
      PROVE  Checked'
  <2>1. pc'[s] = "withdraw_checked"
    BY <1>5 DEF CheckWithdraw, Goto
  <2> QED
    BY <1>1, <2>1 DEF Checked, EditSteps, DecisionSteps, ApproveSteps
<1>6. ASSUME CheckSplit(s)
      PROVE  Checked'
  <2>1. /\ pc'[s] = "split_checked" /\ UNCHANGED <<entity, approvedAt, status>>
        /\ Splittable /\ Exists /\ entity \notin {"split", "rejected"} /\ ~approvedAt
        /\ ExistingRows # {}
    BY <1>6 DEF CheckSplit, Goto, record
  <2>2. UNCHANGED ExistingRows
    BY <2>1 DEF ExistingRows, Row
  <2> QED
    BY <1>1, <2>1, <2>2 DEF Checked, EditSteps, DecisionSteps, ApproveSteps, Exists
<1>7. ASSUME CheckDelete(s)
      PROVE  Checked'
  <2>1. pc'[s] = "delete_checked" /\ UNCHANGED entity /\ Exists /\ entity \notin LockedValues
    BY <1>7 DEF CheckDelete, Goto, record
  <2> QED
    BY <1>1, <2>1 DEF Checked, EditSteps, DecisionSteps, ApproveSteps, Exists
<1> QED
  BY <1>2, <1>3, <1>4, <1>5, <1>6, <1>7 DEF Start

(* A step in the middle of a request relies on it still. *)
MiddleStep(s) ==
  EditUpdate(s) \/ ApproveBegin(s) \/ ApproveUpdate(s) \/ ApproveRead(s) \/ SplitUpdate(s)

LEMMA MiddleChecked ==
  ASSUME Serial, TypeInv, Checked, NEW s \in Sessions, MiddleStep(s)
  PROVE  Checked'
<1>1. \A t \in Sessions : t = s
  BY DEF Serial
<1>2. work[s] \in Work /\ work \in [Sessions -> Work] /\ pc \in [Sessions -> Steps]
  BY DEF TypeInv, TypeOK
<1>3. UNCHANGED <<entity, approvedAt, status>>
  BY DEF MiddleStep, EditUpdate, ApproveBegin, ApproveUpdate, ApproveRead, SplitUpdate, record
<1>4. CASE EditUpdate(s)
  <2>1. pc[s] = "edit_begun" /\ pc'[s] = "edit_updated" /\ work'[s] = work[s]
    BY <1>2, <1>4 DEF EditUpdate, Goto
  <2> QED
    BY <1>1, <1>3, <2>1 DEF Checked, EditSteps, DecisionSteps, ApproveSteps, Exists
<1>5. CASE ApproveBegin(s) \/ ApproveUpdate(s) \/ ApproveRead(s)
  <2>1. pc[s] \in DecisionSteps /\ pc'[s] \in ApproveSteps
    BY <1>2, <1>5 DEF ApproveBegin, ApproveUpdate, ApproveRead, Goto, DecisionSteps, ApproveSteps
  <2>2. work'[s].row = work[s].row
    <3>1. ApproveBegin(s) => work'[s].row = work[s].row
      BY <1>2 DEF ApproveBegin, Goto, Work
    <3>2. ApproveUpdate(s) => work'[s].row = work[s].row
      BY <1>2 DEF ApproveUpdate, Goto, Work
    <3>3. ApproveRead(s) => work'[s].row = work[s].row
      BY <1>2 DEF ApproveRead, Goto, Work
    <3> QED
      BY <1>5, <3>1, <3>2, <3>3
  <2> QED
    BY <1>1, <1>3, <2>1, <2>2 DEF Checked, EditSteps, ApproveSteps, Row
<1>6. CASE SplitUpdate(s)
  <2>1. pc[s] = "split_checked" /\ pc'[s] = "split_updated" /\ work'[s].held = ExistingRows
    BY <1>2, <1>6 DEF SplitUpdate, Goto, Work
  <2>2. UNCHANGED ExistingRows
    BY <1>3 DEF ExistingRows, Row
  <2> QED
    BY <1>1, <1>3, <2>1, <2>2 DEF Checked, EditSteps, DecisionSteps, ApproveSteps, Exists
<1> QED
  BY <1>4, <1>5, <1>6 DEF MiddleStep

(* The steps that end a request, on the record. *)
LEMMA EditCommitKeepsRecord ==
  ASSUME ReviewInv, RoundInv', \A u \in Users : FlowsFor[u] # {}, NEW s \in Sessions, EditCommit(s)
  PROVE  RecordInv' /\ [Cycle!Next]_Phase
<1> DEFINE value == work[s].value
           u == work[s].user
<1>1. /\ Exists /\ entity \notin LockedValues /\ work[s].prev = entity
      /\ value \in PayloadValues(entity) /\ u \in Users
  BY DEF EditCommit, ReviewInv, Checked, EditSteps, RoundInv, TypeInv, Prepared
<1>2. entity' = value /\ UNCHANGED approvedAt
  BY DEF EditCommit
<1>3. entity \notin {"submitted", "deleted", "absent"} /\ ~Decided
  BY <1>1 DEF LockedValues, Exists, Decided
<1>4. PICK statuses \in LatestStatuses :
        IF entity # "submitted" /\ value = "submitted" /\ canSubmitForApproval(statuses)
        THEN OpenRound(u) ELSE UNCHANGED <<status, rounds>>
  BY <1>1 DEF EditCommit
<1>5. canSubmitForApproval(statuses) <=> ~SplitParent
  BY <1>3, CanSubmitMeans DEF ReviewInv
<1>6. CASE value = "submitted" /\ ~SplitParent
  <2>1. OpenRound(u)
    BY <1>3, <1>4, <1>5, <1>6
  <2> QED
    BY <1>1, <1>2, <1>3, <1>6, <2>1, SubmissionKeepsRecord DEF ReviewInv, Cycle!Next
<1>7. CASE ~(value = "submitted" /\ ~SplitParent)
  <2>1. UNCHANGED <<status, rounds>>
    BY <1>4, <1>5, <1>7
  <2>2. value \in {"draft", "submitted", entity}
    BY <1>1 DEF PayloadValues
  <2> QED
    BY <1>2, <1>3, <1>7, <2>1, <2>2, EditKeepsRecord DEF ReviewInv
<1> QED
  BY <1>6, <1>7

LEMMA RejectKeepsRecord ==
  ASSUME ReviewInv, RoundInv', ~ProxyView, NEW s \in Sessions, Reject(s)
  PROVE  RecordInv' /\ [Cycle!Next]_Phase
<1> DEFINE row == work[s].row
           closed == RejectedRound(row, TerminalReject)
<1>1. row \in Rows /\ Row(row) = "pending"
  BY DEF Reject, ReviewInv, Checked, RoundInv, TypeInv, Prepared, RowSteps, DecisionSteps
<1>2. row[1] \in Rounds /\ row[2] \in Flows /\ status[row[1]][row[2]] = "pending" /\ Open(row[1])
  BY <1>1 DEF Rows, Row, Open
<1>3. /\ entity = "submitted" /\ ~Decided
      /\ \A f \in Flows : status[row[1]][f] \in {"pending", "approved", NoRow}
  BY <1>2, OpenIsLast DEF ReviewInv
<1>4. ~approvedAt
  BY <1>3 DEF ReviewInv, RecordInv, Settled
<1>5. /\ status' = [status EXCEPT ![row[1]] = closed] /\ UNCHANGED nRounds
      /\ entity' = "rejected" /\ (approvedAt' <=> TerminalReject)
  <2>1. Dispatches(work[s].entry) /\ (TerminalReject /\ Dispatches(work[s].entry)) = TerminalReject
    BY SwitchAssumption DEF Dispatches
  <2>2. /\ status' = [status EXCEPT ![row[1]] = RejectedRound(row, TerminalReject)]
        /\ UNCHANGED nRounds /\ entity' = "rejected"
    BY <1>4, <2>1 DEF Reject, rounds
  <2>3. approvedAt' = (approvedAt \/ ((TerminalReject /\ Dispatches(work[s].entry)) /\ Dispatches(work[s].entry)
                                     /\ (TerminalReject /\ Dispatches(work[s].entry) => ~approvedAt)))
    BY DEF Reject
  <2> QED
    BY <1>4, <2>1, <2>2, <2>3
<1>6. \A f \in Flows : closed[f] = IF f = row[2] THEN IF TerminalReject THEN "terminal_rejected" ELSE "rejected"
                                   ELSE IF status[row[1]][f] = "pending" THEN "withdrawn"
                                   ELSE status[row[1]][f]
  BY DEF RejectedRound
<1> HIDE DEF closed, row
<1>7. /\ \A f \in Flows : closed[f] # "pending" /\ closed[f] # "split_invalidated"
      /\ \A f \in Flows : (closed[f] = "approved") <=> (status[row[1]][f] = "approved")
      /\ \A f \in Flows : (closed[f] = NoRow) <=> (status[row[1]][f] = NoRow)
  BY <1>2, <1>3, <1>6 DEF NoRow
<1>8. Refused(closed) <=> TerminalReject
  BY <1>2, <1>3, <1>6 DEF Refused, NoRow
<1>9. (approvedAt' <=> Refused(closed)) /\ (Refused(closed) <=> (TerminalReject /\ entity' = "rejected"))
  BY <1>5, <1>8
<1>10. RoundInv /\ RecordInv /\ row[1] \in Rounds /\ Open(row[1])
  BY <1>2 DEF ReviewInv
<1> QED
  BY <1>5, <1>7, <1>9, <1>10, ClosingKeepsRecord

LEMMA WithdrawKeepsRecord ==
  ASSUME ReviewInv, RoundInv', NEW s \in Sessions, Withdraw(s)
  PROVE  RecordInv' /\ [Cycle!Next]_Phase
<1>1. PICK r \in LatestRounds : /\ canWithdrawApproval(RowStatuses(status[r]))
                                /\ status' = [status EXCEPT ![r] = WithdrawnRound(r)]
  BY DEF Withdraw
<1>2. r \in Rounds /\ DOMAIN status[r] = Flows
  BY LatestIsCreated DEF ReviewInv, RoundInv, TypeInv, TypeOK
<1>3. Open(r)
  BY <1>1, <1>2 DEF canWithdrawApproval, RowStatuses, Open
<1>4. ~Decided /\ \A f \in Flows : status[r][f] \in {"pending", "approved", NoRow}
  BY <1>2, <1>3, OpenIsLast DEF ReviewInv
<1>5. entity' = "draft" /\ HasOnWithdrawn /\ UNCHANGED nRounds /\ ~approvedAt'
  BY <1>4 DEF Withdraw, OnWithdrawn, rounds, ReviewInv, RecordInv, Settled
<1> DEFINE closed == WithdrawnRound(r)
<1>6. \A f \in Flows : closed[f] = IF status[r][f] = "pending" THEN "withdrawn" ELSE status[r][f]
  BY DEF WithdrawnRound
<1>7. status' = [status EXCEPT ![r] = closed]
  BY <1>1
<1> HIDE DEF closed
<1>8. /\ \A f \in Flows : closed[f] # "pending" /\ closed[f] # "split_invalidated"
      /\ \A f \in Flows : (closed[f] = "approved") <=> (status[r][f] = "approved")
      /\ \A f \in Flows : (closed[f] = NoRow) <=> (status[r][f] = NoRow)
      /\ ~Refused(closed)
  BY <1>4, <1>6 DEF NoRow, Refused
<1> QED
  BY <1>2, <1>3, <1>5, <1>7, <1>8, ClosingKeepsRecord DEF ReviewInv

(* The setting of the following theorems: one request at a time, approvers  *)
(* that act through the page, no proxy view, rounds told apart by their     *)
(* creation second, and submitters whose roles match some flow.             *)
PageUse ==
  /\ Serial /\ ClientRule /\ ~SameSecond /\ ~ProxyView
  /\ \A u \in Users : FlowsFor[u] # {}

LEMMA StartKeepsReview ==
  ASSUME PageUse, ReviewInv, RoundInv', NEW s \in Sessions, Start(s)
  PROVE  RecordInv' /\ Checked' /\ [Cycle!Next]_Phase
<1>1. Checked'
  BY StartChecked DEF PageUse, ReviewInv, RoundInv
<1>2. ASSUME UNCHANGED <<record, status, rounds>>
      PROVE  RecordInv' /\ [Cycle!Next]_Phase
  BY <1>2, LocalKeepsRecord DEF ReviewInv
<1>3. ASSUME NEW u \in Users, NEW value \in {"draft", "submitted"}, Create(s, u, value)
      PROVE  RecordInv' /\ [Cycle!Next]_Phase
  <2>1. /\ entity = "absent" /\ entity' = value /\ nRounds = 0 /\ UNCHANGED approvedAt /\ ~Decided
        /\ IF value = "submitted" THEN OpenRound(u) ELSE UNCHANGED <<status, rounds>>
    BY <1>3 DEF Create, ReviewInv, RoundInv, Unborn, Decided
  <2>2. ~SplitParent
    BY <2>1 DEF ReviewInv, RecordInv, SplitDone
  <2>3. CASE value = "submitted"
    BY <2>1, <2>2, <2>3, SubmissionKeepsRecord DEF PageUse, ReviewInv, Cycle!Next
  <2>4. CASE value = "draft"
    BY <2>1, <2>4, EditKeepsRecord DEF ReviewInv
  <2> QED
    BY <2>3, <2>4
<1>4. ASSUME NEW u \in Users, SubmitForApproval(s, u)
      PROVE  RecordInv' /\ [Cycle!Next]_Phase
  <2>1. PICK statuses \in LatestStatuses : canSubmitForApproval(statuses)
    BY <1>4 DEF SubmitForApproval
  <2>2. /\ Exists /\ entity' = "submitted" /\ OpenRound(u) /\ UNCHANGED approvedAt
        /\ entity \notin {"absent", "deleted"}
    BY <1>4 DEF SubmitForApproval, Exists
  <2>3. entity # "submitted" /\ ~Decided /\ ~SplitParent
    BY <2>1, <2>2, CanSubmitMeans DEF ReviewInv
  <2> QED
    BY <2>2, <2>3, SubmissionKeepsRecord DEF PageUse, ReviewInv, Cycle!Next
<1>5. ASSUME NEW u \in Users, NEW value \in PayloadValues(entity), EditBegin(s, u, value)
      PROVE  RecordInv' /\ [Cycle!Next]_Phase
  BY <1>2, <1>5 DEF EditBegin
<1>6. ASSUME NEW row \in Rows, NEW entry \in EntryPoints,
             CheckApprove(s, row, entry) \/ CheckReject(s, row, entry)
      PROVE  RecordInv' /\ [Cycle!Next]_Phase
  BY <1>2, <1>6 DEF CheckApprove, CheckReject
<1>7. ASSUME CheckWithdraw(s) \/ CheckSplit(s) \/ CheckDelete(s)
      PROVE  RecordInv' /\ [Cycle!Next]_Phase
  BY <1>2, <1>7 DEF CheckWithdraw, CheckSplit, CheckDelete
<1> QED
  BY <1>1, <1>3, <1>4, <1>5, <1>6, <1>7 DEF Start

LEMMA ContinueKeepsReview ==
  ASSUME PageUse, ReviewInv, SessionInv, RoundInv', NEW s \in Sessions, Continue(s)
  PROVE  RecordInv' /\ Checked' /\ [Cycle!Next]_Phase
<1>1. TypeInv /\ Serial
  BY DEF ReviewInv, RoundInv, PageUse
<1>2. ASSUME Done(s)
      PROVE  Checked'
  BY <1>1, <1>2, DoneChecked
<1>3. ASSUME UNCHANGED <<record, status, rounds>>
      PROVE  RecordInv' /\ [Cycle!Next]_Phase
  BY <1>3, LocalKeepsRecord DEF ReviewInv
<1>4. CASE MiddleStep(s)
  <2>1. UNCHANGED <<record, status, rounds>>
    BY <1>4 DEF MiddleStep, EditUpdate, ApproveBegin, ApproveUpdate, ApproveRead, SplitUpdate
  <2> QED
    BY <1>1, <1>3, <1>4, <2>1, MiddleChecked DEF ReviewInv
<1>5. CASE EditCommit(s)
  BY <1>2, <1>5, EditCommitKeepsRecord DEF EditCommit, PageUse
<1>6. CASE ApproveRest(s) \/ ApproveCommit(s)
  <2> DEFINE row == work[s].row
  <2>1. pc[s] \in DecisionSteps
    BY <1>6 DEF ApproveRest, ApproveCommit, DecisionSteps, ApproveSteps
  <2>2. Row(row) = "pending" /\ PrecedingApproved(status[row[1]], PrecededBy, row[2])
    BY <2>1 DEF ReviewInv, Checked
  <2>3. /\ row \in Rows /\ WriteApproval(row, Fires(row), work[s].entry)
        /\ EndApproval(s, row, Reached(row, Row(row)))
    BY <1>6, ApprovalDecides
  <2> HIDE DEF row
  <2>5. Checked'
    BY <1>1, <2>3, DoneChecked DEF EndApproval
  <2>4. RecordInv' /\ [Cycle!Next]_Phase
    BY <2>2, <2>3, ApprovalKeepsRecord DEF PageUse, ReviewInv
  <2> QED
    BY <2>4, <2>5
<1>12. CASE Announce(s)
  <2>1. \E w : Done(s) \/ Goto(s, "approve_announcing", w)
    BY <1>12 DEF Announce
  <2> QED
    BY <1>1, <1>3, <1>12, <2>1, DoneChecked DEF Announce
<1>7. CASE Reject(s)
  BY <1>2, <1>7, RejectKeepsRecord DEF Reject, PageUse
<1>8. CASE Withdraw(s)
  BY <1>2, <1>8, WithdrawKeepsRecord DEF Withdraw
<1>9. CASE SplitCommit(s)
  <2>1. /\ Splittable /\ Exists /\ entity \notin {"split", "rejected"} /\ ~approvedAt
        /\ ExistingRows # {} /\ work[s].held = ExistingRows
    BY <1>9 DEF SplitCommit, ReviewInv, Checked
  <2>2. /\ Done(s) /\ entity' = "split" /\ UNCHANGED <<approvedAt, nRounds>>
        /\ status' = [r \in Rounds |-> [f \in Flows |->
             IF <<r, f>> \in work[s].held THEN "split_invalidated" ELSE status[r][f]]]
    BY <1>9 DEF SplitCommit, rounds
  <2> QED
    BY <1>2, <2>1, <2>2, SplitKeepsRecord DEF ReviewInv
<1>10. CASE Delete(s)
  <2>1. Exists /\ entity \notin LockedValues
    BY <1>10 DEF Delete, ReviewInv, Checked
  <2>2. /\ Done(s) /\ entity' = "deleted" /\ UNCHANGED <<approvedAt, nRounds>>
        /\ status' = [r \in Rounds |-> [f \in Flows |-> NoRow]]
    BY <1>10 DEF Delete, rounds
  <2> QED
    BY <1>2, <2>1, <2>2, DeleteKeepsRecord DEF ReviewInv
<1>11. CASE Refuse(s)
  BY <1>2, <1>3, <1>11 DEF Refuse
<1> QED
  BY <1>4, <1>5, <1>6, <1>7, <1>8, <1>9, <1>10, <1>11, <1>12 DEF Continue, MiddleStep

LEMMA NextReview ==
  ASSUME PageUse, ReviewInv, SessionInv, [Next]_vars
  PROVE  ReviewInv' /\ SessionInv' /\ [Cycle!Next]_Phase
<1>1. RoundInv' /\ SessionInv'
  BY NextKeepsRounds, NextSession DEF PageUse, ReviewInv, Undisturbed, Serial
<1>2. CASE UNCHANGED vars
  <2>1. UNCHANGED <<record, status, rounds>> /\ UNCHANGED local
    BY <1>2 DEF vars
  <2>2. Checked'
    BY <2>1 DEF ReviewInv, Checked, local, record, Exists, Row, ExistingRows
  <2> QED
    BY <1>1, <2>1, <2>2, LocalKeepsRecord DEF ReviewInv
<1>3. ASSUME NEW s \in Sessions, Fail(s)
      PROVE  RecordInv' /\ Checked' /\ [Cycle!Next]_Phase
  <2>1. Done(s) /\ UNCHANGED <<record, status, rounds>>
    BY <1>3 DEF Fail, Abort, LoseAnnouncement
  <2> QED
    BY <2>1, LocalKeepsRecord, DoneChecked DEF PageUse, ReviewInv, RoundInv
<1> QED
  BY <1>1, <1>2, <1>3, StartKeepsReview, ContinueKeepsReview DEF Next, ReviewInv

LEMMA InitReview == Init => ReviewInv /\ Phase = "absent"
<1> SUFFICES ASSUME Init PROVE ReviewInv /\ Phase = "absent"
  OBVIOUS
<1>1. RoundInv /\ TypeOK
  BY InitRounds, InitType DEF TypeInv
<1>2. /\ \A r \in Rounds, f \in Flows : status[r][f] = NoRow
      /\ entity = "absent" /\ nRounds = 0 /\ ~approvedAt /\ \A s \in Sessions : pc[s] = "idle"
  BY DEF Init
<1>3. \A r \in Rounds : ~Open(r) /\ ~Refused(status[r]) /\ ~HasRows(r) /\ ~AllApproved(status[r])
  BY <1>1, <1>2, Completed DEF Open, Refused, HasRows, NoRow, TypeOK
<1>4. ~SplitParent
  BY <1>2, SplitParentIs DEF NoRow
<1>5. UnderReview /\ Reviewed /\ Settled /\ SplitDone
  BY <1>2, <1>3, <1>4 DEF UnderReview, Reviewed, Settled, Decided, SplitDone
<1>6. Filled /\ ApprovedInOrder
  BY <1>2, <1>3 DEF Filled, Rounds, ApprovedInOrder, NoRow
<1> QED
  BY <1>1, <1>2, <1>4, <1>5, <1>6, IdleChecked DEF ReviewInv, RecordInv, Phase

LEMMA ReviewInvHolds ==
  ASSUME PageUse
  PROVE  Spec => [](ReviewInv /\ SessionInv)
<1>1. Init => ReviewInv /\ SessionInv
  BY InitReview, InitSession
<1>2. ReviewInv /\ SessionInv /\ [Next]_vars => ReviewInv' /\ SessionInv'
  BY NextReview
<1> QED
  BY <1>1, <1>2, PTL DEF Spec

(* A record under review stays at the submit value: no edit, deletion,      *)
(* split or dispatch moves it while a row awaits a decision.                *)
THEOREM ReviewLocksRecord ==
  ASSUME PageUse
  PROVE  Spec => []ReviewLocked
<1>1. ReviewInv => ReviewLocked
  BY DEF ReviewInv, RecordInv, UnderReview, ReviewLocked
<1> QED
  BY <1>1, ReviewInvHolds, PTL

(* A record at the submit value has a round under review: nobody is locked  *)
(* out of a record on which there is nothing to decide.                     *)
THEOREM SubmittedHasRound ==
  ASSUME PageUse
  PROVE  Spec => []SubmittedIsUnderReview
<1>1. ReviewInv => SubmittedIsUnderReview
  BY DEF ReviewInv, RecordInv, Reviewed, SubmittedIsUnderReview
<1> QED
  BY <1>1, ReviewInvHolds, PTL

(* In every round a flow is approved only after the flows that precede it.  *)
THEOREM ApprovalsInOrder ==
  ASSUME PageUse
  PROVE  Spec => []ApprovedInOrder
<1>1. ReviewInv => ApprovedInOrder
  BY DEF ReviewInv, RecordInv
<1> QED
  BY <1>1, ReviewInvHolds, PTL

(* The workflow implements the life cycle that its users are promised:      *)
(* every handler, with its round bookkeeping and its dispatches, is one     *)
(* abstract step or none.                                                   *)
THEOREM ImplementsReviewCycle ==
  ASSUME PageUse
  PROVE  Spec => RefinesReviewCycle
<1>1. Init => Cycle!Init
  BY InitReview DEF Cycle!Init
<1>2. ReviewInv /\ SessionInv /\ [Next]_vars => [Cycle!Next]_Phase
  BY NextReview
<1> QED
  BY <1>1, <1>2, ReviewInvHolds, PTL DEF Spec, RefinesReviewCycle, Cycle!Spec
================================================================================
