----------------------------- MODULE RecordVersions -----------------------------
(***************************************************************************)
(* Record versions (x-version-of): an identity record, such as a product,  *)
(* and its version records, each approved like any other record.           *)
(*                                                                         *)
(* A version takes its number when it is approved: the highest number of   *)
(* its identity plus one, and it becomes the identity's current version.   *)
(* An identity is meant to have one open draft at a time, which the        *)
(* creation of a version checks, and to be deletable only while it has no  *)
(* approved version, which its deletion checks.                            *)
(*                                                                         *)
(* The checks and the writes of one transaction are separate steps, since  *)
(* all transactions but those of the REST decisions are READ COMMITTED.    *)
(* What a transaction wrote reaches the shared state when it commits.      *)
(***************************************************************************)
EXTENDS Naturals, FiniteSets

CONSTANTS
  Identities,   \* identity records
  Versions,     \* ids version records may get
  NoVersion,    \* a null current_version_id
  NoIdentity,   \* the foreign key of a version that is not there
  Sessions,     \* requests in flight at the same time
  Terminal,     \* x-approval.on_rejected.terminal of the version entity
  StaleWrites   \* a guarded edit or deletion may write after its guard stopped holding

ASSUME NullAssumption == NoVersion \notin Versions /\ NoIdentity \notin Identities
ASSUME FiniteAssumption == IsFiniteSet(Versions)
ASSUME SwitchAssumption == {Terminal, StaleWrites} \subseteq BOOLEAN

VARIABLES
  identity,  \* identity[i]: "active", "retired" (invalidated_at set) or "deleted"
  current,   \* current[i]: current_version_id
  state,     \* state[v]: where the version record stands
  of,        \* of[v]: the identity its foreign key points at
  number,    \* number[v]: its number, 0 for null
  pc,        \* pc[s]: the step session s has reached
  work,      \* work[s]: the version, identity and number it works with
  overlaps,  \* pairs of versions created by transactions that overlapped
  moved      \* versions an edit has given to another identity

records == <<identity, current, state, of, number>>
local == <<pc, work>>
history == <<overlaps, moved>>
vars == <<records, local, history>>

-----------------------------------------------------------------------------
(* A version returned to its author, by a withdrawal or a rejection that is *)
(* not terminal, is a draft again.                                          *)
VersionState == {"unused", "draft", "pending", "approved", "terminal", "deleted"}
Steps == {"idle", "create_checked", "edit_read", "delete_read", "drop_read", "approve_read"}
Numbers == 0..Cardinality(Versions)
Work == [v : Versions \cup {NoVersion}, i : Identities \cup {NoIdentity}, n : Numbers]
Blank == [v |-> NoVersion, i |-> NoIdentity, n |-> 0]

IsOpen(v) == state[v] \in {"draft", "pending"}
Exists(v) == state[v] \notin {"unused", "deleted"}
Numbered(i) == {v \in Versions : of[v] = i /\ number[v] # 0}

(* _max of the version numbers of i, 0 when it has none. *)
Top(i) ==
  IF Numbered(i) = {} THEN 0
  ELSE CHOOSE n \in {number[v] : v \in Numbered(i)} : \A v \in Numbered(i) : number[v] <= n

(* assertSingleOpenDraft: no other committed version of i is open. *)
SingleOpenDraft(i) == \A v \in Versions : of[v] = i => ~IsOpen(v)

(* assertIdentityDeletable. *)
Deletable(i) == Numbered(i) = {}

(* A version's row is locked for edits and deletion once it was submitted. *)
Unlocked(v) == state[v] = "draft"

(* An approval locks the request row and, by on_approved.set_fields, the    *)
(* version row, until its transaction ends.                                *)
Locked(v) == \E s \in Sessions : pc[s] = "approve_read" /\ work[s].v = v

(* Only the past of open versions is remembered. *)
Forgotten(closed) ==
  /\ overlaps' = {pair \in overlaps : pair \cap closed = {}}
  /\ moved' = moved \ closed

Goto(s, step, v, i, n) ==
  /\ pc' = [pc EXCEPT ![s] = step]
  /\ work' = [work EXCEPT ![s] = [v |-> v, i |-> i, n |-> n]]

Done(s) ==
  /\ pc' = [pc EXCEPT ![s] = "idle"]
  /\ work' = [work EXCEPT ![s] = Blank]

(* Creations of versions of i that have been checked and not committed. *)
BeingCreated(i) ==
  {work[s].v : s \in {t \in Sessions : pc[t] = "create_checked" /\ work[t].i = i}}

Init ==
  /\ identity = [i \in Identities |-> "active"]
  /\ current = [i \in Identities |-> NoVersion]
  /\ state = [v \in Versions |-> "unused"]
  /\ of = [v \in Versions |-> NoIdentity]
  /\ number = [v \in Versions |-> 0]
  /\ pc = [s \in Sessions |-> "idle"]
  /\ work = [s \in Sessions |-> Blank]
  /\ overlaps = {}
  /\ moved = {}

-----------------------------------------------------------------------------
(***************************************************************************)
(* Creating a version: the row is inserted, then the identity and the open *)
(* siblings are checked, among the rows committed by then.                 *)
(***************************************************************************)
CreateCheck(s, v, i) ==
  /\ pc[s] = "idle"
  /\ state[v] = "unused" /\ \A t \in Sessions : pc[t] = "create_checked" => work[t].v # v
  /\ identity[i] = "active"
  /\ SingleOpenDraft(i)
  /\ Goto(s, "create_checked", v, i, 0)
  /\ UNCHANGED <<records, history>>

(* A row created at the submit value is submitted in the same transaction. *)
CreateCommit(s, value) ==
  LET v == work[s].v
      i == work[s].i
  IN /\ pc[s] = "create_checked"
     /\ state' = [state EXCEPT ![v] = value]
     /\ of' = [of EXCEPT ![v] = i]
     /\ overlaps' = overlaps \cup {{v, u} : u \in BeingCreated(i) \ {v}}
     /\ Done(s)
     /\ UNCHANGED <<identity, current, number, moved>>

(* The identity is retired by its invalidate handler. *)
Retire(i) ==
  /\ identity[i] = "active"
  /\ identity' = [identity EXCEPT ![i] = "retired"]
  /\ UNCHANGED <<current, state, of, number, local, history>>

-----------------------------------------------------------------------------
(***************************************************************************)
(* Editing a version: the row is read for the edit guard and for its       *)
(* number, which the update writes back.  The form may choose another      *)
(* identity, and the submit value.                                         *)
(***************************************************************************)
EditRead(s, v, i) ==
  /\ pc[s] = "idle" /\ Unlocked(v) /\ identity[i] # "deleted"
  /\ Goto(s, "edit_read", v, i, number[v])
  /\ UNCHANGED <<records, history>>

EditWrite(s, value) ==
  LET v == work[s].v
      i == work[s].i
  IN /\ pc[s] = "edit_read" /\ Exists(v) /\ ~Locked(v) /\ identity[i] # "deleted"
     /\ StaleWrites \/ Unlocked(v)
     /\ state' = [state EXCEPT ![v] = IF Unlocked(v) THEN value ELSE @]
     /\ of' = [of EXCEPT ![v] = i]
     /\ number' = [number EXCEPT ![v] = work[s].n]
     /\ moved' = IF of[v] = i \/ ~IsOpen(v) THEN moved ELSE moved \cup {v}
     /\ Done(s)
     /\ UNCHANGED <<identity, current, overlaps>>

Submit(v) ==
  /\ state[v] = "draft"
  /\ state' = [state EXCEPT ![v] = "pending"]
  /\ UNCHANGED <<identity, current, of, number, local, history>>

(* A withdrawal, or a rejection that is not terminal. *)
Return(v) ==
  /\ state[v] = "pending" /\ ~Locked(v)
  /\ state' = [state EXCEPT ![v] = "draft"]
  /\ UNCHANGED <<identity, current, of, number, local, history>>

RejectForGood(v) ==
  /\ Terminal /\ state[v] = "pending" /\ ~Locked(v)
  /\ state' = [state EXCEPT ![v] = "terminal"]
  /\ Forgotten({v})
  /\ UNCHANGED <<identity, current, of, number, local>>

-----------------------------------------------------------------------------
(* Mutant: the dispatch numbers the version and leaves current alone. *)
NumberedOnly(v, i, n) ==
  /\ state' = [state EXCEPT ![v] = "approved"]
  /\ number' = [number EXCEPT ![v] = n]
  /\ Forgotten({v})
  /\ UNCHANGED current

(* The final approval: on_approved and assignVersionNumber. *)
Assigned(v, i, n) ==
  /\ state' = [state EXCEPT ![v] = "approved"]
  /\ number' = [number EXCEPT ![v] = n]
  /\ current' = [current EXCEPT ![i] = v]
  /\ Forgotten({v})

(* Mutant: the unique constraint on (identity, number) is missing. *)
AnyNumber(i, n) == TRUE

(* The database's unique constraint on (identity, number), which            *)
(* validate_version_of_prisma requires of the Prisma schema.                *)
NumberFree(i, n) == \A v \in Numbered(i) : number[v] # n

(* The REST route decides in one Serializable transaction. *)
ApproveRest(v) ==
  /\ state[v] = "pending" /\ ~Locked(v)
  /\ Assigned(v, of[v], Top(of[v]) + 1)
  /\ UNCHANGED <<identity, of, local>>

(* The server action approves in a READ COMMITTED transaction: the highest *)
(* number is read, and another approval may commit before the write.       *)
ApproveRead(s, v) ==
  /\ pc[s] = "idle" /\ state[v] = "pending" /\ ~Locked(v)
  /\ Goto(s, "approve_read", v, of[v], Top(of[v]) + 1)
  /\ UNCHANGED <<records, history>>

ApproveWrite(s) ==
  LET v == work[s].v
      i == work[s].i
  IN /\ pc[s] = "approve_read" /\ state[v] = "pending"
     /\ NumberFree(i, work[s].n)
     /\ Assigned(v, i, work[s].n)
     /\ Done(s)
     /\ UNCHANGED <<identity, of>>

-----------------------------------------------------------------------------
(* Deleting a version: the delete guard looks at the row it read, the      *)
(* statement then deletes by id.                                           *)
DeleteRead(s, v) ==
  /\ pc[s] = "idle" /\ Unlocked(v)
  /\ Goto(s, "delete_read", v, of[v], 0)
  /\ UNCHANGED <<records, history>>

(* Mutant: a deletion nulls the foreign keys of the versions and keeps them. *)
Orphaned(gone) ==
  /\ of' = [v \in Versions |-> IF v \in gone THEN NoIdentity ELSE of[v]]
  /\ Forgotten(gone)
  /\ UNCHANGED <<current, state, number>>

Removed(gone) ==
  /\ state' = [v \in Versions |-> IF v \in gone THEN "deleted" ELSE state[v]]
  /\ of' = [v \in Versions |-> IF v \in gone THEN NoIdentity ELSE of[v]]
  /\ number' = [v \in Versions |-> IF v \in gone THEN 0 ELSE number[v]]
  /\ Forgotten(gone)
  /\ current' = [i \in Identities |-> IF current[i] \in gone THEN NoVersion ELSE current[i]]

DeleteWrite(s) ==
  /\ pc[s] = "delete_read" /\ Exists(work[s].v) /\ ~Locked(work[s].v)
  /\ StaleWrites \/ Unlocked(work[s].v)
  /\ Removed({work[s].v})
  /\ Done(s)
  /\ UNCHANGED identity

(***************************************************************************)
(* Deleting an identity: its approved versions are counted, then the row   *)
(* is deleted and its versions with it.  The delete waits while a version  *)
(* that points at the identity is being inserted.                          *)
(***************************************************************************)
DropRead(s, i) ==
  /\ pc[s] = "idle" /\ identity[i] # "deleted"
  /\ Deletable(i)
  /\ Goto(s, "drop_read", NoVersion, i, 0)
  /\ UNCHANGED <<records, history>>

DropWrite(s) ==
  LET i == work[s].i
  IN /\ pc[s] = "drop_read" /\ identity[i] # "deleted"
     /\ BeingCreated(i) = {}
     /\ \A v \in Versions : of[v] = i => ~Locked(v)
     /\ StaleWrites \/ Deletable(i)
     /\ identity' = [identity EXCEPT ![i] = "deleted"]
     /\ Removed({v \in Versions : of[v] = i})
     /\ Done(s)

(* A request that fails, loses its object or hits the unique constraint is *)
(* rolled back.                                                            *)
Abort(s) ==
  /\ pc[s] # "idle"
  /\ Done(s)
  /\ UNCHANGED <<records, history>>

-----------------------------------------------------------------------------
Next ==
  \/ \E s \in Sessions, v \in Versions, i \in Identities :
       CreateCheck(s, v, i) \/ EditRead(s, v, i)
  \/ \E s \in Sessions, value \in {"draft", "pending"} :
       CreateCommit(s, value) \/ EditWrite(s, value)
  \/ \E s \in Sessions, v \in Versions : ApproveRead(s, v) \/ DeleteRead(s, v)
  \/ \E s \in Sessions, i \in Identities : DropRead(s, i)
  \/ \E s \in Sessions : ApproveWrite(s) \/ DeleteWrite(s) \/ DropWrite(s) \/ Abort(s)
  \/ \E v \in Versions : Submit(v) \/ Return(v) \/ RejectForGood(v) \/ ApproveRest(v)
  \/ \E i \in Identities : Retire(i)

Spec == Init /\ [][Next]_vars

-----------------------------------------------------------------------------
(* Properties. *)

(* Type correctness: numbers never exceed the versions there are, and what *)
(* a request works on is a record.                                         *)
TypeOK ==
  /\ identity \in [Identities -> {"active", "retired", "deleted"}]
  /\ current \in [Identities -> Versions \cup {NoVersion}]
  /\ state \in [Versions -> VersionState]
  /\ of \in [Versions -> Identities \cup {NoIdentity}]
  /\ \A v \in Versions : Exists(v) <=> of[v] # NoIdentity
  /\ number \in [Versions -> Numbers]
  /\ pc \in [Sessions -> Steps]
  /\ work \in [Sessions -> Work]
  /\ \A s \in Sessions : (pc[s] # "idle" => work[s].i # NoIdentity)
       /\ (pc[s] \notin {"idle", "drop_read"} => work[s].v # NoVersion)
  /\ overlaps \subseteq SUBSET Versions
  /\ moved \subseteq Versions

(* The current version of an identity is its highest-numbered one and is   *)
(* approved, and an identity without numbered versions has none, whatever  *)
(* approvals overlap.                                                      *)
CurrentIsNewest ==
  \A i \in Identities :
    IF Numbered(i) = {} THEN current[i] = NoVersion
    ELSE /\ current[i] \in Numbered(i) /\ state[current[i]] = "approved"
         /\ number[current[i]] = Top(i)

(* Two open drafts of one identity are there only because the transactions *)
(* that created them overlapped, or because an edit moved one of them      *)
(* there: the check of a creation finds every open draft committed before. *)
OpenDraftsOverlapped ==
  \A u, v \in Versions :
    u # v /\ IsOpen(u) /\ IsOpen(v) /\ of[u] = of[v] /\ {u, v} \cap moved = {}
    => {u, v} \in overlaps

(* The history of an identity: its numbered versions in the order of their *)
(* numbers, which must be 1, 2, ... without a gap.                         *)
HistoryOf(i) ==
  [n \in 1..Top(i) |-> CHOOSE v \in Numbered(i) : number[v] = n]

History == INSTANCE VersionHistory WITH
  history <- [i \in Identities |-> HistoryOf(i)],
  kept <- [i \in Identities |-> identity[i] # "deleted"]

(* The numbering keeps the promise of VersionHistory: a history grows only  *)
(* at its end, no approved version leaves it or changes its place, and an  *)
(* identity that has one is never deleted.                                  *)
RefinesHistory == History!Spec
================================================================================
