------------------------------ MODULE RecordEditing ------------------------------
(***************************************************************************)
(* The generated service of an entity with one list of child records: how   *)
(* a parent record and its children are created, edited from a form that    *)
(* was opened some time ago or by REST, and deleted, by several requests.   *)
(*                                                                         *)
(* What the parent may do with its children is derived from their           *)
(* declaration.  The list of an owned child is written as a difference:     *)
(* missing rows are deleted, unknown ones created.  The list of a child     *)
(* that is connected is set: missing ones are detached, named ones          *)
(* attached.  A form carries a snapshot of the list it showed, which the    *)
(* save compares with the list of that moment.                              *)
(*                                                                         *)
(* Scalar fields, the contents of the children and access rights are left   *)
(* out.                                                                    *)
(***************************************************************************)
EXTENDS Naturals, FiniteSets

CONSTANTS
  Relations,  \* the declarations to choose from
  Masters,    \* parent records of another entity than the children
  Lines,      \* child records
  Sessions,   \* requests at the same time
  MaxBatch,   \* records deleted by one request
  Overlap,    \* another request may write between the checks and the write of a save
  OwnParent   \* in a tree, the form of a record may also change its parent

Declarations ==
  [many : BOOLEAN,      \* a many-to-many relationship
   self : BOOLEAN,      \* the child is the entity itself
   list : BOOLEAN,      \* x-outputType: list, otherwise a grid
   optional : BOOLEAN,  \* the child's foreign key to the parent is nullable
   pages : BOOLEAN,     \* the child can be created, edited or deleted on its own
   approved : BOOLEAN]  \* the children are approval lines of the parent

(* In a tree, children are a list and their link to a parent is nullable.  *)
ASSUME RelationAssumption ==
  Relations \subseteq {d \in Declarations : d.self => d.list /\ d.optional}
ASSUME RecordAssumption == IsFiniteSet(Masters \cup Lines) /\ Masters \cap Lines = {}
ASSUME BoundAssumption == MaxBatch \in Nat /\ {Overlap, OwnParent} \subseteq BOOLEAN

VARIABLES
  relation,  \* the declaration the service was generated from
  status,    \* status[x]: "unused", "live" or "deleted"
  owners,    \* owners[c]: the parents the child c is linked to
  request,   \* request[s]: what session s is doing
  fired      \* fired[x]: how often the effects of deleting x took place

vars == <<relation, status, owners, request, fired>>

-----------------------------------------------------------------------------
(* What the generator derives from a declaration. *)

(* An existing record is picked, none is created inline. *)
UseConnect(d) == d.many \/ d.self \/ (d.list /\ d.optional)

Independent(d) == ~d.many /\ d.pages

NestedWritable(d) == ~Independent(d) \/ d.approved

(* write_ch: the parent's service takes the list. *)
Written(d) == UseConnect(d) \/ NestedWritable(d)

(* The form of the parent has controls for the list and sends it. *)
Offered(d) == UseConnect(d) \/ ~Independent(d)

(* attach_fk: a child of one parent is attached by its foreign key. *)
Guarded(d) == d.list /\ ~d.many /\ d.optional

(* The foreign key is required: a child cannot be without its parent. *)
Bound(d) == ~d.many /\ ~d.optional

-----------------------------------------------------------------------------
Records == Masters \cup Lines
Parents == IF relation.self THEN Lines ELSE Masters

Live == {x \in Records : status[x] = "live"}
Unused == {x \in Records : status[x] = "unused"}
Kids(p) == {c \in Lines : p \in owners[c]}

Idle == [step |-> "idle", via |-> "form", on |-> {}, seen |-> {}, list |-> {}]

(* Mutant: a child is never its own parent's parent, older ones are free. *)
NotParent(p, list) == p \notin list /\ list \cap owners[p] = {}

(* The chain of parents of x, which the guard walks up. *)
Ancestors(x) ==
  LET up[n \in 0..Cardinality(Lines)] ==
        IF n = 0 THEN owners[x]
        ELSE LET below == up[n - 1] IN below \cup UNION {owners[y] : y \in below \cap Lines}
  IN up[Cardinality(Lines)]

(* In a tree: neither the record itself nor one of its ancestors. *)
NotAbove(p, list) == p \notin list /\ list \cap Ancestors(p) = {}

(* No record of the list has another parent. *)
Unattached(p, list) == \A c \in list : owners[c] \subseteq {p}

(* The attach guard of an update. *)
MayAttach(p, list) ==
  Guarded(relation) =>
    /\ Unattached(p, list)
    /\ relation.self => NotAbove(p, list)

(* The attach guard of a creation: nothing is above the new record. *)
MayAttachNew(list) == Guarded(relation) => \A c \in list : owners[c] = {}

(* None of the others is between the checks and the write of a save. *)
Alone(others) == Overlap \/ \A t \in others : request[t].step # "checked"

Init ==
  /\ relation \in Relations
  /\ status = [x \in Records |->
                 IF x \in Lines /\ ~Bound(relation) THEN "live" ELSE "unused"]
  /\ owners = [c \in Lines |-> {}]
  /\ request = [s \in Sessions |-> Idle]
  /\ fired = [x \in Records |-> 0]

-----------------------------------------------------------------------------
(* The write of a list. *)

(* connect and set *)
Connect(p, list) ==
  /\ list \subseteq Live
  /\ owners' = [c \in Lines |->
                  IF c \notin list THEN owners[c] \ {p}
                  ELSE IF relation.many THEN owners[c] \cup {p} ELSE {p}]
  /\ UNCHANGED status

(* deleteMany, update and create; a row to update that is no child of p     *)
(* makes the statement fail.                                               *)
Rewrite(p, list) ==
  /\ list \subseteq Kids(p) \cup Unused
  /\ status' = [x \in Records |->
                  IF x \in list THEN "live"
                  ELSE IF x \in Kids(p) THEN "deleted" ELSE status[x]]
  /\ owners' = [c \in Lines |-> IF c \in list THEN {p} ELSE owners[c] \ {p}]

WriteList(p, list) ==
  IF ~Written(relation) THEN UNCHANGED <<status, owners>>
  ELSE IF UseConnect(relation) THEN Connect(p, list)
  ELSE Rewrite(p, list)

(* add<Parent>: the record is created with its children.                   *)
Create(p, list) ==
  /\ p \in Parents \cap Unused
  /\ Alone(Sessions)
  /\ list \subseteq IF ~Written(relation) THEN {}
                    ELSE IF UseConnect(relation) THEN Live ELSE Unused
  /\ MayAttachNew(list)
  /\ status' = [x \in Records |-> IF x \in list \cup {p} THEN "live" ELSE status[x]]
  /\ owners' = [c \in Lines |->
                  IF c \notin list THEN owners[c]
                  ELSE IF relation.many THEN owners[c] \cup {p} ELSE {p}]
  /\ UNCHANGED <<relation, request, fired>>

-----------------------------------------------------------------------------
(* A save, from a form or by REST. *)

OpenForm(s, p) ==
  /\ request[s] = Idle /\ p \in Parents \cap Live
  /\ request' = [request EXCEPT ![s] =
       [step |-> "open", via |-> "form", on |-> {p}, seen |-> Kids(p), list |-> {}]]
  /\ UNCHANGED <<relation, status, owners, fired>>

(* A PUT or an import that omits the list: the list is read and sent back. *)
OmitList(s, p) ==
  /\ request[s] = Idle /\ p \in Parents \cap Live
  /\ request' = [request EXCEPT ![s] =
       [step |-> "open", via |-> "omitted", on |-> {p}, seen |-> Kids(p), list |-> Kids(p)]]
  /\ UNCHANGED <<relation, status, owners, fired>>

(* What the form sends: nothing for a list it only displays.               *)
Sent(list, seen) ==
  IF ~Offered(relation) THEN list = {}
  ELSE IF UseConnect(relation) THEN list \subseteq Lines
  ELSE list \subseteq seen \cup (Lines \cap Unused)

(* Mutant: the snapshot leaves the children out. *)
ScalarsOnly(p, seen) == TRUE

(* assertNotStale, for a list the service writes. *)
UpToDate(p, seen) == Written(relation) => Kids(p) = seen

Checked(s, p, via, seen, list) ==
  /\ Alone(Sessions \ {s})
  /\ p \in Parents \cap Live /\ MayAttach(p, list)
  /\ request' = [request EXCEPT ![s] =
       [step |-> "checked", via |-> via, on |-> {p}, seen |-> seen, list |-> list]]
  /\ UNCHANGED <<relation, status, owners, fired>>

CheckForm(s, p, list) ==
  /\ request[s].step = "open" /\ request[s].via = "form" /\ request[s].on = {p}
  /\ Sent(list, request[s].seen)
  /\ UpToDate(p, request[s].seen)
  /\ Checked(s, p, "form", request[s].seen, list)

CheckOmitted(s, p) ==
  /\ request[s].step = "open" /\ request[s].via = "omitted" /\ request[s].on = {p}
  /\ Checked(s, p, "omitted", request[s].seen, request[s].list)

(* A PUT that names the list carries no snapshot. *)
CheckPut(s, p, list) == request[s] = Idle /\ Checked(s, p, "put", {}, list)

Save(s, p) ==
  /\ request[s].step = "checked" /\ request[s].on = {p}
  /\ Alone(Sessions \ {s})
  /\ p \in Live
  /\ WriteList(p, request[s].list)
  /\ request' = [request EXCEPT ![s] = Idle]
  /\ UNCHANGED <<relation, fired>>

(* The form is closed, or the request fails and is rolled back.            *)
Abandon(s) ==
  /\ request[s] # Idle
  /\ request' = [request EXCEPT ![s] = Idle]
  /\ UNCHANGED <<relation, status, owners, fired>>

-----------------------------------------------------------------------------
(* The child's own pages. *)

Holders == {{p} : p \in Parents \cap Live} \cup IF Bound(relation) THEN {} ELSE {{}}

OwnCreate(c, of) ==
  /\ relation.pages /\ ~relation.self /\ c \in Unused
  /\ Alone(Sessions)
  /\ of \in Holders
  /\ status' = [status EXCEPT ![c] = "live"]
  /\ owners' = [owners EXCEPT ![c] = of]
  /\ UNCHANGED <<relation, request, fired>>

(* The form of the child changes its foreign key. *)
OwnEdit(c, of) ==
  /\ ~relation.many /\ c \in Live
  /\ IF relation.self THEN OwnParent ELSE relation.pages
  /\ Alone(Sessions)
  /\ of \in Holders
  /\ owners' = [owners EXCEPT ![c] = of]
  /\ UNCHANGED <<relation, status, request, fired>>

-----------------------------------------------------------------------------
(* delete<Parent>, of the parents or of the children: the rows are read,   *)
(* deleted by id, and afterDelete runs for the rows that were read unless  *)
(* the statement deleted none.                                             *)

Deletable == Parents \cup (IF relation.pages THEN Lines ELSE {})

ReadToDelete(s, batch) ==
  /\ request[s] = Idle
  /\ batch # {} /\ batch \subseteq Deletable \cap Live
  /\ Cardinality(batch) <= MaxBatch
  /\ request' = [request EXCEPT ![s] =
       [step |-> "deleting", via |-> "form", on |-> batch, seen |-> {}, list |-> {}]]
  /\ UNCHANGED <<relation, status, owners, fired>>

(* Mutant: the foreign keys to a deleted record stay. *)
OnlyRow(gone) ==
  /\ status' = [x \in Records |-> IF x \in gone THEN "deleted" ELSE status[x]]
  /\ UNCHANGED owners

(* onDelete: Cascade for a required foreign key, otherwise SetNull.        *)
Remove(gone) ==
  LET orphans == IF Bound(relation) THEN {c \in Lines : owners[c] \cap gone # {}} ELSE {}
      removed == gone \cup orphans
  IN /\ status' = [x \in Records |-> IF x \in removed THEN "deleted" ELSE status[x]]
     /\ owners' = [c \in Lines |-> IF c \in removed THEN {} ELSE owners[c] \ gone]

(* Mutant: afterDelete runs whatever was deleted. *)
EffectsAlways(batch, gone) == batch

(* The rows afterDelete runs for. *)
Effects(batch, gone) == IF gone = {} THEN {} ELSE batch

DeleteRows(s) ==
  LET batch == request[s].on
      gone == batch \cap Live
      hit == Effects(batch, gone)
  IN /\ request[s].step = "deleting"
     /\ Alone(Sessions \ {s})
     /\ Remove(gone)
     /\ fired' = [x \in Records |-> IF x \in hit THEN fired[x] + 1 ELSE fired[x]]
     /\ request' = [request EXCEPT ![s] = Idle]
     /\ UNCHANGED relation

-----------------------------------------------------------------------------
Next ==
  \/ \E p \in Records, list \in SUBSET Lines : Create(p, list)
  \/ \E s \in Sessions, p \in Records :
       OpenForm(s, p) \/ OmitList(s, p) \/ CheckOmitted(s, p) \/ Save(s, p)
  \/ \E s \in Sessions, p \in Records, list \in SUBSET Lines :
       CheckForm(s, p, list) \/ CheckPut(s, p, list)
  \/ \E c \in Lines, of \in SUBSET Records : OwnCreate(c, of) \/ OwnEdit(c, of)
  \/ \E s \in Sessions, batch \in SUBSET Records : ReadToDelete(s, batch)
  \/ \E s \in Sessions : DeleteRows(s) \/ Abandon(s)

Spec == Init /\ [][Next]_vars

-----------------------------------------------------------------------------
(* Properties. *)

(* Type correctness: links lead to live records of the parent entity, a     *)
(* child of one parent has at most one link, and a child whose foreign key  *)
(* is required has one as long as it lives.                                *)
TypeOK ==
  /\ relation \in Relations
  /\ status \in [Records -> {"unused", "live", "deleted"}]
  /\ owners \in [Lines -> SUBSET Records]
  /\ \A c \in Lines :
       /\ owners[c] \subseteq Parents \cap Live
       /\ owners[c] # {} => c \in Live
       /\ ~relation.many => \A p, q \in owners[c] : p = q
       /\ Bound(relation) /\ c \in Live /\ ~relation.self => owners[c] # {}
  /\ request \in [Sessions -> [step : {"idle", "open", "checked", "deleting"},
                               via : {"form", "put", "omitted"},
                               on : SUBSET Records, seen : SUBSET Lines, list : SUBSET Lines]]
  /\ fired \in [Records -> Nat]

(* The save of session s commits in this step. *)
Commits(s, p) ==
  request[s].step = "checked" /\ request[s].on = {p} /\ request'[s] = Idle

(* What a request that omits the list overlooks: the service reads the list *)
(* for it, and compares it with nothing when it writes it back.             *)
Overlooks(s, c) == request[s].via = "omitted" /\ c \notin request[s].seen

(* A child leaves a parent by a save of that parent from a form that showed *)
(* the child there and had a control to remove it, by a PUT that names the  *)
(* new list, by an edit of the child itself, or by the deletion of one of   *)
(* the two: knowingly; or it is overlooked by a save of that parent whose   *)
(* list was omitted and read before the child was added.  Nobody said to    *)
(* take that one, and "an omitted relation/child-list field leaves the      *)
(* existing relation unchanged" (build_context.py:4160-4161) is not so.  No *)
(* other parent takes a child away, and no save from a form takes one that  *)
(* it did not show.                                                         *)
TakenOrOverlooked ==
  [][\A c \in Lines : \A p \in owners[c] \ owners'[c] :
       \/ \E s \in Sessions :
            /\ Commits(s, p)
            /\ \/ request[s].via = "put"
               \/ request[s].via = "form" /\ c \in request[s].seen
               \/ Overlooks(s, c)
       \/ \E s \in Sessions : request[s].step = "deleting" /\ {c, p} \cap request[s].on # {}
       \/ UNCHANGED <<status, request>>]_vars

(* Attaching children never closes a cycle in a tree of records.           *)
NoCycles == relation.self /\ ~relation.many => \A c \in Lines : c \notin Ancestors(c)

(* Deletions that overlap run the effects of deleting a record once, and   *)
(* only if it is gone.                                                     *)
DeletedOnce ==
  \A x \in Records : fired[x] <= 1 /\ (fired[x] = 1 => status[x] = "deleted")
================================================================================
