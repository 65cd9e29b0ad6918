---- MODULE RecordEditingProofs ----
(***************************************************************************)
(* The properties of RecordEditing for any declarations, records and        *)
(* sessions: the links between parents and children, what a save may take   *)
(* away when no other request writes in between, that trees of records stay *)
(* trees, and, for deletions of one record at a time, how often their       *)
(* effects take place.                                                      *)
(***************************************************************************)
EXTENDS RecordEditing, FiniteSetTheorems, WellFoundedInduction, TLAPS

-----------------------------------------------------------------------------
(* The inductive invariant of the types. *)

Phases == [step : {"idle", "open", "checked", "deleting"},
           via : {"form", "put", "omitted"},
           on : SUBSET Records, seen : SUBSET Lines, list : SUBSET Lines]

(* What TypeOK says of the links of one child. *)
LinksOK(c) ==
  /\ owners[c] \subseteq Parents \cap Live
  /\ owners[c] # {} => c \in Live
  /\ ~relation.many => \A p, q \in owners[c] : p = q
  /\ Bound(relation) /\ c \in Live /\ ~relation.self => owners[c] # {}

(* A save is about one parent. *)
OnParent(s) == request[s].step \in {"open", "checked"} => \E p \in Parents : request[s].on = {p}

EditInv == TypeOK /\ \A s \in Sessions : OnParent(s)

(* What the declarations allow: a list that is written as a difference has  *)
(* parents of another entity, and so has a required foreign key.            *)
LEMMA Declared ==
  ASSUME TypeOK
  PROVE  /\ relation \in Declarations
         /\ relation.self => relation.list /\ relation.optional
         /\ Parents \subseteq Records
         /\ ~UseConnect(relation) => ~relation.many /\ ~relation.self /\ Parents = Masters
         /\ Bound(relation) => ~UseConnect(relation)
         /\ Masters \cap Lines = {}
<1>1. relation \in {d \in Declarations : d.self => d.list /\ d.optional}
  BY RelationAssumption DEF TypeOK
<1> QED
  BY <1>1, RecordAssumption DEF Declarations, Parents, Records, UseConnect, Bound

(* What a session does changes: the rest of TypeOK is about the records.    *)
LEMMA RequestStep ==
  ASSUME EditInv, NEW s \in Sessions, NEW r \in Phases,
         request' = [request EXCEPT ![s] = r],
         r.step \in {"open", "checked"} => \E p \in Parents : r.on = {p},
         UNCHANGED <<relation, status, owners, fired>>
  PROVE  EditInv'
<1>1. TypeOK'
  BY DEF EditInv, TypeOK, Phases, Parents, Live, Bound
<1>2. ASSUME NEW t \in Sessions
      PROVE  OnParent(t)'
  <2>1. CASE t = s
    BY <2>1 DEF OnParent, Parents, EditInv, TypeOK
  <2>2. CASE t # s
    BY <2>2 DEF OnParent, Parents, EditInv, TypeOK
  <2> QED
    BY <2>1, <2>2
<1> QED
  BY <1>1, <1>2 DEF EditInv

(* The records change, and a session at most comes to rest.                 *)
LEMMA RecordStep ==
  ASSUME EditInv, UNCHANGED relation,
         status' \in [Records -> {"unused", "live", "deleted"}],
         owners' \in [Lines -> SUBSET Records],
         fired' \in [Records -> Nat],
         \A c \in Lines : LinksOK(c)',
         \/ UNCHANGED request
         \/ \E s \in Sessions : request' = [request EXCEPT ![s] = Idle]
  PROVE  EditInv'
<1>1. request' \in [Sessions -> Phases]
  BY DEF EditInv, TypeOK, Phases, Idle
<1>2. TypeOK'
  BY <1>1 DEF EditInv, TypeOK, LinksOK, Phases
<1>3. ASSUME NEW t \in Sessions
      PROVE  OnParent(t)'
  BY DEF OnParent, Parents, EditInv, TypeOK, Idle
<1> QED
  BY <1>2, <1>3 DEF EditInv

(* The rows of one parent are connected: the others only lose nothing.      *)
LEMMA ConnectLinks ==
  ASSUME TypeOK, UNCHANGED relation, UseConnect(relation),
         NEW p \in Parents, p \in Live, NEW list \in SUBSET Lines, Connect(p, list)
  PROVE  /\ owners' \in [Lines -> SUBSET Records]
         /\ \A c \in Lines : LinksOK(c)'
<1>1. /\ list \subseteq Live /\ status' = status
      /\ owners' = [c \in Lines |->
                      IF c \notin list THEN owners[c] \ {p}
                      ELSE IF relation.many THEN owners[c] \cup {p} ELSE {p}]
  BY DEF Connect
<1>2. owners' \in [Lines -> SUBSET Records]
  BY <1>1, Declared DEF TypeOK
<1>3. ~Bound(relation)
  BY Declared
<1>4. Live' = Live /\ Parents' = Parents
  BY <1>1 DEF Live, Parents, Records
<1>5. ASSUME NEW c \in Lines
      PROVE  LinksOK(c)'
  <2>1. LinksOK(c)
    BY DEF TypeOK, LinksOK
  <2> QED
    BY <1>1, <1>3, <1>4, <2>1 DEF LinksOK, Bound
<1> QED
  BY <1>2, <1>5

(* The rows of one parent are replaced.                                     *)
LEMMA RewriteLinks ==
  ASSUME TypeOK, UNCHANGED relation, ~UseConnect(relation),
         NEW p \in Parents, p \in Live, NEW list \in SUBSET Lines, Rewrite(p, list)
  PROVE  /\ status' \in [Records -> {"unused", "live", "deleted"}]
         /\ owners' \in [Lines -> SUBSET Records]
         /\ \A c \in Lines : LinksOK(c)'
<1>1. /\ list \subseteq Kids(p) \cup Unused
      /\ status' = [x \in Records |->
                      IF x \in list THEN "live"
                      ELSE IF x \in Kids(p) THEN "deleted" ELSE status[x]]
      /\ owners' = [c \in Lines |-> IF c \in list THEN {p} ELSE owners[c] \ {p}]
  BY DEF Rewrite
<1>2. status' \in [Records -> {"unused", "live", "deleted"}]
  BY <1>1 DEF TypeOK
<1>3. owners' \in [Lines -> SUBSET Records]
  BY <1>1, Declared DEF TypeOK
<1>4. Kids(p) \subseteq Lines /\ Masters \cap Lines = {} /\ Parents = Masters /\ Parents' = Masters
  BY Declared DEF Kids, Parents
<1>5. ASSUME NEW c \in Lines
      PROVE  LinksOK(c)'
  <2>1. LinksOK(c) /\ ~relation.many /\ owners[c] \subseteq Records
    BY Declared DEF TypeOK, LinksOK
  <2>2. \A q \in Masters : q \in Live => q \in Live'
    BY <1>1, <1>4 DEF Live, Records
  <2>3. CASE c \in list
    <3>1. owners'[c] = {p} /\ c \in Live'
      BY <1>1, <2>3 DEF Live, Records
    <3> QED
      BY <2>1, <2>2, <3>1, <1>4 DEF LinksOK
  <2>4. CASE c \notin list /\ c \in Kids(p)
    <3>1. owners'[c] = {} /\ c \notin Live'
      BY <1>1, <2>1, <2>4 DEF Live, Records, Kids, LinksOK
    <3> QED
      BY <3>1 DEF LinksOK
  <2>5. CASE c \notin list /\ c \notin Kids(p)
    <3>1. owners'[c] = owners[c] /\ (c \in Live <=> c \in Live')
      BY <1>1, <2>5 DEF Live, Records, Kids
    <3> QED
      BY <2>1, <2>2, <3>1, <1>4 DEF LinksOK, Bound
  <2> QED
    BY <2>3, <2>4, <2>5
<1> QED
  BY <1>2, <1>3, <1>5

(* The list of a save is written.                                           *)
LEMMA WriteLinks ==
  ASSUME TypeOK, UNCHANGED relation,
         NEW p \in Parents, p \in Live, NEW list \in SUBSET Lines, WriteList(p, list)
  PROVE  /\ status' \in [Records -> {"unused", "live", "deleted"}]
         /\ owners' \in [Lines -> SUBSET Records]
         /\ \A c \in Lines : LinksOK(c)'
<1>1. CASE ~Written(relation)
  <2>1. UNCHANGED <<status, owners>>
    BY <1>1 DEF WriteList
  <2> QED
    BY <2>1 DEF TypeOK, LinksOK, Live, Parents, Records
<1>2. CASE Written(relation) /\ UseConnect(relation)
  <2>1. Connect(p, list)
    BY <1>2 DEF WriteList
  <2>2. UNCHANGED status
    BY <2>1 DEF Connect
  <2> QED
    BY <1>2, <2>1, <2>2, ConnectLinks DEF TypeOK
<1>3. CASE Written(relation) /\ ~UseConnect(relation)
  <2>1. Rewrite(p, list)
    BY <1>3 DEF WriteList
  <2> QED
    BY <1>3, <2>1, RewriteLinks
<1> QED
  BY <1>1, <1>2, <1>3

(* A record is created with its children.                                   *)
LEMMA CreateTyped ==
  ASSUME EditInv, NEW p \in Records, NEW list \in SUBSET Lines, Create(p, list)
  PROVE  EditInv'
<1> USE DEF EditInv
<1>1. /\ p \in Parents \cap Unused
      /\ list \subseteq Live \cup Unused
      /\ UseConnect(relation) => list \subseteq Live
      /\ status' = [x \in Records |-> IF x \in list \cup {p} THEN "live" ELSE status[x]]
      /\ owners' = [c \in Lines |->
                      IF c \notin list THEN owners[c]
                      ELSE IF relation.many THEN owners[c] \cup {p} ELSE {p}]
      /\ UNCHANGED <<relation, request, fired>>
  BY DEF Create
<1>2. status' \in [Records -> {"unused", "live", "deleted"}]
  BY <1>1 DEF TypeOK
<1>3. owners' \in [Lines -> SUBSET Records]
  BY <1>1 DEF TypeOK
<1>4. Parents' = Parents /\ Live' = Live \cup list \cup {p}
  BY <1>1 DEF Live, Parents, Records
<1>5. ASSUME NEW c \in Lines
      PROVE  LinksOK(c)'
  <2>1. LinksOK(c)
    BY DEF TypeOK, LinksOK
  <2>2. CASE c \in list
    <3>1. c \in Live' /\ p \in Live' /\ owners'[c] = IF relation.many THEN owners[c] \cup {p} ELSE {p}
      BY <1>1, <1>4, <2>2
    <3> QED
      BY <1>1, <1>4, <2>1, <3>1 DEF LinksOK
  <2>3. CASE c \notin list
    <3>1. owners'[c] = owners[c]
      BY <1>1, <2>3
    <3>2. c \in Live' => c \in Live \/ c = p
      BY <1>4, <2>3
    <3>3. c = p => relation.self
      BY <1>1, Declared DEF Parents
    <3> QED
      BY <1>1, <1>4, <2>1, <3>1, <3>2, <3>3 DEF LinksOK, Bound
  <2> QED
    BY <2>2, <2>3
<1> QED
  BY <1>1, <1>2, <1>3, <1>5, RecordStep DEF TypeOK

(* The child's own pages link it to at most one parent.                     *)
LEMMA OwnTyped ==
  ASSUME EditInv, NEW c \in Lines, NEW of \in SUBSET Records,
         OwnCreate(c, of) \/ OwnEdit(c, of)
  PROVE  EditInv'
<1> USE DEF EditInv
<1>1. /\ of \in Holders
      /\ status' = [status EXCEPT ![c] = "live"]
      /\ owners' = [owners EXCEPT ![c] = of]
      /\ UNCHANGED <<relation, request, fired>>
  BY DEF OwnCreate, OwnEdit, TypeOK, Live
<1>2. status' \in [Records -> {"unused", "live", "deleted"}]
  BY <1>1 DEF TypeOK
<1>3. owners' \in [Lines -> SUBSET Records]
  BY <1>1 DEF TypeOK
<1>4. Parents' = Parents /\ Live' = Live \cup {c}
  BY <1>1 DEF Live, Parents, Records, TypeOK
<1>5. of \subseteq Parents \cap Live /\ (\A p, q \in of : p = q) /\ (Bound(relation) => of # {})
  BY <1>1 DEF Holders
<1>6. ASSUME NEW d \in Lines
      PROVE  LinksOK(d)'
  <2>1. LinksOK(d)
    BY DEF TypeOK, LinksOK
  <2>2. CASE d = c
    BY <1>1, <1>4, <1>5, <2>2 DEF LinksOK, TypeOK
  <2>3. CASE d # c
    BY <1>1, <1>4, <2>1, <2>3 DEF LinksOK, TypeOK
  <2> QED
    BY <2>2, <2>3
<1> QED
  BY <1>1, <1>2, <1>3, <1>6, RecordStep DEF TypeOK

(* A deletion takes the children that cannot be without their parent along, *)
(* and frees the others.                                                    *)
LEMMA DeleteTyped ==
  ASSUME EditInv, NEW s \in Sessions, DeleteRows(s)
  PROVE  EditInv'
<1> USE DEF EditInv
<1> DEFINE gone == request[s].on \cap Live
           hit == Effects(request[s].on, gone)
           orphans == IF Bound(relation) THEN {c \in Lines : owners[c] \cap gone # {}} ELSE {}
           removed == gone \cup orphans
<1>1. /\ status' = [x \in Records |-> IF x \in removed THEN "deleted" ELSE status[x]]
      /\ owners' = [c \in Lines |-> IF c \in removed THEN {} ELSE owners[c] \ gone]
      /\ fired' = [x \in Records |-> IF x \in hit THEN fired[x] + 1 ELSE fired[x]]
      /\ request' = [request EXCEPT ![s] = Idle]
      /\ UNCHANGED relation
  BY DEF DeleteRows, Remove
<1> HIDE DEF hit
<1>2. status' \in [Records -> {"unused", "live", "deleted"}]
  BY <1>1 DEF TypeOK
<1>3. owners' \in [Lines -> SUBSET Records]
  BY <1>1 DEF TypeOK
<1>4. fired' \in [Records -> Nat]
  BY <1>1 DEF TypeOK
<1>5. Parents' = Parents /\ Live' = Live \ removed
  BY <1>1 DEF Live, Parents, Records
<1>6. Parents \cap removed \subseteq gone
  BY Declared DEF Parents, Bound
<1>7. ASSUME NEW c \in Lines
      PROVE  LinksOK(c)'
  <2>1. LinksOK(c)
    BY DEF TypeOK, LinksOK
  <2>2. CASE c \in removed
    BY <1>1, <1>5, <2>2 DEF LinksOK
  <2>3. CASE c \notin removed
    <3>1. owners'[c] = owners[c] \ gone
      BY <1>1, <2>3
    <3>2. owners[c] \ gone \subseteq Parents \cap Live'
      BY <1>5, <1>6, <2>1 DEF LinksOK
    <3>3. Bound(relation) => owners'[c] = owners[c]
      BY <2>3, <3>1
    <3> QED
      BY <1>1, <1>5, <2>1, <2>3, <3>1, <3>2, <3>3 DEF LinksOK
  <2> QED
    BY <2>2, <2>3
<1> QED
  BY <1>1, <1>2, <1>3, <1>4, <1>7, RecordStep

(* Every step keeps the invariant.                                          *)
LEMMA EditStep == EditInv /\ [Next]_vars => EditInv'
<1> SUFFICES ASSUME EditInv, [Next]_vars
             PROVE  EditInv'
  OBVIOUS
<1> USE DEF EditInv
<1>1. ASSUME NEW p \in Records, NEW list \in SUBSET Lines, Create(p, list)
      PROVE  EditInv'
  BY <1>1, CreateTyped
<1>2. ASSUME NEW s \in Sessions, NEW p \in Records, OpenForm(s, p) \/ OmitList(s, p)
      PROVE  EditInv'
  <2>1. PICK r \in Phases :
          /\ request' = [request EXCEPT ![s] = r] /\ r.on = {p}
          /\ p \in Parents /\ UNCHANGED <<relation, status, owners, fired>>
    <3>1. Kids(p) \subseteq Lines
      BY DEF Kids
    <3> QED
      BY <1>2, <3>1 DEF OpenForm, OmitList, Phases
  <2> QED
    BY <2>1, RequestStep
<1>3. ASSUME NEW s \in Sessions, NEW p \in Records, NEW list \in SUBSET Lines,
             CheckForm(s, p, list) \/ CheckOmitted(s, p) \/ CheckPut(s, p, list)
      PROVE  EditInv'
  <2>1. PICK via \in {"form", "put", "omitted"}, seen \in SUBSET Lines, sent \in SUBSET Lines :
          Checked(s, p, via, seen, sent)
    BY <1>3 DEF CheckForm, CheckOmitted, CheckPut, TypeOK
  <2>2. PICK r \in Phases :
          /\ request' = [request EXCEPT ![s] = r] /\ r.on = {p}
          /\ p \in Parents /\ UNCHANGED <<relation, status, owners, fired>>
    BY <2>1 DEF Checked, Phases
  <2> QED
    BY <2>2, RequestStep
<1>4. ASSUME NEW s \in Sessions, NEW p \in Records, CheckOmitted(s, p)
      PROVE  EditInv'
  <2> {} \in SUBSET Lines
    OBVIOUS
  <2> QED
    BY <1>3, <1>4
<1>5. ASSUME NEW s \in Sessions, NEW p \in Records, Save(s, p)
      PROVE  EditInv'
  <2>1. /\ p \in Live /\ request[s].step = "checked" /\ request[s].on = {p}
        /\ WriteList(p, request[s].list) /\ request' = [request EXCEPT ![s] = Idle]
        /\ UNCHANGED <<relation, fired>>
    BY <1>5 DEF Save
  <2>3. p \in Parents
    BY <2>1 DEF OnParent
  <2>4. request[s].list \in SUBSET Lines
    BY DEF TypeOK
  <2>2. /\ status' \in [Records -> {"unused", "live", "deleted"}]
        /\ owners' \in [Lines -> SUBSET Records]
        /\ \A c \in Lines : LinksOK(c)'
    BY <2>1, <2>3, <2>4, WriteLinks
  <2> QED
    BY <2>1, <2>2, RecordStep DEF TypeOK
<1>6. ASSUME NEW c \in Lines, NEW of \in SUBSET Records, OwnCreate(c, of) \/ OwnEdit(c, of)
      PROVE  EditInv'
  BY <1>6, OwnTyped
<1>7. ASSUME NEW s \in Sessions, NEW batch \in SUBSET Records, ReadToDelete(s, batch)
      PROVE  EditInv'
  <2>1. PICK r \in Phases :
          /\ request' = [request EXCEPT ![s] = r] /\ r.step = "deleting"
          /\ UNCHANGED <<relation, status, owners, fired>>
    BY <1>7 DEF ReadToDelete, Phases
  <2> QED
    BY <2>1, RequestStep
<1>8. ASSUME NEW s \in Sessions, DeleteRows(s)
      PROVE  EditInv'
  BY <1>8, DeleteTyped
<1>9. ASSUME NEW s \in Sessions, Abandon(s)
      PROVE  EditInv'
  <2>1. Idle \in Phases /\ Idle.step = "idle"
    BY DEF Idle, Phases
  <2>2. request' = [request EXCEPT ![s] = Idle] /\ UNCHANGED <<relation, status, owners, fired>>
    BY <1>9 DEF Abandon
  <2> QED
    BY <2>1, <2>2, RequestStep
<1>10. CASE UNCHANGED vars
  BY <1>10 DEF vars, OnParent, TypeOK, Live, Parents, Records
<1> QED
  <2> HIDE DEF EditInv
  <2>1. CASE Next
    BY <1>1, <1>2, <1>3, <1>4, <1>5, <1>6, <1>7, <1>8, <1>9, <2>1, Zenon DEF Next
  <2> QED
    BY <2>1, <1>10

LEMMA EditInit == Init => EditInv
<1> SUFFICES ASSUME Init
             PROVE  EditInv
  OBVIOUS
<1>1. relation \in Relations /\ relation \in Declarations
  BY RelationAssumption DEF Init
<1>2. TypeOK
  BY <1>1, RecordAssumption DEF Init, TypeOK, Idle, Records, Live, Parents
<1>3. \A s \in Sessions : OnParent(s)
  BY DEF Init, OnParent, Idle
<1> QED
  BY <1>2, <1>3 DEF EditInv

(* Type correctness: links lead to live records of the parent entity, a     *)
(* child of one parent has at most one link, and one whose foreign key is   *)
(* required has one as long as it lives.                                    *)
THEOREM TypeCorrect == Spec => []TypeOK
<1>1. EditInv => TypeOK
  BY DEF EditInv
<1> QED
  BY <1>1, EditInit, EditStep, PTL DEF Spec

-----------------------------------------------------------------------------
(* Deletions of one record at a time. *)

(* A record is given no second life.                                        *)
LEMMA DeletedStays ==
  ASSUME EditInv, [Next]_vars, NEW x \in Records, status[x] = "deleted"
  PROVE  status'[x] = "deleted"
<1> USE DEF EditInv
<1>0. x \notin Live /\ x \notin Unused /\ status \in [Records -> {"unused", "live", "deleted"}]
  BY DEF Live, Unused, TypeOK
<1>1. ASSUME NEW p \in Records, NEW list \in SUBSET Lines, Create(p, list)
      PROVE  status'[x] = "deleted"
  <2>1. list \cup {p} \subseteq Live \cup Unused
    BY <1>1 DEF Create
  <2> QED
    BY <1>0, <1>1, <2>1 DEF Create
<1>2. ASSUME NEW s \in Sessions, NEW p \in Records, Save(s, p)
      PROVE  status'[x] = "deleted"
  <2>1. Kids(p) \subseteq Live
    BY DEF Kids, TypeOK
  <2>2. ASSUME NEW list, Rewrite(p, list)
        PROVE  status'[x] = "deleted"
    <3>1. x \notin list
      BY <1>0, <2>1, <2>2 DEF Rewrite
    <3> QED
      BY <2>2, <3>1 DEF Rewrite
  <2>3. WriteList(p, request[s].list)
    BY <1>2 DEF Save
  <2> QED
    BY <2>2, <2>3 DEF WriteList, Connect
<1>3. ASSUME NEW s \in Sessions, DeleteRows(s)
      PROVE  status'[x] = "deleted"
  BY <1>3 DEF DeleteRows, Remove
<1>4. ASSUME NEW c \in Lines, NEW of \in SUBSET Records, OwnCreate(c, of) \/ OwnEdit(c, of)
      PROVE  status'[x] = "deleted"
  BY <1>0, <1>4 DEF OwnCreate, OwnEdit
<1>5. CASE UNCHANGED status
  BY <1>5
<1> QED
  BY <1>1, <1>2, <1>3, <1>4, <1>5
  DEF Next, vars, OpenForm, OmitList, CheckOmitted, CheckForm, CheckPut, Checked,
      ReadToDelete, Abandon

(* A request deletes one record.                                            *)
Single(s) == request[s].step = "deleting" => \E x \in Records : request[s].on = {x}

OnceInv ==
  /\ \A s \in Sessions : Single(s)
  /\ \A x \in Records : fired[x] \in {0, 1} /\ (fired[x] = 1 => status[x] = "deleted")

LEMMA OnceStep ==
  ASSUME MaxBatch <= 1
  PROVE  EditInv /\ OnceInv /\ [Next]_vars => OnceInv'
<1> SUFFICES ASSUME EditInv, OnceInv, [Next]_vars
             PROVE  OnceInv'
  OBVIOUS
<1>0. request \in [Sessions -> Phases] /\ fired \in [Records -> Nat]
  BY DEF EditInv, TypeOK, Phases
<1>a. UNCHANGED relation /\ Records' = Records
  BY DEF Records, Next, vars, Create, OpenForm, OmitList, CheckOmitted, CheckForm, CheckPut, Checked,
         Save, OwnCreate, OwnEdit, ReadToDelete, DeleteRows, Abandon
<1>1. ASSUME NEW s \in Sessions, NEW batch \in SUBSET Records, ReadToDelete(s, batch)
      PROVE  OnceInv'
  <2>1. \E x \in Records : batch = {x}
    <3>1. IsFiniteSet(batch)
      BY RecordAssumption, FS_Subset DEF Records
    <3>2. Cardinality(batch) \in Nat /\ Cardinality(batch) # 0
      BY <1>1, <3>1, FS_CardinalityType, FS_EmptySet DEF ReadToDelete
    <3>3. Cardinality(batch) = 1
      BY <1>1, <3>2, BoundAssumption DEF ReadToDelete
    <3> QED
      BY <3>1, <3>3, FS_Singleton
  <2>2. request'[s].on = batch /\ \A t \in Sessions : t # s => request'[t] = request[t]
    BY <1>0, <1>1 DEF ReadToDelete
  <2> QED
    BY <1>1, <1>a, <2>1, <2>2 DEF ReadToDelete, OnceInv, Single
<1>2. ASSUME NEW s \in Sessions, DeleteRows(s)
      PROVE  OnceInv'
  <2>1. PICK x \in Records : request[s].on = {x}
    BY <1>2 DEF OnceInv, Single, DeleteRows
  <2>2. \A t \in Sessions : Single(t)'
    BY <1>0, <1>2, <1>a DEF DeleteRows, OnceInv, Single, Idle
  <2>3. ASSUME NEW y \in Records
        PROVE  fired'[y] \in {0, 1} /\ (fired'[y] = 1 => status'[y] = "deleted")
    <3>1. CASE y = x /\ x \in Live
      <4>1. status[x] # "deleted"
        BY <3>1 DEF Live
      <4>2. fired[x] = 0
        BY <4>1 DEF OnceInv
      <4>3. fired'[x] = 1 /\ status'[x] = "deleted"
        BY <1>0, <1>2, <2>1, <3>1, <4>2 DEF DeleteRows, Effects, Remove
      <4> QED
        BY <3>1, <4>3
    <3>2. CASE ~(y = x /\ x \in Live)
      <4>1. fired'[y] = fired[y]
        BY <1>2, <2>1, <3>2 DEF DeleteRows, Effects
      <4> QED
        BY <4>1, DeletedStays DEF OnceInv
    <3> QED
      BY <3>1, <3>2
  <2> QED
    BY <1>a, <2>2, <2>3 DEF OnceInv
<1>3. CASE /\ UNCHANGED fired
           /\ \A s \in Sessions : request'[s].step = "deleting" => request'[s] = request[s]
  BY <1>3, <1>a, DeletedStays DEF OnceInv, Single
<1>4. ASSUME NEW s \in Sessions, NEW p \in Records, OpenForm(s, p) \/ OmitList(s, p) \/ Save(s, p) \/ Abandon(s)
      PROVE  OnceInv'
  BY <1>0, <1>3, <1>4 DEF OpenForm, OmitList, Save, Abandon, Idle
<1>5. ASSUME NEW s \in Sessions, NEW p \in Records, NEW list \in SUBSET Lines,
             CheckForm(s, p, list) \/ CheckOmitted(s, p) \/ CheckPut(s, p, list)
      PROVE  OnceInv'
  BY <1>0, <1>3, <1>5 DEF CheckForm, CheckOmitted, CheckPut, Checked
<1>6. CASE UNCHANGED <<request, fired>>
  BY <1>3, <1>6
<1>7. CASE Next
  <2> HIDE DEF EditInv, OnceInv
  <2>1. ASSUME NEW s \in Sessions, NEW p \in Records, CheckOmitted(s, p)
        PROVE  OnceInv'
    <3> {} \in SUBSET Lines
      OBVIOUS
    <3> QED
      BY <1>5, <2>1
  <2>2. ASSUME NEW p \in Records, NEW list \in SUBSET Lines, Create(p, list)
        PROVE  OnceInv'
    BY <1>6, <2>2 DEF Create
  <2>3. ASSUME NEW c \in Lines, NEW of \in SUBSET Records, OwnCreate(c, of) \/ OwnEdit(c, of)
        PROVE  OnceInv'
    BY <1>6, <2>3 DEF OwnCreate, OwnEdit
  <2>4. ASSUME NEW s \in Sessions, Abandon(s)
        PROVE  OnceInv'
    BY <1>3, <1>0, <2>4 DEF Abandon, Idle
  <2> QED
    BY <1>1, <1>2, <1>4, <1>5, <1>7, <2>1, <2>2, <2>3, <2>4, Zenon DEF Next
<1> QED
  BY <1>6, <1>7 DEF vars

(* Deletions that overlap, of one record each, run the effects of deleting  *)
(* a record once, and only if it is gone.                                   *)
THEOREM DeletesOnce == MaxBatch <= 1 => (Spec => []DeletedOnce)
<1> SUFFICES ASSUME MaxBatch <= 1 PROVE Spec => []DeletedOnce
  OBVIOUS
<1>1. Init => OnceInv
  BY DEF Init, OnceInv, Single, Idle, Records
<1>2. EditInv /\ OnceInv /\ [Next]_vars => OnceInv'
  BY OnceStep
<1>3. OnceInv => DeletedOnce
  BY DEF OnceInv, DeletedOnce
<1> QED
  BY <1>1, <1>2, <1>3, EditInit, EditStep, PTL DEF Spec

-----------------------------------------------------------------------------
(* Saves that do not overlap with other writes. *)

(* What a save has found out still holds when it writes.                    *)
Sees(s, p) ==
  /\ request[s].via = "form" /\ Written(relation) => Kids(p) = request[s].seen
  /\ MayAttach(p, request[s].list)

FoundOut(s) ==
  /\ request[s].step \in {"open", "checked"} /\ request[s].via = "omitted"
     => request[s].list = request[s].seen
  /\ request[s].step = "checked" => \A p \in Parents : request[s].on = {p} => Sees(s, p)

KnowInv == \A s \in Sessions : FoundOut(s)

(* The attach guard looks at the links alone. *)
LEMMA SameAttach ==
  ASSUME UNCHANGED <<relation, owners>>, NEW p, NEW list
  PROVE  MayAttach(p, list) <=> MayAttach(p, list)'
<1>1. Ancestors(p) = Ancestors(p)'
  BY DEF Ancestors
<1> QED
  BY <1>1 DEF MayAttach, Unattached, NotAbove

(* A session that starts, checks its save or comes to rest.                 *)
LEMMA KnowRequest ==
  ASSUME EditInv, KnowInv, NEW s \in Sessions,
         request' \in [Sessions -> Phases], FoundOut(s)',
         \A t \in Sessions \ {s} : request'[t] = request[t],
         UNCHANGED <<relation, owners>> \/ \A t \in Sessions \ {s} : request[t].step # "checked",
         UNCHANGED relation
  PROVE  KnowInv'
<1>1. ASSUME NEW t \in Sessions, t # s
      PROVE  FoundOut(t)'
  <2>1. FoundOut(t) /\ request'[t] = request[t]
    BY <1>1 DEF KnowInv
  <2>2. CASE request[t].step # "checked"
    BY <2>1, <2>2 DEF FoundOut
  <2>3. CASE UNCHANGED <<relation, owners>>
    <3>1. \A p \in Parents : Sees(t, p) => Sees(t, p)'
      BY <2>1, <2>3, SameAttach DEF Sees, Kids
    <3> QED
      BY <2>1, <2>3, <3>1 DEF FoundOut, Parents
  <2> QED
    BY <1>1, <2>2, <2>3
<1> QED
  BY <1>1 DEF KnowInv

LEMMA KnowStep == ASSUME ~Overlap PROVE EditInv /\ KnowInv /\ [Next]_vars => KnowInv'
<1> SUFFICES ASSUME EditInv, KnowInv, [Next]_vars
             PROVE  KnowInv'
  OBVIOUS
<1>0. request \in [Sessions -> Phases] /\ request' \in [Sessions -> Phases]
  BY EditStep DEF EditInv, TypeOK, Phases, Parents, Records
<1>1. ASSUME NEW s \in Sessions, NEW p \in Records, OpenForm(s, p) \/ OmitList(s, p)
      PROVE  KnowInv'
  <2>1. FoundOut(s)'
    BY <1>0, <1>1 DEF OpenForm, OmitList, FoundOut
  <2> QED
    BY <1>0, <1>1, <2>1, KnowRequest DEF OpenForm, OmitList
<1>2. ASSUME NEW s \in Sessions, NEW p \in Records, NEW via, NEW seen, NEW list,
             Checked(s, p, via, seen, list),
             via = "omitted" => list = seen,
             via = "form" => UpToDate(p, seen)
      PROVE  KnowInv'
  <2>1. /\ request'[s].step = "checked" /\ request'[s].via = via /\ request'[s].on = {p}
        /\ request'[s].seen = seen /\ request'[s].list = list
    BY <1>0, <1>2 DEF Checked
  <2>2. UNCHANGED <<relation, status, owners>> /\ MayAttach(p, list)
    BY <1>2 DEF Checked
  <2>3. Sees(s, p)'
    BY <1>2, <2>1, <2>2, SameAttach DEF Sees, UpToDate, Kids
  <2>4. FoundOut(s)'
    BY <1>2, <2>1, <2>3 DEF FoundOut
  <2> QED
    BY <1>0, <1>2, <2>4, KnowRequest DEF Checked
<1>3. ASSUME NEW s \in Sessions, NEW p \in Records, NEW list \in SUBSET Lines, CheckForm(s, p, list)
      PROVE  KnowInv'
  BY <1>2, <1>3 DEF CheckForm
<1>4. ASSUME NEW s \in Sessions, NEW p \in Records, CheckOmitted(s, p)
      PROVE  KnowInv'
  <2>1. request[s].list = request[s].seen
    BY <1>4 DEF CheckOmitted, KnowInv, FoundOut
  <2> QED
    BY <1>2, <1>4, <2>1 DEF CheckOmitted
<1>5. ASSUME NEW s \in Sessions, NEW p \in Records, NEW list \in SUBSET Lines, CheckPut(s, p, list)
      PROVE  KnowInv'
  BY <1>2, <1>5 DEF CheckPut
<1>6. ASSUME NEW s \in Sessions, (\E p \in Records : Save(s, p)) \/ DeleteRows(s)
      PROVE  KnowInv'
  <2>1. FoundOut(s)'
    BY <1>0, <1>6 DEF Save, DeleteRows, FoundOut, Idle
  <2> QED
    BY <1>0, <1>6, <2>1, KnowRequest DEF Save, DeleteRows, Alone
<1>7. ASSUME NEW s \in Sessions, NEW batch \in SUBSET Records, ReadToDelete(s, batch) \/ Abandon(s)
      PROVE  KnowInv'
  <2>1. FoundOut(s)'
    BY <1>0, <1>7 DEF ReadToDelete, Abandon, FoundOut, Idle
  <2> QED
    BY <1>0, <1>7, <2>1, KnowRequest DEF ReadToDelete, Abandon
<1>8. CASE UNCHANGED <<relation, request>> /\ \A s \in Sessions : request[s].step # "checked"
  BY <1>8 DEF KnowInv, FoundOut
<1>9. ASSUME NEW p \in Records, NEW list \in SUBSET Lines, Create(p, list)
      PROVE  KnowInv'
  BY <1>8, <1>9 DEF Create, Alone
<1>10. ASSUME NEW c \in Lines, NEW of \in SUBSET Records, OwnCreate(c, of) \/ OwnEdit(c, of)
       PROVE  KnowInv'
  BY <1>8, <1>10 DEF OwnCreate, OwnEdit, Alone
<1>11. CASE UNCHANGED vars
  BY <1>11, SameAttach DEF vars, KnowInv, FoundOut, Sees, Kids, Parents
<1>12. CASE Next
  <2> HIDE DEF EditInv, KnowInv
  <2>1. ASSUME NEW s \in Sessions, NEW p \in Records, Save(s, p)
        PROVE  KnowInv'
    BY <1>6, <2>1
  <2>2. ASSUME NEW s \in Sessions, DeleteRows(s)
        PROVE  KnowInv'
    BY <1>6, <2>2
  <2> QED
    BY <1>1, <1>3, <1>4, <1>5, <1>7, <1>9, <1>10, <1>12, <2>1, <2>2, Zenon DEF Next
<1> QED
  BY <1>11, <1>12

(* What a save takes away from a parent.                                    *)
LEMMA SaveTakes ==
  ASSUME EditInv, NEW s \in Sessions, NEW q \in Records, Save(s, q), FoundOut(s),
         NEW c \in Lines, NEW p \in owners[c] \ owners'[c]
  PROVE  /\ Commits(s, p)
         /\ \/ request[s].via = "put"
            \/ request[s].via = "form" /\ c \in request[s].seen
            \/ Overlooks(s, c)
<1> DEFINE list == request[s].list
<1>1. /\ request[s].step = "checked" /\ request[s].on = {q} /\ WriteList(q, list)
      /\ request' = [request EXCEPT ![s] = Idle]
  BY DEF Save
<1>2. request \in [Sessions -> Phases] /\ TypeOK
  BY DEF EditInv, TypeOK, Phases
<1>3. q \in Parents /\ Sees(s, q)
  BY <1>1 DEF EditInv, OnParent, FoundOut
<1>4. Written(relation)
  BY <1>1 DEF WriteList
<1>5. p = q /\ c \notin list
  <2>1. CASE UseConnect(relation)
    <3>1. owners'[c] = IF c \notin list THEN owners[c] \ {q}
                       ELSE IF relation.many THEN owners[c] \cup {q} ELSE {q}
      BY <1>1, <1>4, <2>1 DEF WriteList, Connect
    <3>2. CASE c \notin list
      BY <3>1, <3>2
    <3>3. CASE c \in list
      <4>1. ~relation.many /\ p # q
        BY <3>1, <3>3
      <4>2. Guarded(relation)
        BY <2>1, <4>1, <1>2, Declared DEF UseConnect, Guarded
      <4> QED
        BY <1>3, <3>3, <4>1, <4>2 DEF Sees, MayAttach, Unattached
    <3> QED
      BY <3>2, <3>3
  <2>2. CASE ~UseConnect(relation)
    <3>1. /\ list \subseteq Kids(q) \cup Unused
          /\ owners'[c] = IF c \in list THEN {q} ELSE owners[c] \ {q}
      BY <1>1, <1>4, <2>2 DEF WriteList, Rewrite
    <3>2. ~relation.many
      BY <1>2, <2>2, Declared
    <3>3. CASE c \in list
      <4>1. p # q /\ c \notin Unused
        BY <1>2, <3>1, <3>3 DEF TypeOK, Live, Unused
      <4> QED
        BY <1>2, <3>1, <3>2, <3>3, <4>1 DEF Kids, TypeOK
    <3> QED
      BY <3>1, <3>3
  <2> QED
    BY <2>1, <2>2
<1>6. Commits(s, p)
  BY <1>1, <1>2, <1>5 DEF Commits
<1>7. request[s].via = "form" => c \in request[s].seen
  BY <1>3, <1>4, <1>5 DEF Sees, Kids
<1>8. request[s].via = "omitted" => c \notin request[s].seen
  BY <1>1, <1>5 DEF FoundOut
<1> QED
  BY <1>2, <1>6, <1>7, <1>8 DEF Phases, Overlooks

(* What a deletion takes along.                                             *)
LEMMA DeleteTakes ==
  ASSUME EditInv, NEW s \in Sessions, DeleteRows(s),
         NEW c \in Lines, NEW p \in owners[c] \ owners'[c]
  PROVE  request[s].step = "deleting" /\ {c, p} \cap request[s].on # {}
<1> DEFINE gone == request[s].on \cap Live
           orphans == IF Bound(relation) THEN {d \in Lines : owners[d] \cap gone # {}} ELSE {}
<1>1. request[s].step = "deleting" /\ owners' = [d \in Lines |->
        IF d \in gone \cup orphans THEN {} ELSE owners[d] \ gone]
  BY DEF DeleteRows, Remove
<1>2. CASE c \in orphans
  <2>1. owners[c] \cap gone # {} /\ ~relation.many
    BY <1>2 DEF Bound
  <2> QED
    BY <1>1, <2>1 DEF EditInv, TypeOK
<1>3. CASE c \notin orphans
  BY <1>1, <1>3
<1> QED
  BY <1>2, <1>3

(* A creation takes no child from another parent.                           *)
LEMMA CreateTakes ==
  ASSUME EditInv, NEW q \in Records, NEW list \in SUBSET Lines, Create(q, list),
         NEW c \in Lines
  PROVE  owners[c] \subseteq owners'[c]
<1>1. CASE c \notin list \/ relation.many
  BY <1>1 DEF Create
<1>2. CASE c \in list /\ ~relation.many /\ UseConnect(relation)
  <2>1. Guarded(relation)
    BY <1>2, Declared DEF EditInv, UseConnect, Guarded
  <2> QED
    BY <1>2, <2>1 DEF Create, MayAttachNew
<1>3. CASE c \in list /\ ~UseConnect(relation)
  <2>1. c \in Unused
    BY <1>3 DEF Create
  <2> QED
    BY <2>1 DEF EditInv, TypeOK, Live, Unused
<1> QED
  BY <1>1, <1>2, <1>3

(* One step of the property below.                                          *)
TakenOrOverlookedNow ==
  \A c \in Lines : \A p \in owners[c] \ owners'[c] :
    \/ \E s \in Sessions :
         /\ Commits(s, p)
         /\ \/ request[s].via = "put"
            \/ request[s].via = "form" /\ c \in request[s].seen
            \/ Overlooks(s, c)
    \/ \E s \in Sessions : request[s].step = "deleting" /\ {c, p} \cap request[s].on # {}
    \/ UNCHANGED <<status, request>>

LEMMA TakenStep ==
  EditInv /\ KnowInv /\ [Next]_vars => [TakenOrOverlookedNow]_vars
<1> SUFFICES ASSUME EditInv, KnowInv, Next,
                    NEW c \in Lines, NEW p \in owners[c] \ owners'[c]
             PROVE  \/ \E s \in Sessions :
                         /\ Commits(s, p)
                         /\ \/ request[s].via = "put"
                            \/ request[s].via = "form" /\ c \in request[s].seen
                            \/ Overlooks(s, c)
                    \/ \E s \in Sessions :
                         request[s].step = "deleting" /\ {c, p} \cap request[s].on # {}
                    \/ UNCHANGED <<status, request>>
  BY DEF TakenOrOverlookedNow
<1>1. ASSUME NEW q \in Records, NEW list \in SUBSET Lines, Create(q, list)
      PROVE  FALSE
  BY <1>1, CreateTakes
<1>2. CASE UNCHANGED owners
  BY <1>2
<1>3. ASSUME NEW s \in Sessions, NEW q \in Records, Save(s, q)
      PROVE  /\ Commits(s, p)
             /\ \/ request[s].via = "put"
                \/ request[s].via = "form" /\ c \in request[s].seen
                \/ Overlooks(s, c)
  BY <1>3, SaveTakes DEF KnowInv
<1>4. ASSUME NEW d \in Lines, NEW of \in SUBSET Records, OwnCreate(d, of)
      PROVE  FALSE
  <2>1. owners[d] = {}
    BY <1>4 DEF OwnCreate, EditInv, TypeOK, Live, Unused
  <2> QED
    BY <1>4, <2>1 DEF OwnCreate, EditInv, TypeOK
<1>5. ASSUME NEW d \in Lines, NEW of \in SUBSET Records, OwnEdit(d, of)
      PROVE  UNCHANGED <<status, request>>
  BY <1>5 DEF OwnEdit
<1>6. ASSUME NEW s \in Sessions, DeleteRows(s)
      PROVE  request[s].step = "deleting" /\ {c, p} \cap request[s].on # {}
  BY <1>6, DeleteTakes
<1>7. ASSUME NEW s \in Sessions, NEW q \in Records, NEW list \in SUBSET Lines,
             \/ OpenForm(s, q) \/ OmitList(s, q) \/ CheckOmitted(s, q)
             \/ CheckForm(s, q, list) \/ CheckPut(s, q, list)
      PROVE  UNCHANGED owners
  BY <1>7 DEF OpenForm, OmitList, CheckOmitted, CheckForm, CheckPut, Checked
<1>8. ASSUME NEW s \in Sessions, NEW batch \in SUBSET Records,
             ReadToDelete(s, batch) \/ Abandon(s)
      PROVE  UNCHANGED owners
  BY <1>8 DEF ReadToDelete, Abandon
<1> QED
  <2> {} \in SUBSET Lines /\ {} \in SUBSET Records
    OBVIOUS
  <2> QED
    BY <1>1, <1>2, <1>3, <1>4, <1>5, <1>6, <1>7, <1>8 DEF Next

(* While no other request writes between the checks and the write of a      *)
(* save, a child leaves a parent only by a save of that parent from a form  *)
(* that showed it there, by a request that names the new list, by an edit   *)
(* of the child, or by the deletion of one of the two; or because it was    *)
(* added after a save that omits the list had read it, and that save writes *)
(* the list back without it.                                                *)
THEOREM ChildrenTakenOrOverlooked == ~Overlap => (Spec => TakenOrOverlooked)
<1> SUFFICES ASSUME ~Overlap PROVE Spec => TakenOrOverlooked
  OBVIOUS
<1>1. Init => KnowInv
  BY DEF Init, KnowInv, FoundOut, Idle
<1>2. EditInv /\ KnowInv /\ [Next]_vars => KnowInv'
  BY KnowStep
<1>3. TakenOrOverlooked <=> [][TakenOrOverlookedNow]_vars
  BY PTL DEF TakenOrOverlooked, TakenOrOverlookedNow
<1> QED
  BY <1>1, <1>2, <1>3, EditInit, EditStep, TakenStep, PTL DEF Spec

-----------------------------------------------------------------------------
(* Induction over the natural numbers, on a set instead of a predicate.     *)
Smaller == {ss \in Nat \X Nat : ss[1] < ss[2]}

LEMMA Least ==
  ASSUME NEW T \in SUBSET Nat, T # {}
  PROVE  \E n \in T : \A m \in T : n <= m
<1>1. IsWellFoundedOn(Smaller, Nat)
  BY NatLessThanWellFounded DEF OpToRel, Smaller
<1>2. PICK n \in T : \A m \in T : <<m, n>> \notin Smaller
  BY <1>1, WFMin
<1>3. ASSUME NEW m \in T
      PROVE  n <= m
  <2>1. <<m, n>> \in Nat \X Nat /\ ~(m < n)
    BY <1>2 DEF Smaller
  <2> QED
    BY <2>1
<1> QED
  BY <1>3

LEMMA Induct ==
  ASSUME NEW T, 0 \in T, \A n \in Nat : n \in T => n + 1 \in T
  PROVE  Nat \subseteq T
<1> SUFFICES ASSUME Nat \ T # {} PROVE FALSE
  OBVIOUS
<1>1. PICK n \in Nat \ T : \A m \in Nat \ T : n <= m
  BY Least
<1>2. n - 1 \in Nat /\ n - 1 \in T
  BY <1>1
<1> QED
  BY <1>1, <1>2

(* A function defined by recursion from a value and a step exists.          *)
LEMMA Iteration ==
  ASSUME NEW D, NEW a \in D, NEW h \in [D -> D], NEW K \in Nat
  PROVE  \E g \in [0..K -> D] : g = [n \in 0..K |-> IF n = 0 THEN a ELSE h[g[n - 1]]]
<1> DEFINE T == {k \in Nat : \E g \in [0..k -> D] : \A n \in 0..k : g[n] = IF n = 0 THEN a ELSE h[g[n - 1]]}
<1>1. 0 \in T
  <2> DEFINE g == [n \in 0..0 |-> a]
  <2>1. g \in [0..0 -> D] /\ \A n \in 0..0 : g[n] = IF n = 0 THEN a ELSE h[g[n - 1]]
    OBVIOUS
  <2> QED
    BY <2>1
<1>2. ASSUME NEW k \in Nat, k \in T
      PROVE  k + 1 \in T
  <2>1. PICK g \in [0..k -> D] : \A n \in 0..k : g[n] = IF n = 0 THEN a ELSE h[g[n - 1]]
    BY <1>2
  <2> DEFINE f == [n \in 0..(k + 1) |-> IF n = k + 1 THEN h[g[k]] ELSE g[n]]
  <2>2. f \in [0..(k + 1) -> D]
    OBVIOUS
  <2>3. ASSUME NEW n \in 0..(k + 1)
        PROVE  f[n] = IF n = 0 THEN a ELSE h[f[n - 1]]
    <3>1. CASE n = k + 1
      <4>1. f[n] = h[g[k]] /\ f[n - 1] = g[k]
        BY <3>1
      <4> QED
        BY <3>1, <4>1
    <3>2. CASE n \in 0..k /\ n # 0
      <4>1. f[n] = g[n] /\ f[n - 1] = g[n - 1]
        BY <3>2
      <4> QED
        BY <2>1, <3>2, <4>1
    <3>3. CASE n = 0
      BY <2>1, <3>3
    <3> QED
      BY <3>1, <3>2, <3>3
  <2> HIDE DEF f
  <2> QED
    BY <2>2, <2>3
<1>3. K \in T
  <2> HIDE DEF T
  <2> QED
    BY <1>1, <1>2, Induct
<1>4. PICK g \in [0..K -> D] : \A n \in 0..K : g[n] = IF n = 0 THEN a ELSE h[g[n - 1]]
  BY <1>3
<1>5. g = [n \in 0..K |-> IF n = 0 THEN a ELSE h[g[n - 1]]]
  BY <1>4
<1> QED
  BY <1>5

(* The walk up the chain of parents, in a tree. *)
Tree == relation.self /\ ~relation.many

(* The sets of parents, grandparents, ... that Ancestors collects.          *)
IsWalk(up, x) ==
  up = [n \in 0..Cardinality(Lines) |->
          IF n = 0 THEN owners[x]
          ELSE up[n - 1] \cup UNION {owners[y] : y \in up[n - 1] \cap Lines}]

LEMMA Walk ==
  ASSUME TypeOK, Tree, NEW x \in Lines
  PROVE  \E up \in [0..Cardinality(Lines) -> SUBSET Lines] :
           IsWalk(up, x) /\ Ancestors(x) = up[Cardinality(Lines)]
<1> DEFINE N == Cardinality(Lines)
           h == [A \in SUBSET Lines |-> A \cup UNION {owners[y] : y \in A \cap Lines}]
<1>1. N \in Nat
  <2>1. IsFiniteSet(Lines)
    BY RecordAssumption, FS_Subset
  <2> QED
    BY <2>1, FS_CardinalityType
<1>2. \A y \in Lines : owners[y] \in SUBSET Lines
  BY DEF TypeOK, Tree, Parents
<1>3. h \in [SUBSET Lines -> SUBSET Lines]
  BY <1>2
<1> DEFINE D == SUBSET Lines
           a == owners[x]
<1>a. a \in D
  BY <1>2
<1> HIDE DEF h, N, D, a
<1>b. \E g \in [0..N -> D] : g = [n \in 0..N |-> IF n = 0 THEN a ELSE h[g[n - 1]]]
  <2>1. h \in [D -> D]
    BY <1>3 DEF D
  <2> QED
    BY <1>1, <1>a, <2>1, Iteration
<1>4. PICK g \in [0..N -> SUBSET Lines] : g = [n \in 0..N |-> IF n = 0 THEN owners[x] ELSE h[g[n - 1]]]
  BY <1>b DEF D, a
<1>5. ASSUME NEW n \in 0..N
      PROVE  g[n] = IF n = 0 THEN owners[x]
                    ELSE g[n - 1] \cup UNION {owners[y] : y \in g[n - 1] \cap Lines}
  <2>1. CASE n = 0
    BY <1>4, <2>1
  <2>2. CASE n # 0
    <3>1. g[n - 1] \in SUBSET Lines /\ g[n] = h[g[n - 1]]
      BY <1>1, <1>4, <2>2
    <3> QED
      BY <2>2, <3>1 DEF h
  <2> QED
    BY <2>1, <2>2
<1>6. IsWalk(g, x)
  BY <1>4, <1>5 DEF IsWalk, N
<1> DEFINE up == CHOOSE u : IsWalk(u, x)
<1>7. IsWalk(up, x)
  BY <1>6
<1>8. Ancestors(x) = up[N]
  BY DEF Ancestors, IsWalk, N
<1>9. up \in [0..N -> SUBSET Lines]
  <2> DEFINE T == {n \in Nat : n \in 0..N => up[n] \in SUBSET Lines}
  <2> HIDE DEF up
  <2>1. \A n \in 0..N : up[n] = IF n = 0 THEN owners[x]
                                ELSE up[n - 1] \cup UNION {owners[y] : y \in up[n - 1] \cap Lines}
    BY <1>7 DEF IsWalk, N
  <2>2. 0 \in T
    BY <1>1, <1>2, <2>1
  <2>3. ASSUME NEW n \in Nat, n \in T
        PROVE  n + 1 \in T
    <3> SUFFICES ASSUME n + 1 \in 0..N PROVE up[n + 1] \in SUBSET Lines
      OBVIOUS
    <3>1. up[n] \in SUBSET Lines
      BY <1>1, <2>3
    <3>2. up[n + 1] = up[n] \cup UNION {owners[y] : y \in up[n] \cap Lines}
      <4> DEFINE m == n + 1
      <4>1. m \in 0..N /\ m # 0 /\ m - 1 = n
        BY <1>1
      <4>2. up[m] = up[m - 1] \cup UNION {owners[y] : y \in up[m - 1] \cap Lines}
        <5> HIDE DEF m
        <5> QED
          BY <2>1, <4>1
      <4> QED
        BY <4>1, <4>2
    <3> QED
      BY <1>2, <3>1, <3>2
  <2>4. Nat \subseteq T
    <3> HIDE DEF T
    <3> QED
      BY <2>2, <2>3, Induct
  <2>5. \A n \in 0..N : up[n] \in SUBSET Lines
    BY <1>1, <2>4
  <2>6. up = [n \in 0..N |-> up[n]]
    BY <1>7 DEF IsWalk, N
  <2> QED
    BY <2>5, <2>6
<1> HIDE DEF up
<1> QED
  BY <1>7, <1>8, <1>9 DEF N

(* The whole chain is closed: it holds the parents of its members.          *)
LEMMA AncestorsClosed ==
  ASSUME TypeOK, Tree, NEW x \in Lines
  PROVE  /\ Ancestors(x) \subseteq Lines /\ owners[x] \subseteq Ancestors(x)
         /\ \A y \in Ancestors(x) : owners[y] \subseteq Ancestors(x)
<1> DEFINE N == Cardinality(Lines)
<1>1. N \in Nat /\ IsFiniteSet(Lines)
  BY RecordAssumption, FS_Subset, FS_CardinalityType
<1>2. PICK up \in [0..N -> SUBSET Lines] : IsWalk(up, x) /\ Ancestors(x) = up[N]
  BY Walk
<1> DEFINE over(A) == A \cup UNION {owners[y] : y \in A \cap Lines}
           T == {n \in Nat : n \in 0..N =>
                  owners[x] \subseteq up[n] /\ (over(up[n]) = up[n] \/ Cardinality(up[n]) >= n + 1)}
<1> HIDE DEF N
<1>3. up[0] = owners[x] /\ \A n \in 0..N : n # 0 => up[n] = over(up[n - 1])
  BY <1>1, <1>2 DEF IsWalk, N
<1>4. \A n \in 0..N : up[n] \subseteq Lines /\ IsFiniteSet(up[n]) /\ Cardinality(up[n]) \in Nat
                     /\ Cardinality(up[n]) <= N
  <2> SUFFICES ASSUME NEW n \in 0..N
               PROVE  up[n] \subseteq Lines /\ IsFiniteSet(up[n]) /\ Cardinality(up[n]) \in Nat
                      /\ Cardinality(up[n]) <= N
    OBVIOUS
  <2>1. up[n] \in SUBSET Lines
    BY <1>2
  <2> QED
    BY <1>1, <2>1, FS_Subset, FS_CardinalityType DEF N
<1>5. 0 \in T
  <2> SUFFICES over(up[0]) = up[0] \/ Cardinality(up[0]) >= 1
    BY <1>3
  <2>1. CASE up[0] = {}
    BY <2>1
  <2>2. CASE up[0] # {}
    <3>1. 0 \in 0..N
      BY <1>1
    <3> QED
      BY <1>4, <2>2, <3>1, FS_EmptySet
  <2> QED
    BY <2>1, <2>2
<1>6. ASSUME NEW n \in Nat, n \in T
      PROVE  n + 1 \in T
  <2> DEFINE m == n + 1
  <2> SUFFICES ASSUME m \in 0..N
               PROVE  owners[x] \subseteq up[m] /\ (over(up[m]) = up[m] \/ Cardinality(up[m]) >= m + 1)
    OBVIOUS
  <2>1. n \in 0..N /\ m # 0 /\ m - 1 = n
    BY <1>1
  <2>2. up[m] = over(up[n])
    <3> HIDE DEF m, over
    <3> QED
      BY <1>3, <2>1
  <2>3. owners[x] \subseteq up[n] /\ (over(up[n]) = up[n] \/ Cardinality(up[n]) >= n + 1)
    BY <1>6, <2>1
  <2>4. owners[x] \subseteq up[m] /\ up[n] \subseteq up[m]
    BY <2>2, <2>3
  <2>5. CASE over(up[n]) = up[n]
    BY <2>2, <2>4, <2>5
  <2>6. CASE over(up[n]) # up[n]
    <3>1. Cardinality(up[n]) < Cardinality(up[m])
      <4>1. up[n] \subseteq up[m] /\ up[n] # up[m] /\ IsFiniteSet(up[m])
        BY <1>4, <2>2, <2>4, <2>6
      <4>2. Cardinality(up[n]) \in Nat /\ Cardinality(up[m]) \in Nat
        BY <1>4, <2>1
      <4>3. Cardinality(up[n]) <= Cardinality(up[m])
            /\ (Cardinality(up[n]) = Cardinality(up[m]) => up[n] = up[m])
        BY <4>1, FS_Subset
      <4> QED
        BY <4>1, <4>2, <4>3
    <3>2. Cardinality(up[n]) \in Nat /\ Cardinality(up[m]) \in Nat
      BY <1>4, <2>1
    <3> QED
      BY <2>3, <2>4, <2>6, <3>1, <3>2
  <2> QED
    BY <2>5, <2>6
<1>7. N \in T
  <2> HIDE DEF T
  <2> QED
    BY <1>1, <1>5, <1>6, Induct
<1>8. owners[x] \subseteq up[N] /\ over(up[N]) = up[N]
  <2>1. N \in 0..N
    BY <1>1
  <2> QED
    BY <1>1, <1>4, <1>7, <2>1
<1>9. \A y \in up[N] : owners[y] \subseteq up[N]
  BY <1>1, <1>4, <1>8
<1> QED
  BY <1>1, <1>2, <1>4, <1>8, <1>9

-----------------------------------------------------------------------------
(* Trees of records have no cycles. *)

(* Every group of records has one without a parent in the group.            *)
Grounded == \A S \in SUBSET Lines : S # {} => \E c \in S : owners[c] \cap S = {}

(* Who is above a record in such a tree cannot be below it.                 *)
LEMMA GroundedHasNoCycle ==
  ASSUME TypeOK, Tree, Grounded, NEW c \in Lines
  PROVE  c \notin Ancestors(c)
<1> DEFINE N == Cardinality(Lines)
           Path(z) == \E P \in SUBSET Lines : c \in P /\ \A y \in P : owners[y] \cap (P \cup {z}) # {}
<1>1. N \in Nat
  BY RecordAssumption, FS_Subset, FS_CardinalityType
<1>2. PICK up \in [0..N -> SUBSET Lines] : IsWalk(up, c) /\ Ancestors(c) = up[N]
  BY Walk
<1> DEFINE T == {n \in Nat : n \in 0..N => \A z \in up[n] : Path(z)}
<1> HIDE DEF N
<1>3. up[0] = owners[c] /\ \A n \in 0..N : n # 0 =>
        up[n] = up[n - 1] \cup UNION {owners[y] : y \in up[n - 1] \cap Lines}
  BY <1>1, <1>2 DEF IsWalk, N
<1>4. 0 \in T
  <2> SUFFICES ASSUME NEW z \in owners[c] PROVE Path(z)
    BY <1>3
  <2> WITNESS {c} \in SUBSET Lines
  <2> QED
    OBVIOUS
<1>5. ASSUME NEW n \in Nat, n \in T
      PROVE  n + 1 \in T
  <2> DEFINE m == n + 1
  <2> SUFFICES ASSUME m \in 0..N, NEW z \in up[m]
               PROVE  Path(z)
    OBVIOUS
  <2>1. n \in 0..N /\ m # 0 /\ m - 1 = n
    BY <1>1
  <2>2. up[m] = up[n] \cup UNION {owners[y] : y \in up[n] \cap Lines}
    <3> HIDE DEF m
    <3> QED
      BY <1>3, <2>1
  <2>3. \A y \in up[n] : Path(y)
    BY <1>5, <2>1
  <2>4. CASE z \in up[n]
    BY <2>3, <2>4
  <2>5. CASE z \notin up[n]
    <3>1. PICK y \in up[n] \cap Lines : z \in owners[y]
      BY <2>2, <2>5
    <3>2. PICK P \in SUBSET Lines : c \in P /\ \A w \in P : owners[w] \cap (P \cup {y}) # {}
      BY <2>3, <3>1
    <3> WITNESS P \cup {y} \in SUBSET Lines
    <3> QED
      BY <3>1, <3>2
  <2> QED
    BY <2>4, <2>5
<1>6. N \in T
  <2> HIDE DEF T
  <2> QED
    BY <1>1, <1>4, <1>5, Induct
<1>7. c \in Ancestors(c) => Path(c)
  BY <1>1, <1>2, <1>6
<1> QED
  BY <1>7 DEF Grounded

(* Links that are taken away, or lead to a record nobody else in the group  *)
(* is above of, close no cycle.                                             *)
LEMMA ConnectGrounds ==
  ASSUME TypeOK, Tree, Grounded, NEW p \in Lines, NEW list \in SUBSET Lines, NotAbove(p, list),
         \A c \in Lines : owners'[c] \subseteq owners[c] \cup {p},
         \A c \in Lines \ list : owners'[c] \subseteq owners[c]
  PROVE  Grounded'
<1> DEFINE A == {p} \cup Ancestors(p)
<1>1. A \subseteq Lines /\ (\A y \in A : owners[y] \subseteq A) /\ list \cap A = {}
  BY AncestorsClosed DEF NotAbove
<1> HIDE DEF A
<1> SUFFICES ASSUME NEW S \in SUBSET Lines, S # {}
             PROVE  \E c \in S : owners'[c] \cap S = {}
  BY DEF Grounded
<1>2. CASE S \cap A # {}
  <2>1. PICK c \in S \cap A : owners[c] \cap (S \cap A) = {}
    BY <1>1, <1>2 DEF Grounded
  <2>2. owners'[c] \subseteq owners[c] /\ owners[c] \subseteq A
    BY <1>1, <2>1
  <2> QED
    BY <2>1, <2>2
<1>3. CASE S \cap A = {}
  <2>1. p \notin S
    BY <1>3 DEF A
  <2>2. PICK c \in S : owners[c] \cap S = {}
    BY DEF Grounded
  <2> QED
    BY <2>1, <2>2
<1> QED
  BY <1>2, <1>3

LEMMA FewerLinksGround ==
  ASSUME Grounded, \A c \in Lines : owners'[c] \subseteq owners[c]
  PROVE  Grounded'
<1> SUFFICES ASSUME NEW S \in SUBSET Lines, S # {}
             PROVE  \E c \in S : owners'[c] \cap S = {}
  BY DEF Grounded
<1>1. PICK c \in S : owners[c] \cap S = {}
  BY DEF Grounded
<1> QED
  BY <1>1

TreeInv == Tree => Grounded

LEMMA TreeStep ==
  ASSUME ~Overlap, ~OwnParent
  PROVE  EditInv /\ KnowInv /\ TreeInv /\ [Next]_vars => TreeInv'
<1> SUFFICES ASSUME EditInv, KnowInv, TreeInv, [Next]_vars, Tree'
             PROVE  Grounded'
  BY DEF TreeInv
<1>1. UNCHANGED relation
  BY DEF Next, vars, Create, OpenForm, OmitList, CheckForm, CheckOmitted, CheckPut, Checked, Save,
         Abandon, OwnCreate, OwnEdit, ReadToDelete, DeleteRows
<1>2. Tree /\ TypeOK /\ Grounded
  BY <1>1 DEF Tree, TreeInv, EditInv
<1>3. Guarded(relation) /\ UseConnect(relation) /\ Written(relation) /\ Parents = Lines
  BY <1>2, Declared DEF Tree, Guarded, UseConnect, Written, Parents
<1>4. ASSUME UNCHANGED owners
      PROVE  Grounded'
  BY <1>2, <1>4, FewerLinksGround
<1>5. ASSUME NEW p \in Records, NEW list \in SUBSET Lines, Create(p, list)
      PROVE  Grounded'
  <2>1. /\ p \in Lines /\ owners[p] = {} /\ p \notin list /\ list \subseteq Live
        /\ owners' = [c \in Lines |-> IF c \notin list THEN owners[c] ELSE {p}]
    BY <1>2, <1>3, <1>5 DEF Create, Unused, Live, TypeOK, Tree
  <2> SUFFICES ASSUME NEW S \in SUBSET Lines, S # {}
               PROVE  \E c \in S : owners'[c] \cap S = {}
    BY DEF Grounded
  <2>2. CASE p \in S
    BY <2>1, <2>2
  <2>3. CASE p \notin S
    <3>1. PICK c \in S : owners[c] \cap S = {}
      BY <1>2 DEF Grounded
    <3> QED
      BY <2>1, <2>3, <3>1
  <2> QED
    BY <2>2, <2>3
<1>6. ASSUME NEW s \in Sessions, NEW p \in Records, Save(s, p)
      PROVE  Grounded'
  <2> DEFINE list == request[s].list
  <2>1. /\ p \in Parents /\ Sees(s, p) /\ list \in SUBSET Lines
    <3>1. request[s].step = "checked" /\ request[s].on = {p}
      BY <1>6 DEF Save
    <3>2. p \in Parents
      BY <3>1 DEF EditInv, OnParent
    <3>3. list \in SUBSET Lines
      BY <1>2 DEF TypeOK
    <3> QED
      BY <3>1, <3>2, <3>3 DEF KnowInv, FoundOut
  <2>2. NotAbove(p, list)
    BY <1>2, <1>3, <2>1 DEF Sees, MayAttach, Tree
  <2>3. owners' = [c \in Lines |-> IF c \notin list THEN owners[c] \ {p} ELSE {p}]
    BY <1>2, <1>3, <1>6 DEF Save, WriteList, Connect, Tree
  <2> QED
    BY <1>2, <1>3, <2>1, <2>2, <2>3, ConnectGrounds
<1>7. ASSUME NEW s \in Sessions, DeleteRows(s)
      PROVE  Grounded'
  <2>1. \A c \in Lines : owners'[c] \subseteq owners[c]
    BY <1>7 DEF DeleteRows, Remove
  <2> QED
    BY <1>2, <2>1, FewerLinksGround
<1>8. ASSUME NEW c \in Lines, NEW of \in SUBSET Records, OwnCreate(c, of) \/ OwnEdit(c, of)
      PROVE  FALSE
  BY <1>2, <1>8 DEF OwnCreate, OwnEdit, Tree
<1>9. ASSUME NEW s \in Sessions, NEW q \in Records, NEW list \in SUBSET Lines,
             \/ OpenForm(s, q) \/ OmitList(s, q) \/ CheckOmitted(s, q)
             \/ CheckForm(s, q, list) \/ CheckPut(s, q, list)
      PROVE  UNCHANGED owners
  BY <1>9 DEF OpenForm, OmitList, CheckOmitted, CheckForm, CheckPut, Checked
<1>10. ASSUME NEW s \in Sessions, NEW batch \in SUBSET Records,
             ReadToDelete(s, batch) \/ Abandon(s)
       PROVE  UNCHANGED owners
  BY <1>10 DEF ReadToDelete, Abandon
<1>11. CASE UNCHANGED vars
  BY <1>4, <1>11 DEF vars
<1>12. CASE Next
  <2>1. {} \in SUBSET Lines /\ {} \in SUBSET Records
    OBVIOUS
  <2>2. ASSUME NEW s \in Sessions, NEW p \in Records,
               OpenForm(s, p) \/ OmitList(s, p) \/ CheckOmitted(s, p) \/ Save(s, p)
        PROVE  Grounded'
    BY <1>4, <1>6, <1>9, <2>1, <2>2
  <2>3. ASSUME NEW s \in Sessions, DeleteRows(s) \/ Abandon(s)
        PROVE  Grounded'
    BY <1>4, <1>7, <1>10, <2>1, <2>3
  <2> QED
    BY <1>4, <1>5, <1>8, <1>9, <1>10, <1>12, <2>2, <2>3 DEF Next
<1> QED
  BY <1>11, <1>12

(* In a tree of records a record is never above itself, while no other      *)
(* request writes between the checks and the write of a save and the parent *)
(* of a record is set from the list of the parent only.                     *)
THEOREM TreesHaveNoCycles == ~Overlap /\ ~OwnParent => (Spec => []NoCycles)
<1> SUFFICES ASSUME ~Overlap, ~OwnParent PROVE Spec => []NoCycles
  OBVIOUS
<1>1. Init => KnowInv /\ TreeInv
  BY DEF Init, KnowInv, FoundOut, Idle, TreeInv, Grounded
<1>2. EditInv /\ KnowInv /\ [Next]_vars => KnowInv'
  BY KnowStep
<1>3. EditInv /\ KnowInv /\ TreeInv /\ [Next]_vars => TreeInv'
  BY TreeStep
<1>4. EditInv /\ TreeInv => NoCycles
  BY GroundedHasNoCycle DEF EditInv, TreeInv, Tree, NoCycles
<1> QED
  BY <1>1, <1>2, <1>3, <1>4, EditInit, EditStep, PTL DEF Spec
====
