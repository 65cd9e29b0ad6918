---- MODULE StateMachinesProofs ----
(***************************************************************************)
(* The properties of StateMachines for any set of states, any declarations *)
(* and any number of editors.                                              *)
(***************************************************************************)
EXTENDS StateMachines, TLAPS

(* The declarations are accepted ones, and stay what they are.             *)
SchemaInv == schema \in Schemas /\ Accepted(schema)

(* A stored value, or one about to be stored, is one of the enum's.        *)
Storable(c, value) == value \in c.enum \/ (value = Null /\ c.nullable)
ValueInv ==
  /\ row # NoRow => Storable(schema, row)
  /\ \A e \in Editors : edits[e].new # Omitted => Storable(schema, edits[e].new)

(* An update under way was allowed for the row it had read, which is still *)
(* the row unless it has been overtaken.                                   *)
Intended(edit) == IF edit.new = Omitted THEN edit.prev ELSE edit.new
EditInv ==
  \A e \in Editors : edits[e] # Idle =>
    /\ edits[e].prev # NoRow /\ row # NoRow
    /\ UpdateAllowed(schema, edits[e].view, edits[e].prev, Intended(edits[e]))
    /\ schema.serializable /\ ~edits[e].overtaken => edits[e].prev = row

(* What a round under review or decided makes of the field.                *)
DecidedAs(value) == row = IF value = Null THEN schema.submit ELSE value
ReviewInv ==
  /\ round # "none" => row # NoRow
  /\ round = "terminal_rejected" => schema.terminalReject
  /\ round = "rejected" => ~schema.terminalReject
  /\ Governed(schema) /\ schema.serializable =>
       /\ round = "pending" => row = schema.submit
       /\ round = "approved" => DecidedAs(schema.approved)
       /\ round = "terminal_rejected" => DecidedAs(schema.rejected)

FieldInv == TypeOK /\ SchemaInv /\ ValueInv /\ EditInv /\ ReviewInv

(*------------------------------ the lemmas -------------------------------*)

(* What acceptance says of the values of an approval flow.                 *)
LEMMA ApprovalFacts ==
  ASSUME NEW c \in Schemas, Accepted(c)
  PROVE  /\ c \in Declarations
         /\ c.default # Null => c.default \in c.enum
         /\ c.submit # Null => c.approval /\ c.submit \in c.enum
         /\ c.approved # Null => c.approval /\ c.approved \in c.enum
         /\ c.rejected # Null => c.approval /\ c.rejected \in c.enum
         /\ c.withdrawn # Null => c.withdrawn \in c.enum /\ c.approval
         /\ c.default # Null => c.default # c.approved /\ c.default # c.rejected
         /\ c.submit # Null => c.submit # c.approved /\ c.submit # c.rejected
         /\ c.approved # Null => c.approved # c.rejected /\ c.approved # c.withdrawn
         /\ c.enum \subseteq Nodes(c) /\ c.enum \subseteq States
         /\ DeadEnds(c) = {}
<1>1. c \in Declarations /\ WellFormed(c)
  BY SchemasAssumption
<1>2. c.approval => ClausesDistinct(c)
  BY DEF Accepted
<1>3. ASSUME c.approval
      PROVE  /\ c.submit # Null => c.submit # c.approved /\ c.submit # c.rejected
             /\ c.approved # Null => c.approved # c.rejected /\ c.approved # c.withdrawn
  <2>1. \A i, j \in 1..4 : i # j /\ Decisions(c)[i] # Null => Decisions(c)[i] # Decisions(c)[j]
    BY <1>2, <1>3 DEF ClausesDistinct
  <2>2. /\ Decisions(c)[1] = c.submit /\ Decisions(c)[2] = c.approved
        /\ Decisions(c)[3] = c.rejected /\ Decisions(c)[4] = c.withdrawn
    BY DEF Decisions
  <2> QED  BY <2>1, <2>2
<1>4. c.submit # Null \/ c.approved # Null \/ c.rejected # Null \/ c.withdrawn # Null => c.approval
  BY <1>1 DEF WellFormed
<1>5. c.enum \subseteq Nodes(c) /\ DeadEnds(c) = {}
  BY DEF Accepted, EnumCovered
<1>6. c.enum \subseteq States
  BY <1>1 DEF Declarations
<1>7. {c.default, c.submit, c.approved, c.rejected, c.withdrawn} \subseteq c.enum \cup {Null}
  BY <1>1 DEF WellFormed
<1>8. c.default # Null => c.default # c.approved /\ c.default # c.rejected
  BY <1>1 DEF WellFormed
<1> QED  BY <1>1, <1>3, <1>4, <1>5, <1>6, <1>7, <1>8

(* No update in any view takes a submitted or decided field elsewhere.     *)
LEMMA DecidedIsClosed ==
  ASSUME NEW c \in Schemas, Accepted(c), Governed(c), NEW view, NEW from \in States, NEW to,
         from \in {c.submit, c.approved} \/ (c.terminalReject /\ from = c.rejected),
         UpdateAllowed(c, view, from, to)
  PROVE  to = from
<1>1. TransitionAllowed(c, from, to) /\ (to \in Locked(c, view) => to = from)
  BY DEF UpdateAllowed
<1>2. SUFFICES ASSUME <<from, to>> \in ApprovalEdges(c)
               PROVE  to = from
  BY <1>1 DEF TransitionAllowed
<1>3. CASE from = c.default /\ to = c.submit
  BY <1>3, ApprovalFacts, ValuesAssumption
<1>4. CASE from = c.submit /\ to \in {c.approved, c.rejected} /\ to # Null
  BY <1>1, <1>4 DEF Locked
<1>5. CASE from = c.rejected /\ to = c.submit /\ ~c.terminalReject
  BY <1>5, ApprovalFacts, ValuesAssumption
<1>6. to \in States
  BY <1>2 DEF ApprovalEdges
<1>7. Null \notin States
  BY ValuesAssumption
<1> QED  BY <1>2, <1>3, <1>4, <1>5, <1>6, <1>7 DEF ApprovalEdges, Resubmits

(* Overtaking keeps what an update has read and intends.                   *)
EditRecords == [view : Views \cup {"none"}, prev : Values \cup {NoRow},
                new : Values \cup {Omitted}, overtaken : BOOLEAN]

LEMMA IdleType ==
  Idle \in EditRecords
BY DEF Idle, EditRecords, Values, Views

LEMMA OvertakeType ==
  ASSUME NEW es \in [Editors -> EditRecords]
  PROVE  Overtake(es) \in [Editors -> EditRecords]
<1>1. \A f \in Editors : [es[f] EXCEPT !.overtaken = TRUE] \in EditRecords
  BY DEF EditRecords
<1> QED  BY <1>1 DEF Overtake

LEMMA OvertakeFacts ==
  ASSUME NEW es \in [Editors -> EditRecords], NEW e \in Editors
  PROVE  /\ Overtake(es)[e] = Idle <=> es[e] = Idle
         /\ Overtake(es)[e].view = es[e].view
         /\ Overtake(es)[e].prev = es[e].prev
         /\ Overtake(es)[e].new = es[e].new
         /\ schema.serializable /\ es[e] # Idle => Overtake(es)[e].overtaken
<1>1. \A f \in Editors :
        Overtake(es)[f] = IF es[f] = Idle \/ ~schema.serializable THEN es[f]
                          ELSE [es[f] EXCEPT !.overtaken = TRUE]
  BY DEF Overtake
<1>2. CASE es[e] = Idle \/ ~schema.serializable
  BY <1>1, <1>2
<1>3. CASE es[e] # Idle /\ schema.serializable
  <2>1. Overtake(es)[e] = [es[e] EXCEPT !.overtaken = TRUE]
    BY <1>1, <1>3
  <2>2. es[e] \in EditRecords
    OBVIOUS
  <2>3. /\ [es[e] EXCEPT !.overtaken = TRUE].view = es[e].view
        /\ [es[e] EXCEPT !.overtaken = TRUE].prev = es[e].prev
        /\ [es[e] EXCEPT !.overtaken = TRUE].new = es[e].new
        /\ [es[e] EXCEPT !.overtaken = TRUE].overtaken
    BY <2>2 DEF EditRecords
  <2>4. Overtake(es)[e] # Idle
    BY <2>1, <2>3 DEF Idle
  <2> QED  BY <1>3, <2>1, <2>3, <2>4
<1> QED  BY <1>2, <1>3

(* What every step keeps of the declarations.                              *)
LEMMA SchemaKept ==
  ASSUME SchemaInv, UNCHANGED schema
  PROVE  SchemaInv'
BY DEF SchemaInv

LEMMA InitKeeps ==
  ASSUME Init
  PROVE  FieldInv
<1>1. TypeOK
  BY SchemasAssumption, IdleType DEF Init, TypeOK, RoundStatus, EditRecords
<1>2. SchemaInv
  BY DEF Init, SchemaInv
<1>3. ValueInv /\ EditInv /\ ReviewInv
  BY DEF Init, ValueInv, EditInv, ReviewInv, Idle
<1> QED  BY <1>1, <1>2, <1>3 DEF FieldInv

LEMMA CreateKeeps ==
  ASSUME FieldInv, NEW value \in schema.enum \cup {Null, Omitted}, Create(value)
  PROVE  FieldInv'
<1> USE DEF FieldInv
<1>1. SchemaInv'
  BY SchemaKept DEF Create
<1>2. /\ schema \in Declarations /\ schema.enum \subseteq States
      /\ schema.default # Null => schema.default \in schema.enum
  BY ApprovalFacts DEF SchemaInv
<1>3. row' \in Values /\ Storable(schema, row')
  <2>1. CASE value = Omitted
    BY <1>2, <2>1 DEF Create, Stored, Storable, Values
  <2>2. CASE value # Omitted
    BY <1>2, <2>2 DEF Create, CreateAllowed, Stored, Storable, Values
  <2> QED  BY <2>1, <2>2
<1>4. row' # NoRow
  BY <1>3, ValuesAssumption DEF Values
<1>5. TypeOK'
  BY <1>3 DEF TypeOK, Create, RoundStatus
<1>6. ValueInv'
  BY <1>3 DEF ValueInv, Storable, Create
<1>7. EditInv'
  BY DEF EditInv, Create
<1>8. ReviewInv'
  BY <1>4 DEF ReviewInv, Create, Governed
<1> QED  BY <1>1, <1>5, <1>6, <1>7, <1>8

LEMMA JudgeKeeps ==
  ASSUME FieldInv, NEW e \in Editors, NEW view \in Views,
         NEW new \in schema.enum \cup {Null, Omitted}, Judge(e, view, new)
  PROVE  FieldInv'
<1> USE DEF FieldInv
<1>1. SchemaInv'
  BY SchemaKept DEF Judge
<1>2. /\ schema \in Declarations /\ schema.enum \subseteq States
  BY ApprovalFacts DEF SchemaInv
<1> DEFINE edit == [view |-> view, prev |-> row, new |-> new, overtaken |-> FALSE]
<1>3. edit \in EditRecords /\ edits' = [edits EXCEPT ![e] = edit]
  BY <1>2 DEF Judge, EditRecords, TypeOK, Values
<1>4. TypeOK'
  BY <1>3 DEF TypeOK, Judge, EditRecords
<1>5. new # Omitted => Storable(schema, new)
  <2>1. SUFFICES ASSUME new = Null
                 PROVE  schema.nullable
    BY DEF Storable
  <2>2. row = Null
    BY <2>1, ValuesAssumption DEF Judge, UpdateAllowed, TransitionAllowed, ApprovalEdges,
       TypeOK, Declarations
  <2> QED  BY <2>2, <1>2, ValuesAssumption DEF ValueInv, Storable, Judge
<1>6. ValueInv'
  BY <1>3, <1>5 DEF ValueInv, Storable, Judge, TypeOK
<1>7. UpdateAllowed(schema, view, row, Intended(edit))
  BY DEF Judge, Intended
<1>8. EditInv'
  BY <1>3, <1>7 DEF EditInv, Judge, TypeOK, Intended
<1>9. ReviewInv'
  BY DEF ReviewInv, Judge, DecidedAs
<1> QED  BY <1>1, <1>4, <1>6, <1>8, <1>9

(* An update is written: the row it had read may have moved on only when   *)
(* updates do not run SERIALIZABLE.                                        *)
LEMMA WriteFacts ==
  ASSUME FieldInv, NEW e \in Editors, Write(e)
  PROVE  /\ row # NoRow /\ row' \in Values /\ row' # NoRow
         /\ Storable(schema, row')
         /\ schema.serializable => UpdateAllowed(schema, edits[e].view, row, row')
<1> USE DEF FieldInv
<1>1. /\ edits[e] # Idle /\ edits[e].overtaken = FALSE
      /\ row' = IF edits[e].new = Omitted THEN row ELSE edits[e].new
  BY DEF Write, TypeOK
<1>2. row # NoRow /\ UpdateAllowed(schema, edits[e].view, edits[e].prev, Intended(edits[e]))
  BY <1>1 DEF EditInv
<1>3. schema.serializable => edits[e].prev = row
  BY <1>1 DEF EditInv
<1>4. Storable(schema, row')
  BY <1>1, <1>2 DEF ValueInv
<1>5. row' \in Values
  BY <1>1, <1>2 DEF TypeOK, Values
<1>6. row' # NoRow
  BY <1>5, ValuesAssumption DEF Values
<1>7. schema.serializable => Intended(edits[e]) = row'
  BY <1>1, <1>3 DEF Intended
<1> QED  BY <1>2, <1>3, <1>4, <1>5, <1>6, <1>7

(* Under SERIALIZABLE no update takes a submitted or decided field away.   *)
LEMMA WriteStays ==
  ASSUME FieldInv, NEW e \in Editors, Write(e), Governed(schema), schema.serializable,
         row \in {schema.submit, schema.approved}
           \/ (schema.terminalReject /\ row = schema.rejected),
         row \in States
  PROVE  row' = row
<1>1. UpdateAllowed(schema, edits[e].view, row, row')
  BY WriteFacts
<1> QED  BY <1>1, DecidedIsClosed DEF FieldInv, SchemaInv

(* Overtaken or not, the updates under way keep what was said of them.     *)
LEMMA OthersKept ==
  ASSUME FieldInv, UNCHANGED schema, row' # NoRow,
         NEW es \in [Editors -> EditRecords], \A e \in Editors : es[e] \in {edits[e], Idle},
         edits' = Overtake(es)
  PROVE  /\ edits' \in [Editors -> EditRecords]
         /\ \A e \in Editors : edits'[e].new # Omitted => Storable(schema', edits'[e].new)
         /\ EditInv'
<1> USE DEF FieldInv
<1>1. edits' \in [Editors -> EditRecords]
  BY OvertakeType
<1>2. ASSUME NEW e \in Editors
      PROVE  /\ edits'[e].new # Omitted => Storable(schema', edits'[e].new)
             /\ edits'[e] # Idle =>
                  /\ edits'[e].prev # NoRow /\ row' # NoRow
                  /\ UpdateAllowed(schema', edits'[e].view, edits'[e].prev, Intended(edits'[e]))
                  /\ schema'.serializable /\ ~edits'[e].overtaken => edits'[e].prev = row'
  <2>1. /\ edits'[e] = Idle <=> es[e] = Idle
        /\ edits'[e].view = es[e].view /\ edits'[e].prev = es[e].prev
        /\ edits'[e].new = es[e].new
        /\ schema.serializable /\ es[e] # Idle => edits'[e].overtaken
    BY OvertakeFacts
  <2>2. CASE es[e] = Idle
    BY <2>1, <2>2 DEF Idle
  <2>3. CASE es[e] # Idle
    <3>1. es[e] = edits[e] /\ edits[e] # Idle
      BY <2>3
    <3>2. edits[e].new # Omitted => Storable(schema, edits[e].new)
      BY DEF ValueInv
    <3>3. /\ edits[e].prev # NoRow
          /\ UpdateAllowed(schema, edits[e].view, edits[e].prev, Intended(edits[e]))
      BY <3>1 DEF EditInv
    <3>4. Intended(edits'[e]) = Intended(edits[e])
      BY <2>1, <3>1 DEF Intended
    <3>5. Storable(schema, edits[e].new) => Storable(schema', edits'[e].new)
      BY <2>1, <3>1 DEF Storable
    <3> QED  BY <2>1, <2>3, <3>1, <3>2, <3>3, <3>4, <3>5
  <2> QED  BY <2>2, <2>3
<1>3. EditInv'
  BY <1>2 DEF EditInv, Intended
<1> QED  BY <1>1, <1>2, <1>3

LEMMA WriteKeeps ==
  ASSUME FieldInv, NEW e \in Editors, Write(e)
  PROVE  FieldInv'
<1> USE DEF FieldInv
<1>1. SchemaInv'
  BY SchemaKept DEF Write
<1>2. /\ row # NoRow /\ row' \in Values /\ row' # NoRow /\ Storable(schema, row')
  BY WriteFacts
<1> DEFINE es == [edits EXCEPT ![e] = Idle]
<1>3. es \in [Editors -> EditRecords] /\ \A f \in Editors : es[f] \in {edits[f], Idle}
  BY IdleType DEF TypeOK, EditRecords
<1>4. /\ edits' \in [Editors -> EditRecords]
      /\ \A f \in Editors : edits'[f].new # Omitted => Storable(schema', edits'[f].new)
      /\ EditInv'
  <2>1. edits' = Overtake(es) /\ UNCHANGED schema
    BY DEF Write
  <2> HIDE DEF es
  <2> QED  BY <1>2, <1>3, <2>1, OthersKept
<1>5. TypeOK'
  BY <1>2, <1>4 DEF TypeOK, EditRecords, Write, RoundStatus
<1>6. ValueInv'
  BY <1>2, <1>4 DEF ValueInv, Storable, Write
<1>7. ReviewInv'
  <2>1. /\ schema' = schema
        /\ (round' = "pending" /\ row' = schema.submit) \/ round' = round
    BY DEF Write
  <2>2. ASSUME Governed(schema), schema.serializable, round' # "none"
        PROVE  /\ round' = "pending" => row' = schema.submit
               /\ round' = "approved" => (DecidedAs(schema.approved))'
               /\ round' = "terminal_rejected" => (DecidedAs(schema.rejected))'
    <3>1. CASE round' = "pending" /\ row' = schema.submit
      BY <3>1
    <3>2. CASE round' = round
      <4>1. CASE round = "pending"
        <5>1. row = schema.submit /\ row \in States
          BY <2>2, <4>1, ApprovalFacts DEF ReviewInv, SchemaInv, Governed
        <5> QED  BY <2>2, <3>2, <4>1, <5>1, WriteStays
      <4>2. CASE round = "approved"
        <5>1. row \in {schema.submit, schema.approved} /\ row \in States
          BY <2>2, <4>2, ApprovalFacts DEF ReviewInv, SchemaInv, Governed, DecidedAs
        <5>2. row' = row
          BY <2>2, <5>1, WriteStays
        <5> QED  BY <2>1, <2>2, <3>2, <4>2, <5>2 DEF ReviewInv, DecidedAs
      <4>3. CASE round = "terminal_rejected"
        <5>1. row \in {schema.submit} \/ (schema.terminalReject /\ row = schema.rejected)
          BY <2>2, <4>3 DEF ReviewInv, DecidedAs
        <5>2. row \in States
          BY <2>2, <4>3, ApprovalFacts DEF ReviewInv, SchemaInv, Governed, DecidedAs
        <5>3. row' = row
          BY <2>2, <5>1, <5>2, WriteStays
        <5> QED  BY <2>1, <2>2, <3>2, <4>3, <5>3 DEF ReviewInv, DecidedAs
      <4> QED  BY <3>2, <4>1, <4>2, <4>3
    <3> QED  BY <2>1, <3>1, <3>2
  <2>3. /\ round' = "terminal_rejected" => schema.terminalReject
        /\ round' = "rejected" => ~schema.terminalReject
    BY <2>1 DEF ReviewInv
  <2> QED  BY <1>2, <2>1, <2>2, <2>3 DEF ReviewInv, Governed
<1> QED  BY <1>1, <1>4, <1>5, <1>6, <1>7

LEMMA AbortKeeps ==
  ASSUME FieldInv, NEW e \in Editors, Abort(e)
  PROVE  FieldInv'
<1> USE DEF FieldInv
<1>1. SchemaInv'
  BY SchemaKept DEF Abort
<1>2. /\ edits' = [edits EXCEPT ![e] = Idle]
      /\ UNCHANGED <<schema, row, round>>
  BY DEF Abort
<1>3. TypeOK'
  BY <1>2, IdleType DEF TypeOK, EditRecords
<1>4. Idle.new = Omitted
  BY DEF Idle
<1>5. ValueInv'
  BY <1>2, <1>4 DEF ValueInv, TypeOK
<1>6. EditInv'
  BY <1>2 DEF EditInv, TypeOK, Intended
<1>7. ReviewInv'
  BY <1>2 DEF ReviewInv, DecidedAs
<1> QED  BY <1>1, <1>3, <1>5, <1>6, <1>7

(* The submit button and the approval routes.                              *)
LEMMA MoveKeeps ==
  ASSUME FieldInv, row # NoRow,
         NEW value \in schema.enum \cup {Null}, NEW status \in RoundStatus \ {"none"},
         Move(value, status),
         status = "pending" => Governed(schema) /\ value = schema.submit,
         status # "pending" => round = "pending",
         status = "approved" => value = schema.approved,
         status = "terminal_rejected" => value = schema.rejected /\ schema.terminalReject,
         status = "rejected" => ~schema.terminalReject
  PROVE  FieldInv'
<1> USE DEF FieldInv
<1>1. SchemaInv' /\ UNCHANGED schema /\ round' = status
  BY SchemaKept DEF Move
<1>2. value # Null => value \in States
  BY ApprovalFacts DEF SchemaInv
<1>3. row' \in Values /\ row' # NoRow /\ Storable(schema, row')
  BY <1>2, ValuesAssumption DEF Move, TypeOK, Values, ValueInv, Storable
<1>4. /\ edits' \in [Editors -> EditRecords]
      /\ \A f \in Editors : edits'[f].new # Omitted => Storable(schema', edits'[f].new)
      /\ EditInv'
  <2>1. edits \in [Editors -> EditRecords]
    BY DEF TypeOK, EditRecords
  <2>2. CASE value = Null
    <3>1. UNCHANGED <<schema, row, edits>>
      BY <2>2 DEF Move
    <3> QED  BY <2>1, <3>1 DEF EditInv, ValueInv, Intended
  <2>3. CASE value # Null
    <3>1. edits' = Overtake(edits)
      BY <2>3 DEF Move
    <3> QED  BY <1>1, <1>3, <2>1, <3>1, OthersKept
  <2> QED  BY <2>2, <2>3
<1>5. TypeOK'
  BY <1>1, <1>3, <1>4 DEF TypeOK, EditRecords
<1>6. ValueInv'
  BY <1>1, <1>3, <1>4 DEF ValueInv
<1>7. ReviewInv'
  BY <1>1, <1>3 DEF ReviewInv, Governed, Move, DecidedAs
<1> QED  BY <1>1, <1>4, <1>5, <1>6, <1>7

(* The values the approval moves the field to are in its enum.             *)
LEMMA DecisionsInEnum ==
  ASSUME SchemaInv
  PROVE  {schema.submit, schema.approved, schema.rejected, schema.withdrawn}
           \subseteq schema.enum \cup {Null}
BY ApprovalFacts DEF SchemaInv

LEMMA NextKeeps ==
  ASSUME FieldInv, [Next]_vars
  PROVE  FieldInv'
<1>1. ASSUME NEW value \in schema.enum \cup {Null, Omitted}, Create(value)
      PROVE  FieldInv'
  BY <1>1, CreateKeeps
<1>2. ASSUME NEW e \in Editors, NEW view \in Views,
             NEW new \in schema.enum \cup {Null, Omitted}, Judge(e, view, new)
      PROVE  FieldInv'
  BY <1>2, JudgeKeeps
<1>3. ASSUME NEW e \in Editors, Write(e)
      PROVE  FieldInv'
  BY <1>3, WriteKeeps
<1>4. ASSUME NEW e \in Editors, Abort(e)
      PROVE  FieldInv'
  BY <1>4, AbortKeeps
<1>5. SchemaInv /\ (round # "none" => row # NoRow)
  BY DEF FieldInv, ReviewInv
<1>6. CASE SubmitForApproval
  BY <1>5, <1>6, DecisionsInEnum, MoveKeeps DEF SubmitForApproval, RoundStatus
<1>7. CASE Approve
  BY <1>5, <1>7, DecisionsInEnum, MoveKeeps DEF Approve, RoundStatus
<1>8. CASE Reject
  <2>1. CASE schema.terminalReject
    BY <1>5, <1>8, <2>1, DecisionsInEnum, MoveKeeps DEF Reject, RoundStatus
  <2>2. CASE ~schema.terminalReject
    BY <1>5, <1>8, <2>2, DecisionsInEnum, MoveKeeps DEF Reject, RoundStatus
  <2> QED  BY <2>1, <2>2
<1>9. CASE Withdraw
  BY <1>5, <1>9, DecisionsInEnum, MoveKeeps DEF Withdraw, RoundStatus
<1>10. CASE UNCHANGED vars
  <2>1. UNCHANGED <<schema, row, round, edits>>
    BY <1>10 DEF vars
  <2>2. SchemaInv'
    BY <2>1, SchemaKept DEF FieldInv
  <2> QED  BY <2>1, <2>2 DEF FieldInv, TypeOK, ValueInv, EditInv, ReviewInv, Intended, DecidedAs
<1> QED  BY <1>1, <1>2, <1>3, <1>4, <1>6, <1>7, <1>8, <1>9, <1>10 DEF Next

LEMMA Invariance ==
  Spec => []FieldInv
<1>1. Init => FieldInv
  BY InitKeeps
<1>2. FieldInv /\ [Next]_vars => FieldInv'
  BY NextKeeps
<1> QED  BY <1>1, <1>2, PTL DEF Spec

(*----------------------------- the theorems ------------------------------*)

(* Whatever writers overlap, the field, the round and the updates under    *)
(* way have their types.                                                   *)
THEOREM TypeCorrect == Spec => []TypeOK
<1>1. FieldInv => TypeOK
  BY DEF FieldInv
<1> QED  BY <1>1, Invariance, PTL

(* For any accepted diagram, no writer in any view or order stores a value *)
(* the diagram does not know (validate.py checks the enum against it).     *)
THEOREM ValuesStayInDiagram == Spec => []InDiagram
<1>1. FieldInv => InDiagram
  <2> SUFFICES ASSUME FieldInv
               PROVE  InDiagram
    OBVIOUS
  <2>1. schema.enum \subseteq Nodes(schema)
    BY ApprovalFacts DEF FieldInv, SchemaInv
  <2> QED  BY <2>1 DEF FieldInv, ValueInv, Storable, InDiagram
<1> QED  BY <1>1, Invariance, PTL

(* Under SERIALIZABLE an open round means a submitted record, for any      *)
(* number of overlapping updates and any approval the generator accepts.   *)
THEOREM PendingShows == Spec => []PendingIsSubmitted
<1>1. FieldInv => PendingIsSubmitted
  BY DEF FieldInv, ReviewInv, PendingIsSubmitted
<1> QED  BY <1>1, Invariance, PTL

(* An accepted diagram leads on from every value it does not end at, as    *)
(* long as no lock and no approval stands in the way.                      *)
THEOREM AlwaysAWayOn == Spec => []NeverStuck
<1>1. FieldInv => NeverStuck
  <2> SUFFICES ASSUME FieldInv, row \in States \ schema.terminal,
                      Nodes(schema) \subseteq schema.enum,
                      "main" \in schema.edit, schema.locked = {}, ~schema.approval
               PROVE  \E to \in schema.enum \ {row} : UpdateAllowed(schema, "main", row, to)
    BY DEF NeverStuck
  <2>1. /\ schema \in Declarations
        /\ schema.submit = Null /\ schema.approved = Null /\ schema.rejected = Null
        /\ schema.enum \subseteq Nodes(schema) /\ DeadEnds(schema) = {}
    BY ApprovalFacts DEF FieldInv, SchemaInv
  <2>2. row # NoRow /\ row # Null
    BY ValuesAssumption
  <2>3. row \in Nodes(schema)
    BY <2>1, <2>2 DEF FieldInv, ValueInv, Storable
  <2>4. PICK to \in States \ {row} : <<row, to>> \in schema.edges
    BY <2>1, <2>3 DEF DeadEnds
  <2>5. to \in Nodes(schema)
    <3>1. <<row, to>>[2] \in {e[2] : e \in schema.edges}
      BY <2>4
    <3> QED  BY <3>1 DEF Nodes
  <2>6. UpdateAllowed(schema, "main", row, to)
    BY <2>1, <2>4, ValuesAssumption
    DEF UpdateAllowed, EditGuard, Governed, Locked, TransitionAllowed
  <2> QED  BY <2>4, <2>5, <2>6
<1> QED  BY <1>1, Invariance, PTL

(* A rejection that is not final never freezes the record against the      *)
(* resubmission its diagram draws, whatever locks the schema declares.     *)
THEOREM RejectionReopens == Spec => []RejectedMayResubmit
<1>1. FieldInv => RejectedMayResubmit
  <2> SUFFICES ASSUME FieldInv, Governed(schema), round = "rejected", row = schema.rejected,
                      "main" \in schema.edit, <<row, schema.submit>> \in schema.edges
               PROVE  UpdateAllowed(schema, "main", row, schema.submit)
    BY DEF RejectedMayResubmit
  <2>1. ~schema.terminalReject
    BY DEF FieldInv, ReviewInv
  <2>2. ~LockCollides(schema, schema.locked) /\ schema \in Declarations
    BY ApprovalFacts DEF FieldInv, SchemaInv, Accepted
  <2>3. row \in States /\ schema.submit \in States
    BY <2>2 DEF Declarations
  <2>4. /\ schema.submit # schema.approved /\ schema.submit # schema.rejected
        /\ schema.rejected # schema.approved
    BY <2>3, ApprovalFacts, ValuesAssumption DEF FieldInv, SchemaInv, Governed
  <2>5. EditGuard(schema, "main", row)
    BY <2>1, <2>2, <2>4 DEF EditGuard, Frozen, LockCollides
  <2>6. schema.submit \notin Locked(schema, "main")
    BY <2>2, <2>4 DEF Locked, LockCollides
  <2>7. <<row, schema.submit>> \in ApprovalEdges(schema)
    BY <2>1, <2>3 DEF ApprovalEdges, Resubmits
  <2> QED  BY <2>5, <2>6, <2>7 DEF UpdateAllowed, TransitionAllowed
<1> QED  BY <1>1, Invariance, PTL

(* When updates run SERIALIZABLE, no overlap of updates, creates and        *)
(* submits in any view can approve a record: the generated locks hold the  *)
(* approved value in all of them.  Nothing is said of READ COMMITTED.      *)
THEOREM OnlyADecisionApproves == Spec => OnlyDecisionsApprove
<1> DEFINE Approves == schema.serializable /\ row' # row /\ row' = schema.approved /\ row' # Null
                         => round = "pending" /\ round' = "approved"
<1>1. FieldInv /\ [Next]_vars => [Approves]_vars
  <2> SUFFICES ASSUME FieldInv, Next, schema.serializable, row' # row,
                      row' = schema.approved, row' # Null
               PROVE  round = "pending" /\ round' = "approved"
    BY DEF vars
  <2>1. /\ schema.approved # schema.default /\ schema.approved # schema.submit
        /\ schema.approved # schema.rejected /\ schema.approved # schema.withdrawn
    BY ApprovalFacts DEF FieldInv, SchemaInv
  <2>2. \A view : schema.approved \in Locked(schema, view)
    BY DEF Locked
  <2>3. ASSUME NEW value \in schema.enum \cup {Null, Omitted}, Create(value)
        PROVE  FALSE
    BY <2>1, <2>2, <2>3 DEF Create, CreateAllowed, Stored
  <2>4. ASSUME NEW e \in Editors, Write(e)
        PROVE  FALSE
    BY <2>2, <2>4, WriteFacts DEF UpdateAllowed
  <2>5. ~SubmitForApproval /\ ~Reject /\ ~Withdraw
    BY <2>1 DEF SubmitForApproval, Reject, Withdraw, Move
  <2>6. CASE Approve
    BY <2>6 DEF Approve, Move
  <2>7. ASSUME NEW e \in Editors, NEW view \in Views,
               NEW new \in schema.enum \cup {Null, Omitted}, Judge(e, view, new)
        PROVE  FALSE
    BY <2>7 DEF Judge
  <2>8. ASSUME NEW e \in Editors, Abort(e)
        PROVE  FALSE
    BY <2>8 DEF Abort
  <2> QED  BY <2>3, <2>4, <2>5, <2>6, <2>7, <2>8 DEF Next
<1> QED  BY <1>1, Invariance, PTL DEF Spec, OnlyDecisionsApprove

(* An approved or finally rejected record is closed in every view, the     *)
(* unguarded proxy views included, when updates run SERIALIZABLE.          *)
THEOREM DecidedForGood == Spec => DecidedStays
<1> DEFINE Stays == Governed(schema) /\ schema.serializable
                      /\ round \in {"approved", "terminal_rejected"} => row' = row
<1>1. FieldInv /\ [Next]_vars => [Stays]_vars
  <2> SUFFICES ASSUME FieldInv, Next, Governed(schema), schema.serializable,
                      round \in {"approved", "terminal_rejected"}
               PROVE  row' = row
    BY DEF vars
  <2>1. /\ row \in {schema.submit, schema.approved}
             \/ (schema.terminalReject /\ row = schema.rejected)
        /\ row \in States /\ row # NoRow
    BY ApprovalFacts DEF FieldInv, ReviewInv, DecidedAs, SchemaInv, Governed
  <2>2. ASSUME NEW e \in Editors, Write(e)
        PROVE  row' = row
    BY <2>1, <2>2, WriteStays
  <2>3. ~SubmitForApproval /\ ~Approve /\ ~Reject /\ ~Withdraw
    BY DEF SubmitForApproval, CanSubmit, Approve, Reject, Withdraw
  <2>4. ASSUME NEW value \in schema.enum \cup {Null, Omitted}, Create(value)
        PROVE  FALSE
    BY <2>1, <2>4 DEF Create
  <2>5. ASSUME NEW e \in Editors, NEW view \in Views,
               NEW new \in schema.enum \cup {Null, Omitted}, Judge(e, view, new)
        PROVE  row' = row
    BY <2>5 DEF Judge
  <2>6. ASSUME NEW e \in Editors, Abort(e)
        PROVE  row' = row
    BY <2>6 DEF Abort
  <2> QED  BY <2>2, <2>3, <2>4, <2>5, <2>6 DEF Next
<1> QED  BY <1>1, Invariance, PTL DEF Spec, DecidedStays

(* Under SERIALIZABLE the record follows its diagram, however many updates *)
(* overlap and through whichever view: what is not an edge is a submission *)
(* or a decision of the approval.                                          *)
THEOREM RecordFollowsDiagram == Spec => StepsFollowDiagram
<1> DEFINE Drawn == /\ <<row, row'>> \in schema.edges
                    /\ Governed(schema) => <<row, row'>> \in ApprovalEdges(schema)
           Submitted == round # "pending" /\ round' = "pending" /\ row' = schema.submit
           Decided ==
             /\ round = "pending"
             /\ \/ round' = "approved" /\ row' = schema.approved
                \/ round' \in {"rejected", "terminal_rejected"} /\ row' = schema.rejected
                \/ round' = "withdrawn" /\ row' = schema.withdrawn
<1>1. FieldInv /\ [Next]_vars =>
        [schema.serializable /\ row # NoRow /\ row' # row => Drawn \/ Submitted \/ Decided]_vars
  <2> SUFFICES ASSUME FieldInv, Next, schema.serializable, row # NoRow, row' # row
               PROVE  Drawn \/ Submitted \/ Decided
    BY DEF vars
  <2>1. ASSUME NEW e \in Editors, Write(e)
        PROVE  Drawn
    <3>1. UpdateAllowed(schema, edits[e].view, row, row')
      BY <2>1, WriteFacts
    <3> QED  BY <3>1 DEF UpdateAllowed, TransitionAllowed
  <2>2. CASE SubmitForApproval
    BY <2>2 DEF SubmitForApproval, CanSubmit, Move
  <2>3. CASE Approve \/ Reject \/ Withdraw
    BY <2>3 DEF Approve, Reject, Withdraw, Move
  <2>4. ASSUME NEW value \in schema.enum \cup {Null, Omitted}, Create(value)
        PROVE  FALSE
    BY <2>4 DEF Create
  <2>5. ASSUME NEW e \in Editors, NEW view \in Views,
               NEW new \in schema.enum \cup {Null, Omitted}, Judge(e, view, new)
        PROVE  FALSE
    BY <2>5 DEF Judge
  <2>6. ASSUME NEW e \in Editors, Abort(e)
        PROVE  FALSE
    BY <2>6 DEF Abort
  <2> QED  BY <2>1, <2>2, <2>3, <2>4, <2>5, <2>6 DEF Next
<1> QED  BY <1>1, Invariance, PTL DEF Spec, StepsFollowDiagram
====
