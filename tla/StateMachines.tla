---- MODULE StateMachines ----
(***************************************************************************)
(* A field governed by an x-state-machines diagram: which diagrams the     *)
(* generator accepts beside the entity's approval flow and write locks,    *)
(* and the life of one record's field under the code generated from an     *)
(* accepted one.  Edits come through the entity's own view or through a    *)
(* proxy view of the model, which has neither the post-decision guard nor  *)
(* the approval trigger; each reads the row, judges it and writes later.   *)
(***************************************************************************)
EXTENDS FiniteSets, Naturals

CONSTANTS
  States,   \* the names a diagram or an enum may use
  Schemas,  \* the declarations an author may write for the field
  Editors,  \* updates that may be under way at a time
  Null, Omitted, NoRow

Views == {"main", "proxy"}
RoundStatus == {"none", "pending", "approved", "rejected",
                "terminal_rejected", "withdrawn"}

(* The declarations for one field: its diagram, its enum and default, the  *)
(* values x-approval moves it to, the locked values of each view, which    *)
(* views have an edit form, and whether updates run SERIALIZABLE (those of *)
(* an item reservation do).                                                *)
Declarations ==
  [edges : SUBSET (States \X States), initial : SUBSET States,
   terminal : SUBSET States, enum : SUBSET States,
   default : States \cup {Null}, nullable : BOOLEAN,
   locked : SUBSET States, proxyLocked : SUBSET States,
   edit : SUBSET Views, serializable : BOOLEAN,
   approval : BOOLEAN, withdrawable : BOOLEAN, terminalReject : BOOLEAN,
   submit : States \cup {Null}, approved : States \cup {Null},
   rejected : States \cup {Null}, withdrawn : States \cup {Null}]

(* What the database and the declaration's own shape rule out: a value     *)
(* outside the enum, an approval value without x-approval, and a default   *)
(* that is itself a decision.                                              *)
WellFormed(c) ==
  /\ {c.default, c.submit, c.approved, c.rejected, c.withdrawn}
       \subseteq c.enum \cup {Null}
  /\ c.approval \/ /\ ~c.withdrawable /\ ~c.terminalReject
                   /\ {c.submit, c.approved, c.rejected} = {Null}
  /\ c.withdrawable \/ c.withdrawn = Null
  /\ c.default = Null \/ c.default \notin {c.approved, c.rejected}

ASSUME SchemasAssumption ==
  Schemas \subseteq {c \in Declarations : WellFormed(c)}
ASSUME ValuesAssumption ==
  /\ {Null, Omitted, NoRow} \cap States = {}
  /\ Null # Omitted /\ Null # NoRow /\ Omitted # NoRow

(*---------------------- what the generator accepts -----------------------*)

(* Mermaid's "[*] --> s" and "s --> [*]" make s initial or terminal, and   *)
(* every line declares the states it names.                                *)
Nodes(c) == c.initial \cup c.terminal
              \cup {e[1] : e \in c.edges} \cup {e[2] : e \in c.edges}

Successors(c, from) == {t \in States : \E s \in from : <<s, t>> \in c.edges}

Reachable(c) ==
  LET reach[n \in 0..Cardinality(States)] ==
        IF n = 0 THEN c.initial
        ELSE LET seen == reach[n - 1] IN seen \cup Successors(c, seen)
  IN  reach[Cardinality(States)]

(* Mutant: a self-edge counts as a way out.                                *)
DeadEndsButLoops(c) ==
  {s \in Nodes(c) \ c.terminal : \A t \in States : <<s, t>> \notin c.edges}

(* A self-edge is no way out: staying is always allowed anyway.            *)
DeadEnds(c) ==
  {s \in Nodes(c) \ c.terminal : \A t \in States \ {s} : <<s, t>> \notin c.edges}

EnumCovered(c) == c.enum \subseteq Nodes(c)
DefaultStarts(c) == c.default # Null => c.default \in c.initial

(* An edge that skips the decision itself.                                 *)
SkipsDecision(c) ==
  \E s \in {c.rejected, c.withdrawn} \ {Null} : <<s, c.approved>> \in c.edges

(* A locked value that a user's own step must be able to write.            *)
LockCollides(c, locked) ==
  \/ c.submit \in locked
  \/ c.withdrawn \in locked
  \/ ~c.terminalReject /\ c.rejected \in locked

Decisions(c) == <<c.submit, c.approved, c.rejected, c.withdrawn>>
ClausesDistinct(c) ==
  \A i, j \in 1..4 :
    i # j /\ Decisions(c)[i] # Null => Decisions(c)[i] # Decisions(c)[j]

(* Without submit_on nothing locks a submitted row, so nothing may edit it. *)
SubmitOptional(c) ==
  /\ ~c.withdrawable /\ c.terminalReject
  /\ "main" \notin c.edit

Accepted(c) ==
  /\ Nodes(c) \subseteq Reachable(c)
  /\ DeadEnds(c) = {}
  /\ EnumCovered(c)
  /\ DefaultStarts(c)
  /\ ~SkipsDecision(c)
  /\ c.locked \cup c.proxyLocked \subseteq c.enum
  /\ ~LockCollides(c, c.locked) /\ ~LockCollides(c, c.proxyLocked)
  /\ c.approval => ClausesDistinct(c)
  /\ c.approval /\ c.submit = Null => SubmitOptional(c)

(*--------------------- what the generated code checks --------------------*)

VARIABLES
  schema, \* the accepted declarations the code was generated from
  row,    \* the record's field, or NoRow
  round,  \* the status of the record's latest approval round
  edits   \* per editor: the update it has judged and not yet written

vars == <<schema, row, round, edits>>

(* x-approval governs the field too when its submit_on names it.           *)
Governed(c) == c.submit # Null

(* Mutant: a terminal rejection can be resubmitted too.                    *)
ResubmitAlways(c) == {<<c.rejected, c.submit>>}
Resubmits(c) == IF c.terminalReject THEN {} ELSE {<<c.rejected, c.submit>>}

(* The steps x-approval itself would take.                                 *)
ApprovalEdges(c) ==
  ({<<c.default, c.submit>>, <<c.submit, c.approved>>, <<c.submit, c.rejected>>}
     \cup Resubmits(c)) \cap (States \X States)

TransitionAllowed(c, from, to) ==
  \/ from = to
  \/ /\ <<from, to>> \in c.edges
     /\ Governed(c) => <<from, to>> \in ApprovalEdges(c)

(* Decision values are locked in every view, others where they are declared. *)
Locked(c, view) ==
  ({c.approved, c.rejected} \ {Null})
    \cup (IF view = "main" THEN c.locked ELSE c.proxyLocked)

(* Rows the entity's own view no longer lets anyone edit.                  *)
Frozen(c) ==
  {c.submit, c.approved} \cup c.locked
    \cup (IF c.terminalReject THEN {c.rejected} ELSE {})

EditGuard(c, view, from) ==
  view = "main" /\ Governed(c) => from \notin Frozen(c)

(* Resubmitting the value a record already has is no breach of a lock.     *)
UpdateAllowed(c, view, from, to) ==
  /\ view \in c.edit
  /\ EditGuard(c, view, from)
  /\ to \in Locked(c, view) => to = from
  /\ TransitionAllowed(c, from, to)

(* Create is judged by the same generated function, which has the diagram  *)
(* check only in a view that has an edit form.                             *)
CreateAllowed(c, value) ==
  /\ value \notin Locked(c, "main")
  /\ "main" \in c.edit => value \in c.initial
  /\ value = Null => c.nullable

(* Mutant: the database default is not applied.                            *)
StoredAsGiven(c, value) == value

Stored(c, value) == IF value = Omitted THEN c.default ELSE value

Idle == [view |-> "none", prev |-> NoRow, new |-> Omitted, overtaken |-> FALSE]
Values == States \cup {Null}

TypeOK ==
  /\ schema \in Declarations
  /\ row \in Values \cup {NoRow}
  /\ round \in RoundStatus
  /\ edits \in [Editors -> [view : Views \cup {"none"}, prev : Values \cup {NoRow},
                            new : Values \cup {Omitted}, overtaken : BOOLEAN]]

Init ==
  /\ schema \in {c \in Schemas : Accepted(c)}
  /\ row = NoRow
  /\ round = "none"
  /\ edits = [e \in Editors |-> Idle]

(*------------------------------ the writers ------------------------------*)

(* A row that changed under a SERIALIZABLE update makes it fail.           *)
Overtake(es) ==
  [e \in Editors |-> IF es[e] = Idle \/ ~schema.serializable THEN es[e]
                     ELSE [es[e] EXCEPT !.overtaken = TRUE]]

CanSubmit == round \in {"none", "rejected", "withdrawn"}

Create(value) ==
  /\ row = NoRow
  /\ IF value = Omitted THEN schema.default # Null \/ schema.nullable
     ELSE CreateAllowed(schema, value)
  /\ row' = Stored(schema, value)
  /\ round' = IF schema.approval /\ schema.submit \in {Null, row'}
              THEN "pending" ELSE "none"
  /\ UNCHANGED <<schema, edits>>

(* An update reads the row and judges what it is about to write; a field   *)
(* the client leaves out counts as unchanged.                              *)
Judge(e, view, new) ==
  /\ row # NoRow
  /\ edits[e] = Idle
  /\ UpdateAllowed(schema, view, row, IF new = Omitted THEN row ELSE new)
  /\ edits' = [edits EXCEPT ![e] =
                 [view |-> view, prev |-> row, new |-> new, overtaken |-> FALSE]]
  /\ UNCHANGED <<schema, row, round>>

(* The update by id; in the entity's own view it opens an approval round   *)
(* when the row it had read was not yet submitted.                         *)
Write(e) ==
  /\ edits[e] # Idle
  /\ ~edits[e].overtaken
  /\ row' = IF edits[e].new = Omitted THEN row ELSE edits[e].new
  /\ round' = IF /\ edits[e].view = "main" /\ Governed(schema)
                 /\ edits[e].prev # schema.submit /\ row' = schema.submit
                 /\ CanSubmit
              THEN "pending" ELSE round
  /\ edits' = Overtake([edits EXCEPT ![e] = Idle])
  /\ UNCHANGED schema

Abort(e) ==
  /\ edits[e].overtaken
  /\ edits' = [edits EXCEPT ![e] = Idle]
  /\ UNCHANGED <<schema, row, round>>

(* The submit button and the approval routes write the field directly.     *)
Move(value, status) ==
  /\ round' = status
  /\ IF value = Null THEN UNCHANGED <<row, edits>>
     ELSE row' = value /\ edits' = Overtake(edits)
  /\ UNCHANGED schema

SubmitForApproval ==
  row # NoRow /\ Governed(schema) /\ CanSubmit /\ Move(schema.submit, "pending")

Approve == round = "pending" /\ Move(schema.approved, "approved")

Reject ==
  /\ round = "pending"
  /\ Move(schema.rejected,
          IF schema.terminalReject THEN "terminal_rejected" ELSE "rejected")

Withdraw ==
  /\ round = "pending" /\ schema.withdrawable
  /\ Move(schema.withdrawn, "withdrawn")

Next ==
  \/ \E value \in schema.enum \cup {Null, Omitted} : Create(value)
  \/ \E e \in Editors : \/ \E view \in Views,
                             new \in schema.enum \cup {Null, Omitted} :
                             Judge(e, view, new)
                        \/ Write(e)
                        \/ Abort(e)
  \/ SubmitForApproval
  \/ Approve
  \/ Reject
  \/ Withdraw

Spec == Init /\ [][Next]_vars

(*------------------------------ properties -------------------------------*)

(* The field never holds a value its diagram does not know, whoever wrote  *)
(* it and in whatever order; it is null only where that is allowed.        *)
InDiagram ==
  row = NoRow \/ row \in Nodes(schema) \/ (row = Null /\ schema.nullable)

(* When updates run SERIALIZABLE, no create, edit, import or submit, in    *)
(* any view, writes the approved value: only a pending round that is       *)
(* approved does.  At the generator's default, READ COMMITTED, nothing is  *)
(* said: an update that resubmits a value it read there writes it later.   *)
OnlyDecisionsApprove ==
  [][schema.serializable /\ row' # row /\ row' = schema.approved /\ row' # Null
       => round = "pending" /\ round' = "approved"]_vars

(* When updates run SERIALIZABLE, a record whose approval round is open    *)
(* shows it: no edit takes a record under review elsewhere, not even in a  *)
(* proxy view that has no guard.                                           *)
PendingIsSubmitted ==
  Governed(schema) /\ schema.serializable /\ round = "pending"
    => row = schema.submit

(* With a submit_on and SERIALIZABLE updates, a record that was approved   *)
(* or finally rejected stays as it is, though a proxy view has no guard:   *)
(* the approval's own edges leave no way on.  At READ COMMITTED, the       *)
(* default, an update judged before the approval still overwrites it.      *)
DecidedStays ==
  [][Governed(schema) /\ schema.serializable
       /\ round \in {"approved", "terminal_rejected"} => row' = row]_vars

(* The field moves along edges of its diagram, and where the approval also  *)
(* governs it along those the approval knows; any other change is a         *)
(* submission of, or the decision on, an approval round.  Overlapping       *)
(* updates keep to this only when they run SERIALIZABLE.                    *)
StepsFollowDiagram ==
  [][schema.serializable /\ row # NoRow /\ row' # row =>
       \/ /\ <<row, row'>> \in schema.edges
          /\ Governed(schema) => <<row, row'>> \in ApprovalEdges(schema)
       \/ round # "pending" /\ round' = "pending" /\ row' = schema.submit
       \/ /\ round = "pending"
          /\ \/ round' = "approved" /\ row' = schema.approved
             \/ round' \in {"rejected", "terminal_rejected"} /\ row' = schema.rejected
             \/ round' = "withdrawn" /\ row' = schema.withdrawn]_vars

(* A record that is not at the end of its diagram can be edited onwards,   *)
(* unless the enum lacks the next state, it is locked, or approval rules.  *)
NeverStuck ==
  /\ row \in States \ schema.terminal
  /\ Nodes(schema) \subseteq schema.enum
  /\ "main" \in schema.edit /\ schema.locked = {} /\ ~schema.approval
  => \E to \in schema.enum \ {row} : UpdateAllowed(schema, "main", row, to)

(* Wherever the diagram leads back to the submitted state from a rejection *)
(* that is not final, the ordinary edit path stays open for a resubmission. *)
RejectedMayResubmit ==
  /\ Governed(schema) /\ round = "rejected" /\ row = schema.rejected
  /\ "main" \in schema.edit /\ <<row, schema.submit>> \in schema.edges
  => UpdateAllowed(schema, "main", row, schema.submit)

====
