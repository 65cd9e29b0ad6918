---- MODULE PrismaRules ----
(***************************************************************************)
(* What the generator demands of the Prisma schema beside its own: indexes *)
(* for what is filtered and sorted, the columns that features write, equal *)
(* defaults; and what a new version copies, which Prisma's fields decide.  *)
(*                                                                         *)
(* A model has fields (UserSchema), indexes (the first column of each) and *)
(* uniques (sets of columns).                                              *)
(***************************************************************************)
EXTENDS UserSchema, DeclarationRules

Column(p, model, n) == Get(Model(p, model), n, Nothing)
HasColumn(p, model, n) == Has(p.models, model) /\ Has(Model(p, model), n)
OptionalColumn(p, model, n, type) ==
  /\ HasColumn(p, model, n)
  /\ Column(p, model, n).type = type /\ Is(Column(p, model, n), "nullable")

(*-------------------------------- indexes --------------------------------*)

RequiredIndexColumns ==
  {<<"creator", "id">>, <<"assignee", "id">>, <<"organization", "id">>}

(* Few values to choose from: an index is left to the author.              *)
IndexExempt(prop) == Is(prop, "native_enum") \/ ActualType(prop) = {"boolean"}

TableFields(d) ==
  LET table == Get(Get(d, "display", Nothing), "table", <<>>)
  IN  {table[i].field : i \in DOMAIN table}

(* Columns a list shows and those a view is restricted by, on the model    *)
(* behind the definition.  A relation shown has its own column's index.    *)
UiColumns(s, model) ==
  UNION {LET props == Properties(s, key)
         IN  {f \in TableFields(Def(s, key)) :
                Has(props, f) /\ ~Has(props, Fk(f)) /\ ~IndexExempt(props[f])}
             \cup {f \in Get(Def(s, key), "filter_values", {}) :
                     Has(props, f) => ~IndexExempt(props[f])} :
         key \in {key \in DOMAIN Defs(s) : BackingModel(s, key) = model}}

IndexesExist(s, p) ==
  \A model \in DOMAIN p.models :
    LET fields == Model(p, model)
        fks == {Head(Fks(fields[r])) : r \in {r \in DOMAIN fields : Fks(fields[r]) # <<>>}}
        indexed == p.models[model].indexes \cup {n \in DOMAIN fields : Is(fields[n], "unique")}
    IN  (RequiredIndexColumns \cup fks \cup UiColumns(s, model)) \cap DOMAIN fields
          \subseteq indexed

(*--------------------------- columns of features -------------------------*)

SelfOnlyCreators(s, p) ==
  \A key \in Named(s) :
    SelfOnly(Def(s, key)) => HasColumn(p, BackingModel(s, key), <<"creator", "id">>)

Attachment == <<"attachment">>

AttachmentProvenance(p) ==
  Has(p.models, Attachment) =>
    /\ OptionalColumn(p, Attachment, <<"uploader", "id">>, <<"String">>)
    /\ OptionalColumn(p, Attachment, <<"uploader", "organization", "id">>, <<"String">>)

AttachedDirectly(s) ==
  UNION {{<<Bare(key), RelationName(n)>> : n \in DirectAttachments(Def(s, key))} :
         key \in {key \in DOMAIN Defs(s) : IsRaw(key)}}

(* A file held directly has no bridge to belong to, and knows its holder.  *)
DirectAttachmentColumns(s, p) ==
  AttachedDirectly(s) # {} =>
    /\ OptionalColumn(p, Attachment, <<"attachable", "id">>, <<"String">>)
    /\ ~Is(Column(p, Attachment, <<"attachable", "id">>), "attributes")
    /\ \A held \in AttachedDirectly(s) :
         OptionalColumn(p, Attachment, held[1] \o held[2], held[1])

Invalidatable(s, name) ==
  \E key \in {name, RawKey(name)} : Is(Get(Def(s, key), "generate", Nothing), "invalidate")

CurrentVersion == <<"current", "version", "id">>

(* A draft has no number; the identity knows its current version.          *)
VersionColumns(s, p) ==
  \A v \in Versions(s) :
    LET identity == IdentityOf(s, v)
        number == RawDef(s, v).version_of.number
    IN  /\ {v, identity} \subseteq DOMAIN p.models
        /\ HasColumn(p, v, Fk(identity))
        /\ OptionalColumn(p, v, number, <<"Int">>)
        /\ {Fk(identity), number} \in p.models[v].uniques
        /\ OptionalColumn(p, identity, CurrentVersion, <<"String">>)
        /\ \E r \in DOMAIN Model(p, identity) : Fks(Model(p, identity)[r]) = <<CurrentVersion>>
        /\ Invalidatable(s, identity) =>
             OptionalColumn(p, identity, <<"invalidated", "at">>, <<"DateTime">>)

(*-------------------------------- defaults -------------------------------*)

HasDefault(field) == Has(field, "default") \/ Is(field, "dynamic")

(* A default the form shows is a default of the database.                  *)
DefaultsExist(s, p) ==
  \A key \in Named(s) :
    LET model == BackingModel(s, key)
        own == OwnProperties(Def(s, key))
    IN  Has(p.models, model) =>
          \A n \in DOMAIN own : Has(own[n], "default") => HasDefault(Column(p, model, n))

(* Of the field a submission writes, it is the same default: rows are not  *)
(* born submitted.                                                         *)
SubmitDefaultsAgree(s, p) ==
  \A key \in Named(s) :
    LET d == Def(s, key)
        submit == Part(Approval(d), "submit_on")
        own == OwnProperties(d)
        model == BackingModel(s, key)
    IN  \A n \in DOMAIN submit :
          /\ Cardinality(DOMAIN submit) = 1 /\ Has(own, n) /\ Has(own[n], "default")
          /\ HasColumn(p, model, n) /\ Has(Column(p, model, n), "default")
          => own[n].default = Column(p, model, n).default

(*----------------------- what a new version copies -----------------------*)

SystemColumns ==
  {<<"id">>, <<"created", "at">>, <<"updated", "at">>, <<"creator", "id">>,
   <<"updater", "id">>, <<"approvable", "id">>}

EmptyValue(field) ==
  IF field.type = <<"Boolean">> THEN "false"
  ELSE IF field.type = <<"String">> /\ ~Is(field, "nullable") THEN "''" ELSE "null"

(* Not copied: what the system or an approval writes, what is unique, and  *)
(* the relations through such columns.                                     *)
ResetColumns(p, model, extra) ==
  LET fields == Model(p, model)
      scalars == {n \in DOMAIN fields : ~IsRelation(p, fields[n]) /\ ~Is(fields[n], "list")}
      names == SystemColumns \cup extra \cup {n \in scalars : Is(fields[n], "unique")}
  IN  [resets |-> [n \in scalars \cap names |-> EmptyValue(fields[n])],
       drop |-> {r \in DOMAIN fields : Range(Fks(fields[r])) \cap names # {}}]

OwnWrites(gen) == gen # Nothing /\ \E f \in {"new", "edit", "delete"} : ~Off(gen, f)

ScreenSwitches(s, name) ==
  LET view == Get(Def(s, name), "generate", Nothing)
  IN  IF view # Nothing THEN view ELSE Get(RawDef(s, name), "generate", Nothing)

(* A child whose column to its parent may be empty lives without it.       *)
LivesWithout(child, parent) ==
  \E fk \in ParentFks(child, parent) : Nullable(Get(Columns(child), fk, Nothing))

(* Lines with an approval of their own, or reserved from a ledger with one. *)
ApprovalLines(s, v) ==
  LET raw == RawDef(s, v)
      r == Get(raw, "reservation", Nothing)
      lists == ListProperties(Def(s, v))
  IN  Get(raw, "approval_lines", {})
        \cup {n \in DOMAIN lists :
                /\ Ledger(r) /\ Part(Part(r, "lines"), "property") = n
                /\ Approval(Def(s, Get(lists[n], "items", <<>>))) # Nothing}

(* The children written through their parent's form only.                  *)
DependentLists(s, v) ==
  LET d == ViewOrRaw(s, v)
      raw(n) == RawDef(s, ChildOf(d, n))
      owned == {ChildOf(d, n) : n \in
                  {n \in OwnedLists(d) : Cardinality(ListFks(d, n, raw(n), v)) = 1}}
  IN  {n \in ChildLists(d) :
         /\ ChildOf(d, n) \in owned
         /\ ~OwnWrites(ScreenSwitches(s, ChildOf(d, n)))
         /\ ~LivesWithout(raw(n), v)
         /\ n \notin ApprovalLines(s, v)}

(* The records beside a version that hold its id.                          *)
Holders(p, v, identity) ==
  LET fields == Model(p, v)
      back(n) == UNION {Range(Fks(g)) : g \in
                   {g \in Range(Model(p, fields[n].type)) : g.type = v}}
  IN  [n \in {n \in DOMAIN fields :
                /\ ~Is(fields[n], "list") /\ Fks(fields[n]) = <<>>
                /\ Has(p.models, fields[n].type) /\ fields[n].type # identity
                /\ back(n) # {}}
         |-> ResetColumns(p, fields[n].type, back(n))]

PrefillPlan(s, p, v) ==
  LET raw == RawDef(s, v)
      d == ViewOrRaw(s, v)
      submitted == DOMAIN Part(Approval(raw), "submit_on")
  IN  [own |-> ResetColumns(p, v, {raw.version_of.number} \cup submitted),
       children |-> [n \in DependentLists(s, v) |-> ResetColumns(p, ChildOf(d, n), {})],
       left_empty |-> ChildLists(d) \ DependentLists(s, v),
       holders |-> Holders(p, v, IdentityOf(s, v))]
====
