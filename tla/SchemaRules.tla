---- MODULE SchemaRules ----
(***************************************************************************)
(* What validate_schema demands of a schema before any file is written:    *)
(* names, relations and their labels, what lists and forms display, column *)
(* annotations, import keys and bridges.  Every rule is a predicate of the *)
(* schema; the validator reports the ones that fail.                       *)
(*                                                                         *)
(* Left out: that a value has the YAML shape it should have.               *)
(***************************************************************************)
EXTENDS SchemaModel

Own(s, key) == Columns(Def(s, key))

(* A column that some definition declares satisfies the rule.              *)
EveryColumn(s, Rule(_, _)) ==
  \A key \in Named(s) : \A n \in DOMAIN Own(s, key) : Rule(n, Own(s, key)[n])

(*--------------------------------- names ---------------------------------*)

SnakeCaseNames(s) == Named(s) = DOMAIN Defs(s)

(* <name>_detail is kept for a view that refers to <name>.                 *)
DetailNames(s) ==
  \A key \in Views(s) :
    EndsWith(key, "detail") =>
      /\ Known(s, Front(key))
      /\ \E i \in DOMAIN Refs(Def(s, key)) : Refs(Def(s, key))[i].ref = Front(key)

(*------------------------------- relations -------------------------------*)

Pointing == {"many-to-one", "one-to-one", "one-to-one_bridge"}

(* The relations of the views, inherited ones included.                    *)
EveryRelation(s, Rule(_, _, _, _)) ==
  \A key \in Views(s) :
    LET props == Properties(s, key)
    IN  \A n \in DOMAIN props : Relates(props[n], Pointing) => Rule(key, props, n, props[n])

RelationsEndInId(s) ==
  EveryRelation(s, LAMBDA key, props, n, p : IsFk(n))

(* A select cannot be both a list of rows and a list of constants.         *)
NoRequiredEnumRelations(s) ==
  EveryRelation(s, LAMBDA key, props, n, p : ~(IsEnum(p) /\ n \in Required(s, key)))

TargetsAreKnown(s) ==
  EveryRelation(s, LAMBDA key, props, n, p : Target(p) = <<>> \/ Known(s, Target(p)))

(* A child that is only embedded in its parent's form cannot be pointed at *)
(* from elsewhere: it has no screens of its own.                           *)
Embedded(s) ==
  UNION {{Properties(s, key)[n].items :
            n \in {n \in DOMAIN Properties(s, key) : Has(Properties(s, key)[n], "items")}} :
         key \in DOMAIN Defs(s)}

NoEmbeddedTargets(s) ==
  EveryRelation(s, LAMBDA key, props, n, p :
    ~ /\ Target(p) \in Embedded(s) /\ Known(s, Target(p))
      /\ ~Has(Def(s, Target(p)), "generate")
      /\ ~Has(Def(s, key), "internal"))

(* Something names the related row: the label, or else a name.             *)
LabelsResolve(s) ==
  EveryRelation(s, LAMBDA key, props, n, p : Known(s, Target(p)) => Shown(s, Target(p), p.rel))

(* A value the form keeps in its state, to hand to a search.               *)
InFormState(p) ==
  IF Has(p, "rel") THEN p.rel.type \in {"many-to-one", "one-to-one"}
  ELSE \/ "upsert" \in CustomTargets(p)
       \/ ActualType(p) = {"boolean"}
       \/ /\ ActualType(p) = {"string"}
          /\ Get(p, "format", "none") \in {"date", "date-time", "time"}
       \/ /\ ~(ActualType(p) = {"string"} /\ Get(p, "format", "none") = "uri")
          /\ IsEnum(p) \/ (ActualType(p) = {"string"} /\ Is(p, "entity_select"))

SearchContexts(s) ==
  EveryRelation(s, LAMBDA key, props, n, p :
    Known(s, Target(p)) /\ Has(p, "context") =>
      /\ p.rel.type = "many-to-one"
      /\ \A f \in p.context : Has(props, f) /\ InFormState(props[f]))

ManyToManyLabels(s) ==
  \A key \in Named(s) :
    LET rels == Get(Def(s, key), "relationships", Nothing)
    IN  \A n \in DOMAIN rels :
          /\ rels[n].type = "many-to-many" 
          /\ Known(s, Get(rels[n], "target", <<>>))
          => Shown(s, rels[n].target, rels[n])

(*-------------------------- column annotations ---------------------------*)

Operations == {"create", "read", "update", "delete", "import"}

ServerValues(s) ==
  EveryColumn(s, LAMBDA n, p :
    Has(p, "server") =>
      /\ DOMAIN p.server \subseteq {"source", "override_permission"}
      /\ Get(p.server, "source", "none") = "actor"
      /\ Get(p.server, "override_permission", "read") \in Operations)

PiiValues(s) ==
  EveryColumn(s, LAMBDA n, p :
    Get(p, "pii", "none") \in {"direct", "indirect", "sensitive", "none"})

GdprModes == {"internal", "consumer", "both"}
GdprValues(s) ==
  /\ \A key \in Named(s) : Get(Def(s, key), "gdpr", "both") \in GdprModes
  /\ EveryColumn(s, LAMBDA n, p : Get(p, "gdpr", "both") \in GdprModes)

TrigramColumns(s) ==
  \A key \in DOMAIN Defs(s) :
    LET own == OwnProperties(Def(s, key))
    IN  \A n \in DOMAIN own : Is(own[n], "trigram") => TextColumn(n, own[n])

NoInternalColumns(s) == EveryColumn(s, LAMBDA n, p : ~Has(p, "internal"))

(* The members of a native enum are identifiers of the database.           *)
NativeEnums(s) ==
  EveryColumn(s, LAMBDA n, p :
    Is(p, "native_enum") /\ IsEnum(p) => \A i \in DOMAIN p.enum : p.enum[i] # MixedCase)

NoSearchFields(s) ==
  EveryColumn(s, LAMBDA n, p : ~(Has(p, "rel") /\ Has(p.rel, "search_field")))

(* A definition without screens says so of all three, and its numbered     *)
(* enums have one label per number.                                        *)
InternalDefinitions(s) ==
  \A key \in Named(s) :
    Has(Def(s, key), "internal") =>
      /\ {"page", "embed", "api"} \subseteq Def(s, key).internal
      /\ \A n \in DOMAIN Own(s, key) :
           LET p == Own(s, key)[n]
           IN  Type(p) = {"integer"} /\ {"enum", "minimum", "maximum"} \subseteq DOMAIN p =>
                 Len(p.enum) = p.maximum - p.minimum + 1

(*---------------------------- lists and forms ----------------------------*)

ScreenEntities(s) == {[key |-> key, model |-> ModelOf(s, key)] : key \in EntityKeys(s)}
Display(s, model) == Get(RawDef(s, model), "display", Nothing)

Charts(s) ==
  \A e \in ScreenEntities(s) :
    Has(Display(s, e.model), "chart") =>
      LET chart == Display(s, e.model).chart
      IN  {Get(chart, "start", <<"start", "time">>), Get(chart, "end", <<"end", "time">>)}
            \subseteq DOMAIN Properties(s, e.model)

CommentsHaveMessages(s) ==
  \A e \in ScreenEntities(s) :
    LET d == Def(s, e.key)
    IN  \A n \in ChildLists(d) :
          OutputType(d, n) = "comments" => Has(Properties(s, ChildOf(d, n)), <<"message">>)

(* Comments are written in the thread only; extract_entities refuses forms *)
(* for them.                                                               *)
CommentsHaveNoForms(s) ==
  \A key \in Switched(s) : \A n \in ChildLists(Def(s, key)) :
    OutputType(Def(s, key), n) = "comments" =>
      \A other \in Switched(s) :
        ModelOf(s, other) = ChildOf(Def(s, key), n) =>
          \A f \in {"new", "edit", "delete"} : ~On(Generate(s, other), f)

FormOrders(s) ==
  \A e \in ScreenEntities(s) :
    Get(Display(s, e.model), "form", {}) \subseteq DOMAIN Properties(s, e.model)

PrimaryOf(table) == SelectSeq(table, LAMBDA column : Is(column, "primary"))

HasListPage(s, e) ==
  /\ On(Generate(s, e.key), "list")
  /\ Display(s, e.model) = Nothing \/ Has(Display(s, e.model), "table")

(* The relations a label passes through need not be mandatory, only where  *)
(* it ends.                                                                *)
EndsMandatory(s, target, path) ==
  LET ends[i \in 1..Len(path), key \in Seq(STRING)] ==
        IF i = Len(path)
        THEN Has(Properties(s, key), path[i])
               => ~Optional(path[i], Properties(s, key), Required(s, key))
        ELSE LET p == Get(Properties(s, key), Fk(path[i]), Nothing)
                 next == IF Has(p, "rel") THEN Target(p) ELSE <<>>
             IN  Known(s, next) => ends[i + 1, next]
  IN  ends[1, target]

NeverBlank(s, model, primary) ==
  LET props == Properties(s, model)
      required == Required(s, model)
      fk == Fk(primary)
  IN  IF Has(props, fk)
      THEN /\ ~Optional(fk, props, required)
           /\ LET rel == Get(props[fk], "rel", Nothing)
              IN  Known(s, Get(rel, "target", <<>>)) /\ Has(rel, "label") =>
                    \A path \in rel.label.paths : EndsMandatory(s, rel.target, path)
      ELSE Has(props, primary) =>
             \/ ~Optional(primary, props, required)
             \/ Has(props[primary], "default") /\ ~Nullable(props[primary])

(* Each list page has a column that leads to the record and is never blank. *)
ListPrimaries(s) ==
  \A e \in ScreenEntities(s) :
    LET primary == PrimaryOf(Get(Display(s, e.model), "table", <<>>))
    IN  IF primary = <<>> THEN ~HasListPage(s, e)
        ELSE NeverBlank(s, e.model, Head(primary).field)

(*-------------------------------- bridges --------------------------------*)

Bridges(s) ==
  \A key \in Named(s) :
    Has(Def(s, key), "bridge") =>
      LET bridge == Def(s, key).bridge
      IN  /\ {"name", "child", "parents"} \subseteq DOMAIN bridge
          /\ Get(bridge, "name", <<>>) # <<>> => Known(s, bridge.name)
          /\ Get(bridge, "child", <<>>) \in {<<>>, key}
          /\ \A parent \in Get(bridge, "parents", {}) :
               /\ {"role", "target"} \subseteq DOMAIN parent
               /\ Get(parent, "target", <<>>) # <<>> => Known(s, parent.target)

(*------------------------------ import keys ------------------------------*)

(* A part of a key is a column, or a column of a related row.              *)
ImportKey(d) == Get(d, "import_key", {})
Direct(d) == {part[1] : part \in {k \in ImportKey(d) : Len(k) = 1}}
ThroughParent(d) == {part \in ImportKey(d) : Len(part) > 1}

SystemFields ==
  {<<"id">>, <<"created", "at">>, <<"updated", "at">>, <<"creator", "id">>,
   <<"updater", "id">>, <<"organization", "id">>, <<"tenant", "id">>}
Scalars == {"string", "integer", "number", "boolean"}

(* The columns an export has: x-generate.fields chooses, and what a key    *)
(* needs is added.                                                         *)
Exported(s, key) ==
  LET d == Def(s, key)
      detail == Get(Def(s, key \o <<"detail">>), "generate", Nothing)
      gen == IF detail # Nothing THEN detail ELSE Get(d, "generate", Nothing)
      chosen == Get(gen, "fields", DOMAIN Columns(d))
      fks == ParentRelations(d) \cup InternalFks(s, d)
  IN  {f \in chosen \ (SystemFields \cup fks) :
         /\ Has(Columns(d), f)
         /\ \/ Nullable(d.properties[f])
            \/ Type(d.properties[f]) # {} /\ Type(d.properties[f]) \subseteq Scalars
         /\ ~WriteOnly(d.properties[f])}
      \cup (Direct(d) \cap chosen)

(* The column in which an export shows a related row by one label.         *)
ExportsLabel(d, part) ==
  \E n \in ParentRelations(d) :
    /\ RelationName(n) = part[1]
    /\ Label(d.properties[n].rel) = [list |-> FALSE, paths |-> {Tail(part)}]

ImportKeysAreVisible(s) ==
  \A key \in Named(s) :
    LET d == Def(s, key)
    IN  /\ \A f \in Direct(d) : Has(Columns(d), f) /\ f \in Exported(s, key)
        /\ \A part \in ThroughParent(d) :
             /\ Has(Columns(d), Fk(part[1]))
             /\ LET rel == Get(d.properties[Fk(part[1])], "rel", Nothing)
                    target == Get(rel, "target", part[1])
                IN  Known(s, target) /\ Has(Properties(s, target), part[2])
             /\ Len(part) = 2 /\ ExportsLabel(d, part)

(* A row with a key of several columns is not shown by one of them alone.  *)
CompositeKeys(s) ==
  \A key \in Named(s) :
    Cardinality(ImportKey(Def(s, key))) > 1 =>
      \A other \in Named(s) \ {key} :
        LET d == Def(s, other)
        IN  \A n \in ParentRelations(d) :
              LET label == Label(d.properties[n].rel)
              IN  Target(d.properties[n]) = key /\ ~label.list =>
                    \A f \in Direct(Def(s, key)) : << f >> \notin label.paths

(* Models an import can write: those with columns of their own.            *)
Importable(s) ==
  {k \in DOMAIN Defs(s) :
     ~EndsWith(k, "detail") /\ ~EndsWith(k, "input") /\ Has(Own(s, k), <<"id">>)}

ImportModel(s, key) ==
  LET bases == SelectSeq(Refs(Def(s, key)), LAMBDA item : item.ref \in Importable(s))
  IN  IF bases # <<>> THEN Head(bases).ref
      ELSE IF key \in Importable(s) THEN key ELSE <<>>

(* The switches of the definitions that generate screens for a model under *)
(* its own name.                                                           *)
ScreensOf(s, model) ==
  LET detail(k) == EndsWith(k, "detail")
      entity(k) == IF detail(k) THEN Front(k) ELSE k
      generate(k) == Get(Def(s, k), "generate", Nothing)
      switches(k) ==
        IF generate(k) # Nothing THEN generate(k)
        ELSE IF detail(k) THEN generate(model) ELSE Nothing
  IN  {switches(k) : k \in {k \in DOMAIN Defs(s) :
         ImportModel(s, k) = model /\ entity(k) = Bare(model)}} \ {Nothing}

(* An import key is of use: rows can be imported, or the import is off.    *)
ImportKeysAreUsed(s) ==
  \A key \in Named(s) \cap Importable(s) :
    LET screens == ScreensOf(s, key)
    IN  ImportKey(Def(s, key)) # {} =>
          \/ /\ ~IsBridgeChild(Def(s, key))
             /\ \E gen \in screens :
                  On(gen, "import") /\ (On(gen, "new") \/ On(gen, "edit"))
          \/ /\ screens # {}
             /\ \A gen \in screens : Off(gen, "import")

(* The creator is not in the key of records only the creator sees.         *)
SelfOnlyKeys(s) ==
  \A key \in Named(s) :
    SelfOnly(Def(s, key)) => << <<"creator", "id">> >> \notin ImportKey(Def(s, key))
====
