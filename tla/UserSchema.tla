---- MODULE UserSchema ----
(***************************************************************************)
(* From the schema an author writes and the schema of Prisma to the schema *)
(* the generator reads: build_user_schema.py and schema_deriver.py.        *)
(*                                                                         *)
(* A Prisma schema p has models and enums.  A field of a model has a type  *)
(* (a name, <<"Int">> or <<"room">>); a relation also has fks, the columns *)
(* that lead there.  An entry of the author's schema is a definition       *)
(* without allOf: its properties are columns and embedded relations        *)
(* together, and only what Prisma does not say.                            *)
(*                                                                         *)
(* Assumed: a column belongs to one relation at most.                      *)
(***************************************************************************)
EXTENDS SchemaModel

Model(p, name) == p.models[name].fields
IsRelation(p, field) == Has(field, "fks") \/ Has(p.models, field.type)
Fks(field) == Get(field, "fks", <<>>)

(* A submodule builds from the schema of its consumer, not from its own    *)
(* example, unless it is told to.                                          *)
DogfoodGuard(at) ==
  at.submodule /\ at.ownSchema /\ ~at.skip => at.consumerSchema /\ at.synced

(* The definitions the framework ships stand in for the ones not written.  *)
MergeInternal(u, internal) == [u EXCEPT !.definitions = Merge(internal, @)]

(*------------------------------ what is refused --------------------------*)

ViewedModel(u, key) == Get(Def(u, key), "view_of", key)

EntityNames(p, u) ==
  \A key \in DOMAIN u.definitions :
    LET entry == u.definitions[key]
    IN  /\ ~IsRaw(key) /\ ~Has(entry, "fields") /\ ~Has(entry, "allOf")
        /\ Has(p.models, key) = ~Has(entry, "view_of")
        /\ Has(p.models, ViewedModel(u, key)) /\ Known(u, ViewedModel(u, key))

Embeds(prop) == IF Has(prop, "ref") THEN prop.ref ELSE Get(prop, "items", <<>>)

(* A view of a model changes no column, and a relation embeds what Prisma  *)
(* relates.                                                                *)
PropertiesAreFields(p, u) ==
  \A key \in DOMAIN u.definitions :
    LET entry == u.definitions[key]
        model == Model(p, ViewedModel(u, key))
    IN  \A n \in DOMAIN Columns(entry) :
          /\ Has(model, n)
          /\ IF IsRelation(p, model[n])
             THEN /\ ~Has(entry.properties[n], "rel")
                  /\ LET embedded == Embeds(entry.properties[n])
                     IN  embedded # <<>> => ViewedModel(u, embedded) = model[n].type
             ELSE Has(p.models, key)

Embedding(p, key, entry) ==
  {n \in DOMAIN Columns(entry) : IsRelation(p, Model(p, key)[n])}

(* Only embedded relations may be called required, and a relation to one   *)
(* row only if Prisma does not allow it to be absent.                      *)
RequiredAreEmbedded(p, u) ==
  \A key \in DOMAIN u.definitions \cap DOMAIN p.models :
    LET entry == u.definitions[key]
        model == Model(p, key)
        toOne(n) == Has(model[n], "fks") /\ ~Is(model[n], "list")
    IN  \A n \in Get(entry, "required", {}) :
          /\ n \in Embedding(p, key, entry)
          /\ toOne(n) =>
               LET fks == Range(model[n].fks) \cap DOMAIN model
               IN  fks # {} /\ \A fk \in fks : ~Is(model[fk], "nullable")

(*------------------------------ derived columns --------------------------*)

(* The columns of embedded relations need not be written.                  *)
WrittenColumns(p, key, entry) ==
  LET model == Model(p, key)
      inferred == UNION {Range(Fks(model[n])) : n \in Embedding(p, key, entry)}
  IN  Merge([n \in inferred |-> [rel |-> Nothing]],
            Restrict(Columns(entry), DOMAIN Columns(entry) \ Embedding(p, key, entry)))

FkTargets(model, n) == {model[r].type : r \in {r \in DOMAIN model : n \in Range(Fks(model[r]))}}

JsonTypes ==
  [String |-> "string", Boolean |-> "boolean", Int |-> "integer",
   DateTime |-> "string", Decimal |-> "string"]
JsonType(p, field) == IF field.type \in p.enums THEN "string" ELSE JsonTypes[field.type[1]]

If(condition, key, value) == IF condition THEN key :> value ELSE Nothing

(* What Prisma says of a column.                                           *)
Facts(p, model, n, over) ==
  LET field == model[n]
      nullable == Is(field, "nullable") /\ ~Is(over, "non_nullable")
      legacy == Is(over, "legacy_nullable")
  IN  If(TRUE, "type", {JsonType(p, field)} \cup (IF nullable /\ ~legacy THEN {"null"} ELSE {}))
      @@ If(nullable /\ legacy, "nullable", TRUE)
      @@ If(field.type = <<"DateTime">>, "format", "date-time")
      @@ If(field.type \in p.enums, "native_enum", TRUE)
      @@ If(field.type = <<"Decimal">>, "decimal", TRUE)
      @@ If(FkTargets(model, n) # {} /\ ~Is(over, "no_fk_pattern"), "cuid", TRUE)
      @@ If(Has(field, "default"), "default", Get(field, "default", ""))

(* A relation leads where Prisma says and, if rows are chosen, shows names. *)
Relationship(model, n, rel) ==
  LET type == Get(rel, "type", "many-to-one")
  IN  [type |-> type, target |-> CHOOSE t \in FkTargets(model, n) : TRUE]
      @@ If(type # "direct", "label", Label(rel))
      @@ Restrict(rel, DOMAIN rel \ {"label"})

Private == {"legacy_nullable", "required", "non_nullable", "no_fk_pattern"}

(* What the author says wins over what Prisma says.                        *)
DerivedProperty(p, model, n, over) ==
  Merge(Facts(p, model, n, over),
        [k \in DOMAIN over \ Private |->
           IF k = "rel" THEN Relationship(model, n, over.rel) ELSE over[k]])

(* The author does not contradict Prisma.                                  *)
ColumnsAgree(p, u) ==
  \A key \in DOMAIN u.definitions \cap DOMAIN p.models :
    LET model == Model(p, key)
        written == WrittenColumns(p, key, u.definitions[key])
    IN  /\ Has(model, <<"id">>)
        /\ \A n \in DOMAIN written :
             /\ Has(model, n)
             /\ model[n].type \in p.enums \cup {<<t>> : t \in DOMAIN JsonTypes}
             /\ Has(written[n], "rel") =>
                  LET targets == FkTargets(model, n)
                  IN  targets # {} /\ Get(written[n].rel, "target", <<>>) \in targets \cup {<<>>}

Builds(p, u) ==
  EntityNames(p, u) /\ PropertiesAreFields(p, u) /\ RequiredAreEmbedded(p, u) /\ ColumnsAgree(p, u)

(*---------------------------- built definitions --------------------------*)

(* An id, and every column that must be given a value.                     *)
RawEntity(p, key, entry) ==
  LET model == Model(p, key)
      written == WrittenColumns(p, key, entry)
      mandatory(n) == ~Is(model[n], "nullable") /\ ~Has(model[n], "default") /\ ~Is(model[n], "dynamic")
  IN  [properties |->
         Merge(<<"id">> :> [type |-> {"string"}, cuid |-> TRUE],
               [n \in DOMAIN written |-> DerivedProperty(p, model, n, written[n])]),
       required |->
         {<<"id">>} \cup {n \in DOMAIN written : Is(written[n], "required") \/ mandatory(n)}]

(* The child's relations that lead back along a list: those of the same    *)
(* name, if it has one.                                                    *)
BackReferences(p, key, n) ==
  LET list == Model(p, key)[n]
      child == Model(p, list.type)
  IN  {r \in DOMAIN child :
         /\ child[r].type = key /\ ~Is(child[r], "list")
         /\ Fks(child[r]) # <<>>
         /\ Get(child[r], "relation", "none") = Get(list, "relation", "none")}

(* Lists know which column of the child leads back, when just one can.     *)
WithParentFks(p, key, prop, n) ==
  LET list == Model(p, key)[n]
      back == BackReferences(p, key, n)
  IN  IF /\ Type(prop) = {"array"} /\ Has(prop, "items")
         /\ Is(list, "list") /\ Has(p.models, list.type)
         /\ Cardinality(back) = 1
      THEN [parent_fk |-> UNION {Range(Model(p, list.type)[r].fks) : r \in back}] @@ prop
      ELSE prop

EmbeddedRelations(p, key, entry) ==
  [n \in Embedding(p, key, entry) |-> WithParentFks(p, key, entry.properties[n], n)]

RawLevel ==
  {"import_key", "bridge", "display", "internal", "approval", "approval_lines", "version_of",
   "locked", "ledger_source", "splittable", "reservation", "gdpr", "self_only", "payment",
   "nav", "task", "exclusive"}
ViewLevel ==
  {"generate", "audit", "relationships", "search", "custom_components", "readonly",
   "filter_values"}

(* A model with anything to show is a raw definition and a view of it.     *)
Paired(p, u) == {key \in DOMAIN u.definitions \cap DOMAIN p.models :
                   DOMAIN u.definitions[key] \cap ViewLevel # {}}

Wrapping(ref, inline) ==
  [allOf |-> << [ref |-> ref] >> \o (IF inline = Nothing THEN <<>> ELSE << inline >>)]

ViewOfRaw(p, key, entry) ==
  LET embedded == EmbeddedRelations(p, key, entry)
      inline == If(embedded # Nothing, "properties", embedded)
                @@ Restrict(entry, DOMAIN entry \cap {"required"})
  IN  Wrapping(RawKey(key), inline) @@ Restrict(entry, DOMAIN entry \cap ViewLevel)

Standalone(p, key, entry) ==
  LET raw == RawEntity(p, key, entry)
  IN  [properties |-> Merge(raw.properties, EmbeddedRelations(p, key, entry)),
       required |-> raw.required \cup Get(entry, "required", {})]
      @@ entry

(* Another view of a model wraps the model's own.                          *)
ViewOfView(entry) ==
  LET inlined == DOMAIN entry \cap {"properties", "required"}
  IN  Wrapping(entry.view_of, Restrict(entry, inlined))
      @@ Restrict(entry, DOMAIN entry \ (inlined \cup {"view_of"}))

BuildIntermediateSchema(p, u) ==
  LET entries == u.definitions
      raws == [key \in {RawKey(k) : k \in Paired(p, u)} |->
                 LET entry == entries[Bare(key)]
                 IN  RawEntity(p, Bare(key), entry)
                     @@ Restrict(entry, DOMAIN entry \cap RawLevel)]
      named == [key \in DOMAIN entries |->
                  IF key \in Paired(p, u) THEN ViewOfRaw(p, key, entries[key])
                  ELSE IF Has(p.models, key) THEN Standalone(p, key, entries[key])
                  ELSE ViewOfView(entries[key])]
  IN  [u EXCEPT !.definitions = Merge(raws, named)]
====
