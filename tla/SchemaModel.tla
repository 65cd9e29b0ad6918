---- MODULE SchemaModel ----
(***************************************************************************)
(* The schema an author declares, as the generator reads it: definitions   *)
(* by key, raw ones ("__order", which hold the columns) beside views       *)
(* ("order", which hold the switches), the properties and relations a      *)
(* definition resolves to, and the entities generate.py works on.          *)
(*                                                                         *)
(* A name is the sequence of its words: <<"room", "id">> is room_id and    *)
(* <<"__", "room">> is __room.  A YAML mapping is a function over the keys *)
(* that are there, so an optional key is a question about its domain.      *)
(***************************************************************************)
EXTENDS Integers, Sequences, FiniteSets, SequencesExt

Nothing == <<>>
Has(m, key) == key \in DOMAIN m
Get(m, key, otherwise) == IF Has(m, key) THEN m[key] ELSE otherwise
Is(m, key) == Get(m, key, FALSE)

(*-------------------------------- names ----------------------------------*)

RawKey(name) == <<"__">> \o name
IsRaw(key) == key # <<>> /\ Head(key) = "__"
Bare(key) == IF IsRaw(key) THEN Tail(key) ELSE key

EndsWith(name, word) == Len(name) > 1 /\ Last(name) = word
IsFk(name) == EndsWith(name, "id")
Fk(relation) == relation \o <<"id">>
RelationName(name) == IF IsFk(name) THEN Front(name) ELSE name

(* A word no generated identifier can be built from.                       *)
MixedCase == "MixedCase"
SnakeCase(key) == MixedCase \notin Range(key)

(*----------------------------- definitions -------------------------------*)

Defs(s) == s.definitions
Def(s, key) == Get(Defs(s), key, Nothing)
Known(s, name) == Has(Defs(s), name)
Named(s) == {key \in DOMAIN Defs(s) : SnakeCase(key)}
Views(s) == {key \in Named(s) : ~IsRaw(key)}

RawDef(s, name) ==
  IF Def(s, RawKey(name)) # Nothing THEN Def(s, RawKey(name)) ELSE Def(s, name)

Refs(d) == SelectSeq(Get(d, "allOf", <<>>), LAMBDA item : Has(item, "ref"))
Inlines(d) == SelectSeq(Get(d, "allOf", <<>>), LAMBDA item : ~Has(item, "ref"))
Columns(d) == Get(d, "properties", Nothing)

(* Later entries of a merge replace earlier ones.                          *)
Merge(f, g) == [n \in DOMAIN f \cup DOMAIN g |-> IF Has(g, n) THEN g[n] ELSE f[n]]

(* The columns a definition has of its own, or else inherits by allOf.     *)
Properties(s, key) ==
  LET merged[k \in Seq(STRING)] ==
        LET d == Def(s, k)
            parts == Get(d, "allOf", <<>>)
            upTo[i \in 0..Len(parts)] ==
              IF i = 0 THEN Nothing
              ELSE Merge(upTo[i - 1],
                         IF Has(parts[i], "ref") THEN merged[parts[i].ref]
                         ELSE Columns(parts[i]))
        IN  IF Has(d, "properties") THEN d.properties ELSE upTo[Len(parts)]
  IN  merged[key]

Required(s, key) ==
  LET required[k \in Seq(STRING)] ==
        LET d == Def(s, k)
        IN  Get(d, "required", {})
              \cup UNION {Get(Inlines(d)[i], "required", {}) : i \in DOMAIN Inlines(d)}
              \cup UNION {required[Refs(d)[i].ref] : i \in DOMAIN Refs(d)}
  IN  required[key]

(* What a definition declares itself, its inline allOf parts included.     *)
OwnProperties(d) ==
  LET parts == Inlines(d)
      upTo[i \in 0..Len(parts)] ==
        IF i = 0 THEN Columns(d) ELSE Merge(upTo[i - 1], Columns(parts[i]))
  IN  upTo[Len(parts)]

(* The Prisma model behind a key: the first reference, followed to its end. *)
BackingModel(s, key) ==
  LET walk[k \in Seq(STRING), seen \in SUBSET Seq(STRING)] ==
        IF k \in seen \/ Refs(Def(s, k)) = <<>> THEN Bare(k)
        ELSE walk[Head(Refs(Def(s, k))).ref, seen \cup {k}]
  IN  walk[key, {}]

(*------------------------------ properties -------------------------------*)

(* A property's type is the set of types it allows.                        *)
Type(p) == Get(p, "type", {})
Nullable(p) == "null" \in Type(p)
ActualType(p) == Type(p) \ {"null"}
Text(p) == ActualType(p) = {"string"}
IsEnum(p) == Has(p, "enum")
CustomTargets(p) == Get(p, "custom", {})

(* A row may be without a value there.                                     *)
Optional(name, props, required) ==
  name \notin required \/ Nullable(Get(props, name, Nothing))

(* Entered but never shown: a secret.                                      *)
WriteOnly(p) == Text(p) /\ "upsert" \in CustomTargets(p) /\ "view" \notin CustomTargets(p)

(* A column that is searched as text.                                      *)
TextColumn(name, p) ==
  /\ Text(p)
  /\ name # <<"id">> /\ ~Is(p, "primary")
  /\ ~Has(p, "rel") /\ ~IsFk(name)
  /\ ~IsEnum(p) /\ ~Is(p, "cuid") /\ ~Is(p, "decimal")
  /\ Get(p, "format", "none") \notin {"date", "date-time", "time", "uri"}
  /\ "upsert" \notin CustomTargets(p)

(*------------------------------- relations -------------------------------*)

Relates(p, types) == Has(p, "rel") /\ p.rel.type \in types
Target(p) == Get(p.rel, "target", <<>>)

(* A label is one path or a list of them; a path is a sequence of names.   *)
NameLabel == [list |-> FALSE, paths |-> {<< <<"name">> >>}]
Label(rel) == Get(rel, "label", NameLabel)

ParentRelations(d) ==
  {n \in DOMAIN Columns(d) \ {<<"creator", "id">>} :
     /\ Relates(d.properties[n], {"many-to-one", "one-to-one"})
     /\ Target(d.properties[n]) # <<>>}

(* A reference that resolves for labels: through columns, or the columns   *)
(* of the first reference that has some.                                   *)
LabelProperties(s, key) ==
  LET d == Def(s, key)
      holders == SelectSeq(Refs(d), LAMBDA item : Has(Def(s, item.ref), "properties"))
  IN  IF Has(d, "properties") \/ holders = <<>> THEN Columns(d)
      ELSE Def(s, Head(holders).ref).properties

Outbound(s, key, relation) ==
  {Target(p) : p \in
     {LabelProperties(s, key)[n] : n \in
        {n \in DOMAIN LabelProperties(s, key) : RelationName(n) = relation}}
     \cap {q \in {LabelProperties(s, key)[n] : n \in DOMAIN LabelProperties(s, key)} :
             Relates(q, {"many-to-one", "one-to-one", "one-to-one_bridge"})}}

(* A path resolves when each step but the last is a relation of the entity *)
(* reached so far, and the last one a property.                            *)
PathResolves(s, target, path) ==
  LET from[i \in 1..Len(path), key \in Seq(STRING)] ==
        IF i = Len(path) THEN Has(LabelProperties(s, key), path[i])
        ELSE \E next \in Outbound(s, key, path[i]) \ {<<>>} : from[i + 1, next]
  IN  from[1, target]

LabelResolves(s, target, label) ==
  \A path \in label.paths : PathResolves(s, target, path)

(* Something to show for a related row: its label, or a name.              *)
Shown(s, target, rel) ==
  IF Has(rel, "label") THEN LabelResolves(s, target, rel.label)
  ELSE Has(Properties(s, target), <<"name">>)

(*------------------------------- entities --------------------------------*)

CoreSwitches == {"list", "view", "new", "edit", "delete", "api"}
Off(gen, switch) == Has(gen, switch) /\ ~gen[switch]

BaseModels(s) ==
  {k \in DOMAIN Defs(s) : IsRaw(k) /\ ~EndsWith(k, "input")
                            /\ Has(Columns(Def(s, k)), <<"id">>)}

(* The raw definition a key leads to, at most one, depth first.            *)
RawKeyOf(s, key) ==
  LET find[k \in Seq(STRING), seen \in SUBSET Seq(STRING)] ==
        IF k \in BaseModels(s) THEN <<k>>
        ELSE IF k \in seen THEN <<>>
        ELSE LET found == SelectSeq(
                   [i \in DOMAIN Refs(Def(s, k)) |->
                      find[Refs(Def(s, k))[i].ref, seen \cup {k}]],
                   LAMBDA r : r # <<>>)
             IN  IF found = <<>> THEN <<>> ELSE Head(found)
  IN  find[key, {}]

(* x-generate: on the definition itself, or on the raw one behind a view.  *)
Generate(s, key) ==
  LET own == Get(Def(s, key), "generate", Nothing)
      raw == RawKeyOf(s, key)
  IN  IF own # Nothing \/ raw = <<>> THEN own
      ELSE Get(Def(s, raw[1]), "generate", Nothing)

Internal(s, key) ==
  \E k \in {key} \cup Range(RawKeyOf(s, key)) :
    Has(Def(s, k), "internal")

(* A switch is on unless it says no, but REST routes and tests are asked for. *)
On(gen, switch) ==
  IF switch \in {"api", "test", "invalidate"} THEN Is(gen, switch)
  ELSE ~Off(gen, switch)

ModelOf(s, key) == Bare(RawKeyOf(s, key)[1])

Declaring(s) ==
  {key \in DOMAIN Defs(s) :
     RawKeyOf(s, key) # <<>> /\ ~Internal(s, key) /\ Generate(s, key) # Nothing}

(* The lists an entity's forms embed: per property, the child it holds.    *)
ListProperties(d) ==
  LET parts == SelectSeq(Inlines(d), LAMBDA item : Has(item, "properties"))
  IN  IF Columns(d) # Nothing THEN Columns(d)
      ELSE IF parts = <<>> THEN Nothing ELSE Head(parts).properties

ChildLists(d) ==
  {n \in DOMAIN ListProperties(d) :
     Type(ListProperties(d)[n]) = {"array"} /\ Has(ListProperties(d)[n], "items")}
ChildOf(d, n) == ListProperties(d)[n].items
OutputType(d, n) == Get(ListProperties(d)[n], "output", "none")
ManyToMany(d, n) ==
  LET rels == Get(d, "relationships", Nothing)
  IN  Has(rels, n) /\ rels[n].type = "many-to-many"

Children(s, key) == {ChildOf(Def(s, key), n) : n \in ChildLists(Def(s, key))}
ListedBy(s, child) == {ModelOf(s, k) : k \in {k \in Declaring(s) : child \in Children(s, k)}}

(* Not an entity whose every switch is off, nor a raw definition that is   *)
(* only ever a child, unless the two list each other.                      *)
Switched(s) ==
  {key \in Declaring(s) : \E f \in CoreSwitches : ~Off(Generate(s, key), f)}

EntityKeys(s) ==
  {key \in Switched(s) :
     LET model == ModelOf(s, key)
     IN  \/ ListedBy(s, model) = {}
         \/ ~IsRaw(key)
         \/ \E other \in ListedBy(s, model) : model \in ListedBy(s, other)}

(*---------------------------- parents and bridges ------------------------*)

(* A child's columns that lead to a parent: <parent>_id, or else whatever  *)
(* names it, unless the list names them.                                   *)
ParentFks(child, parent) ==
  LET named == {n \in DOMAIN Columns(child) :
                  Has(child.properties[n], "rel") /\ Target(child.properties[n]) = parent}
  IN  IF Has(Columns(child), Fk(parent)) \/ named = {} THEN {Fk(parent)} ELSE named

ListFks(d, n, child, parent) ==
  LET declared == Get(ListProperties(d)[n], "parent_fk", {})
  IN  IF declared # {} /\ OutputType(d, n) \notin {"list", "comments"}
      THEN declared ELSE ParentFks(child, parent)

(* The bridge that makes an entity a child of several kinds of parent.     *)
IsBridgeChild(d) ==
  Has(d, "bridge") /\ Has(d.bridge, "name") /\ Has(d.bridge, "child")

(* Columns that point at a model without any generated screen or route.    *)
InternalModel(s, name) ==
  \A k \in DOMAIN Defs(s) :
    k = name \/ (Len(k) > Len(name) /\ IsPrefix(name, k)) =>
      \A f \in CoreSwitches : ~Is(Get(Def(s, k), "generate", Nothing), f)

InternalFks(s, d) ==
  {n \in DOMAIN Columns(d) :
     /\ IsFk(n)
     /\ LET p == d.properties[n]
            to == IF Has(p, "rel") THEN Target(p) ELSE RelationName(n)
        IN  /\ Has(p, "rel") => p.rel.type = "one-to-one_bridge"
            /\ Has(Defs(s), to)
            /\ InternalModel(s, to)}

SelfOnly(d) == Has(d, "self_only")

DirectAttachments(d) ==
  {n \in DOMAIN Columns(d) : Relates(d.properties[n], {"direct"})
                               /\ Target(d.properties[n]) = <<"attachment">>}
====
