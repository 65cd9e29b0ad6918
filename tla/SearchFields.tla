---- MODULE SearchFields ----
(***************************************************************************)
(* What can be found by typing: the columns a row's label is made of, the  *)
(* ones a test types, and the ones the generated search matches - in the   *)
(* options of an autocomplete, in a list panel and across entities.        *)
(***************************************************************************)
EXTENDS SchemaModel

DateFormats == {"date", "date-time", "time"}
Integral(p) == ActualType(p) = {"integer"}

(*-------------------------------- labels ---------------------------------*)

LabelPaths(label) == IF label.paths = {} THEN NameLabel.paths ELSE label.paths

(* The entity a path has come to before its last step.                     *)
Reached(s, target, path) ==
  LET after[i \in 0..Len(path) - 1] ==
        IF i = 0 THEN {target}
        ELSE UNION {Outbound(s, key, path[i]) \ {<<>>} : key \in after[i - 1]}
  IN  after[Len(path) - 1]

LastProperties(s, target, path) ==
  {LabelProperties(s, key)[Last(path)] : key \in
     {key \in Reached(s, target, path) : Has(LabelProperties(s, key), Last(path))}}

Dated(p) == Get(p, "format", "none") \in DateFormats
Numeric(p) == ActualType(p) \cap {"integer", "number"} # {} /\ ~Dated(p)

(* What a test types into an autocomplete: the segments of the label that  *)
(* are no dates, numbers or text enums.                                    *)
TypedPaths(s, target, label) ==
  {path \in label.paths :
     \A p \in LastProperties(s, target, path) :
       ~Dated(p) /\ ~Numeric(p) /\ ~(ActualType(p) = {"string"} /\ IsEnum(p))}

FormattedPaths(s, target, label) ==
  {path \in LabelPaths(label) : \E p \in LastProperties(s, target, path) : Dated(p)}

(* The relations a query includes to show the label, from the target on.   *)
IncludedRelations(label) ==
  UNION {{SubSeq(path, 1, i) : i \in 1..Len(path) - 1} : path \in LabelPaths(label)}

(* The entities a label reads; only the target when it does not resolve.   *)
RelationChainTargets(s, target, label) ==
  IF ~LabelResolves(s, target, label) THEN {target}
  ELSE {target} \cup UNION {UNION {Reached(s, target, SubSeq(path, 1, i)) : i \in 1..Len(path)} :
                              path \in label.paths}

(*--------------------------- autocomplete options ------------------------*)

Labelled(p) == Has(p, "rel") /\ Target(p) # <<>> /\ Has(p.rel, "label")

(* A column a substring can be matched against on a related row.           *)
Matchable(p) ==
  /\ Text(p) /\ ~IsEnum(p) /\ ~Is(p, "cuid")
  /\ Get(p, "format", "none") \notin DateFormats \cup {"uri"}

MatchableIn(props, name) == Has(props, name) /\ Matchable(props[name])

TextFields(props) ==
  {n \in DOMAIN props : TextColumn(n, props[n]) /\ ~Is(props[n], "unsearched")}

(* Through a relation, at most one hop further through the target's own.   *)
RelationFields(s, props) ==
  UNION {LET relation == RelationName(n)
             near == Properties(s, Target(props[n]))
             paths == props[n].rel.label.paths
         IN  {[relation |-> relation, via |-> <<>>, field |-> path[1]] :
                path \in {path \in paths : Len(path) = 1 /\ MatchableIn(near, path[1])}}
             \cup
             {[relation |-> relation, via |-> path[1], field |-> path[2]] :
                path \in {path \in paths :
                            /\ Len(path) = 2
                            /\ Has(near, Fk(path[1]))
                            /\ Has(near[Fk(path[1])], "rel")
                            /\ Target(near[Fk(path[1])]) # <<>>
                            /\ MatchableIn(Properties(s, Target(near[Fk(path[1])])), path[2])}} :
         n \in {n \in DOMAIN props : Labelled(props[n])}}

(* The paths others show this entity by.                                   *)
ShownBy(s, name) ==
  UNION {UNION {Columns(Def(s, key))[n].rel.label.paths :
                  n \in {n \in DOMAIN Columns(Def(s, key)) :
                           LET p == Columns(Def(s, key))[n]
                           IN  Labelled(p) /\ Target(p) = name}} :
         key \in DOMAIN Defs(s)}

(* Through a relation of its own, for what others show of it.              *)
CrossEntityFields(s, name) ==
  LET own == Properties(s, name)
  IN  {[relation |-> path[1], via |-> <<>>, field |-> path[2]] :
         path \in {path \in ShownBy(s, name) :
                     /\ Len(path) = 2
                     /\ Has(own, Fk(path[1]))
                     /\ Has(own[Fk(path[1])], "rel")
                     /\ Target(own[Fk(path[1])]) # <<>>
                     /\ MatchableIn(Properties(s, Target(own[Fk(path[1])])), path[2])}}

(* Compared, when a token is all digits.                                   *)
IntegerFields(s, name) ==
  LET own == Properties(s, name)
  IN  {path[1] : path \in {path \in ShownBy(s, name) :
                             /\ Len(path) = 1 /\ Has(own, path[1])
                             /\ Integral(own[path[1]])
                             /\ ~IsEnum(own[path[1]]) /\ ~Has(own[path[1]], "rel")}}

(* A version's identity is found by its id, for it may have no label yet.  *)
Identities(s) ==
  {Defs(s)[key].version_of.identity :
     key \in {key \in DOMAIN Defs(s) : Has(Def(s, key), "version_of")
                                         /\ Has(Def(s, key).version_of, "identity")}}

Visible(s, key, props) ==
  LET fields == Get(Generate(s, key), "fields", {})
  IN  IF fields = {} THEN DOMAIN props
      ELSE DOMAIN props \cap (fields \cup {<<"id">>, <<"created", "at">>,
                                           <<"updated", "at">>, <<"creator", "id">>})

(* Each token typed must match one of these of a row.                      *)
SearchOptions(s, key) ==
  LET model == ModelOf(s, key)
      columns == Columns(RawDef(s, model))
      seen == [n \in Visible(s, key, columns) |-> columns[n]]
  IN  [text |-> TextFields(seen),
       related |-> RelationFields(s, seen) \cup CrossEntityFields(s, model),
       integer |-> IntegerFields(s, model) \cap DOMAIN seen,
       id |-> model \in Identities(s)]

(* A segment of a label that the options of its entity match.              *)
Matched(s, key, path) ==
  LET options == SearchOptions(s, key)
  IN  \/ Len(path) = 1 /\ path[1] \in options.text \cup options.integer
      \/ /\ Len(path) = 2
         /\ [relation |-> path[1], via |-> <<>>, field |-> path[2]] \in options.related
      \/ /\ Len(path) = 3
         /\ [relation |-> path[1], via |-> path[2], field |-> path[3]] \in options.related

(*--------------------- search across entities, list panels ---------------*)

GenerateOf(s, key) ==
  LET own == Get(Def(s, key), "generate", Nothing)
  IN  IF own # Nothing THEN own
      ELSE Get(RawDef(s, ModelOf(s, key)), "generate", Nothing)

Audited(s, key) == Is(Def(s, key), "audit") \/ Is(RawDef(s, ModelOf(s, key)), "audit")

(* Asked for, or unless refused where everything is searched; an audited   *)
(* entity is always asked for.                                             *)
Wanted(s, key, scope) ==
  LET gen == GenerateOf(s, key)
  IN  IF scope = "all" THEN ~Off(gen, "search") /\ (Audited(s, key) => Has(gen, "search"))
      ELSE Is(gen, "search")

CuratedColumns(s, key) == Get(Def(s, key), "search", Nothing)
SearchedText(s, key) ==
  Get(CuratedColumns(s, key), "text", TextFields(Columns(RawDef(s, ModelOf(s, key)))))

SearchTarget(s, key, scope) ==
  Wanted(s, key, scope) /\ (Has(CuratedColumns(s, key), "text") \/ SearchedText(s, key) # {})

SearchColumns(s, key, scope) ==
  IF ~SearchTarget(s, key, scope) THEN {}
  ELSE SearchedText(s, key) \cup Get(CuratedColumns(s, key), "bigm", SearchedText(s, key))

Filtered(s, model, flag) ==
  {n \in DOMAIN Columns(RawDef(s, model)) :
     LET p == Columns(RawDef(s, model))[n]
     IN  Has(p, "trigram") /\ p.trigram = flag}

(* What the box of a list panel matches.                                   *)
PanelColumns(s, key, scope) ==
  LET model == ModelOf(s, key)
  IN  (SearchColumns(s, key, scope) \cup Filtered(s, model, TRUE))
        \ Filtered(s, model, FALSE)

(* The columns with a trigram index: one per model, whoever needs it.      *)
IndexedColumns(s, model, scope) ==
  UNION {SearchColumns(s, key, scope) \cup Filtered(s, model, TRUE) :
           key \in {key \in EntityKeys(s) : ModelOf(s, key) = model}}
====
