---- MODULE SchemaExamples ----
(***************************************************************************)
(* A hotel: its Prisma schema, the schema its author writes, and the one   *)
(* the generator builds of both.  Every rule accepts it; each of the       *)
(* changes below breaks one rule and no other.  Where a definition has a   *)
(* simpler meaning, small schemas of every shape are compared with it.     *)
(***************************************************************************)
EXTENDS PrismaRules, SearchFields, TLC

(*-------------------------------- names ----------------------------------*)

room == <<"room">>
guest == <<"guest">>
stay == <<"stay">>
line == <<"line">>
lot == <<"lot">>
note == <<"note">>
order == <<"order">>
plan == <<"plan">>
draft == <<"plan", "version">>
memo == <<"memo">>
memoable == <<"memoable">>
attachment == <<"attachment">>

name == <<"name">>
code == <<"code">>
rank == <<"rank">>
title == <<"title">>
status == <<"status">>
number == <<"number">>
quantity == <<"quantity">>
lines == <<"lines">>
notes == <<"notes">>
cover == <<"cover">>
helper == <<"helper">>
creatorId == <<"creator", "id">>

(*--------------------------------- Prisma --------------------------------*)

Words == [type |-> <<"String">>]
Whole == [type |-> <<"Int">>]
Moment == [type |-> <<"DateTime">>]
Maybe(field) == field @@ [nullable |-> TRUE]
ToOne(model, relation) == [type |-> model, fks |-> << Fk(relation) >>]
Many(model) == [type |-> model, list |-> TRUE]

Table(fields, indexes) ==
  [fields |-> fields @@ <<"id">> :> [type |-> <<"String">>, dynamic |-> TRUE],
   indexes |-> indexes, uniques |-> {}]

Tables ==
  [models |->
    room :> Table(name :> Words @@ code :> Words @@ rank :> [type |-> rank]
                  @@ <<"guests">> :> Many(guest), {name})
    @@ guest :> Table(name :> Words @@ Fk(room) :> Words @@ room :> ToOne(room, room)
                      @@ <<"vip">> :> [type |-> <<"Boolean">>] @@ <<"secret">> :> Words
                      @@ notes :> Many(note) @@ <<"stays">> :> Many(stay), {Fk(room)})
    @@ note :> Table(<<"message">> :> Words @@ Fk(guest) :> Words
                     @@ guest :> ToOne(guest, guest), {Fk(guest), <<"message">>})
    @@ stay :> Table(title :> Words @@ status :> (Words @@ [default |-> "draft"])
                     @@ Fk(guest) :> Words @@ guest :> ToOne(guest, guest)
                     @@ Fk(helper) :> Words @@ helper :> ToOne(room, helper)
                     @@ quantity :> Whole @@ <<"start", "time">> :> Moment
                     @@ <<"end", "time">> :> Moment @@ <<"expires", "at">> :> Moment
                     @@ <<"owner", "id">> :> Words
                     @@ Fk(cover) :> Maybe(Words) @@ cover :> ToOne(attachment, cover)
                     @@ lines :> Many(line), {Fk(guest), Fk(helper), Fk(cover)})
    @@ line :> Table(title :> Words @@ Fk(stay) :> Maybe(Words) @@ stay :> ToOne(stay, stay)
                     @@ Fk(lot) :> Maybe(Words) @@ lot :> ToOne(lot, lot),
                     {Fk(stay), Fk(lot), title})
    @@ lot :> Table(name :> Words @@ quantity :> Whole @@ <<"reserved">> :> Whole
                    @@ lines :> Many(line), {name})
    @@ order :> Table(name :> Words @@ creatorId :> Words
                      @@ PriceId :> (Words @@ [default |-> "price"]), {name, creatorId})
    @@ plan :> Table(name :> Words @@ CurrentVersion :> Maybe(Words)
                     @@ <<"current", "version">> :> ToOne(draft, <<"current", "version">>),
                     {name, CurrentVersion})
    @@ draft :> [Table(title :> Words @@ number :> Maybe(Whole) @@ Fk(plan) :> Words
                       @@ plan :> ToOne(plan, plan), {Fk(plan), title})
                 EXCEPT !.uniques = {{Fk(plan), number}}]
    @@ memo :> Table(title :> Words, {title})
    @@ memoable :> Table(title :> Words, {})
    @@ attachment :> Table(name :> Words @@ <<"uploader", "id">> :> Maybe(Words)
                           @@ <<"uploader", "organization", "id">> :> Maybe(Words)
                           @@ <<"attachable", "id">> :> Maybe(Words)
                           @@ <<"stay", "cover">> :> Maybe([type |-> stay]), {}),
   enums |-> {rank}]

(*------------------------------- the author ------------------------------*)

Screens == [list |-> TRUE, view |-> TRUE, new |-> TRUE, edit |-> TRUE, delete |-> TRUE]
NoScreens == [f \in CoreSwitches |-> FALSE]
Hidden == [internal |-> {"page", "embed", "api"}]
ShowsBy(field) == [table |-> << [field |-> field, primary |-> TRUE] >>]
Plainly == Nothing
Grid(child) == [type |-> {"array"}, items |-> child]
Choice(target, paths) ==
  [rel |-> [target |-> target, label |-> [list |-> FALSE, paths |-> paths]]]

Authored ==
  [definitions |->
    room :> [generate |-> Screens, display |-> ShowsBy(name),
             import_key |-> {<< name >>, << code >>},
             properties |-> name :> Plainly @@ code :> Plainly @@ rank :> [enum |-> <<"a", "b">>]]
    @@ guest :> [generate |-> Screens, display |-> ShowsBy(room) @@ [form |-> {name}],
                 gdpr |-> "both", import_key |-> {<< name >>},
                 properties |-> name :> [pii |-> "direct", trigram |-> TRUE]
                                @@ Fk(room) :> [rel |-> [target |-> room,
                                     label |-> [list |-> TRUE, paths |-> {<< name >>, << code >>}]]]
                                @@ <<"vip">> :> Plainly @@ <<"secret">> :> [custom |-> {"upsert"}]
                                @@ notes :> (Grid(note) @@ [output |-> "comments"])]
    @@ note :> [generate |-> [list |-> TRUE, new |-> FALSE, edit |-> FALSE, delete |-> FALSE],
                display |-> ShowsBy(<<"message">>),
                properties |-> <<"message">> :> Plainly
                               @@ Fk(guest) :> Choice(guest, {<< name >>})]
    @@ stay :> [generate |-> Screens, display |-> ShowsBy(guest) @@ [chart |-> [start |-> <<"start", "time">>]],
                properties |->
                  title :> Plainly @@ status :> [enum |-> <<"draft", "sent", "done", "bad">>]
                  @@ Fk(guest) :> Choice(guest, {<< room, name >>})
                  @@ Fk(helper) :> (Choice(room, {<< name >>})
                       @@ [create_inline |-> TRUE, context |-> {Fk(guest)}])
                  @@ quantity :> Plainly @@ <<"start", "time">> :> Plainly
                  @@ <<"end", "time">> :> Plainly @@ <<"expires", "at">> :> Plainly
                  @@ <<"owner", "id">> :> [server |-> [source |-> "actor"]]
                  @@ Fk(cover) :> [rel |-> [type |-> "direct"]]
                  @@ lines :> Grid(line),
                approval |-> [submit_on |-> status :> "sent",
                              on_approved |-> [set_fields |-> status :> "done"],
                              on_rejected |-> [set_fields |-> status :> "draft"]],
                locked |-> status :> {"bad"},
                task |-> [task_id |-> "expire", handler |-> "expire",
                          filter |-> [expires_at_before_now |-> TRUE]],
                reservation |->
                  [mode |-> "count",
                   pool |-> [entity |-> lot, quantityField |-> quantity,
                             reservedField |-> <<"reserved">>],
                   request |-> [quantityField |-> quantity],
                   result |-> [allocationEntity |-> line, parentField |-> Fk(stay)]]]
    @@ line :> [generate |-> NoScreens, display |-> ShowsBy(title),
                exclusive |-> <<stay, lot>>,
                properties |-> title :> Plainly @@ Fk(stay) :> Choice(stay, {<< title >>})
                               @@ Fk(lot) :> Choice(lot, {<< name >>})]
    @@ lot :> [generate |-> Screens, display |-> ShowsBy(name),
               properties |-> name :> Plainly @@ quantity :> Plainly
                              @@ <<"reserved">> :> Plainly @@ lines :> Grid(line)]
    @@ order :> [generate |-> Screens, display |-> ShowsBy(name), self_only |-> TRUE,
                 payment |-> TRUE, import_key |-> {<< name >>},
                 properties |-> name :> Plainly @@ PriceId :> Plainly @@ creatorId :> Plainly]
    @@ plan :> [generate |-> Screens, display |-> ShowsBy(name),
                properties |-> name :> Plainly]
    @@ draft :> [generate |-> Screens, display |-> ShowsBy(title),
                 version_of |-> [identity |-> plan, number |-> number],
                 approval |-> [on_approved |-> [terminal |-> TRUE]],
                 properties |-> title :> Plainly @@ number :> Plainly
                                @@ Fk(plan) :> Choice(plan, {<< name >>})]
    @@ memo :> [display |-> ShowsBy(title),
                bridge |-> [name |-> memoable, child |-> memo,
                            parents |-> {[role |-> <<"x">>, target |-> room]}],
                properties |-> title :> Plainly]
    @@ memoable :> (Hidden @@ [properties |-> title :> Plainly])
    @@ attachment :> (Hidden @@ [properties |-> name :> Plainly]),
   tasks |-> << [task_id |-> "clean", handler |-> "clean", depends_on |-> <<"expire">>] >>,
   machines |-> << [model |-> stay, field |-> status] >>,
   generator |-> "mobile" :> {"enabled"}]

Hotel == BuildIntermediateSchema(Tables, Authored)

(*--------------------------------- rules ---------------------------------*)

Verdicts(s) ==
  [SnakeCaseNames |-> SnakeCaseNames(s), DetailNames |-> DetailNames(s),
   RelationsEndInId |-> RelationsEndInId(s),
   NoRequiredEnumRelations |-> NoRequiredEnumRelations(s),
   TargetsAreKnown |-> TargetsAreKnown(s), NoEmbeddedTargets |-> NoEmbeddedTargets(s),
   LabelsResolve |-> LabelsResolve(s), SearchContexts |-> SearchContexts(s),
   ManyToManyLabels |-> ManyToManyLabels(s), ServerValues |-> ServerValues(s),
   PiiValues |-> PiiValues(s), GdprValues |-> GdprValues(s),
   TrigramColumns |-> TrigramColumns(s), NoInternalColumns |-> NoInternalColumns(s),
   NativeEnums |-> NativeEnums(s), NoSearchFields |-> NoSearchFields(s),
   InternalDefinitions |-> InternalDefinitions(s), Charts |-> Charts(s),
   CommentsHaveMessages |-> CommentsHaveMessages(s),
   CommentsHaveNoForms |-> CommentsHaveNoForms(s), FormOrders |-> FormOrders(s),
   ListPrimaries |-> ListPrimaries(s), Bridges |-> Bridges(s),
   ImportKeysAreVisible |-> ImportKeysAreVisible(s), CompositeKeys |-> CompositeKeys(s),
   ImportKeysAreUsed |-> ImportKeysAreUsed(s), SelfOnlyKeys |-> SelfOnlyKeys(s),
   ReservationsAreComplete |-> ReservationsAreComplete(s), LocksAreValues |-> LocksAreValues(s),
   LocksLeaveTheAuthorAWay |-> LocksLeaveTheAuthorAWay(s), WellFormedTasks |-> WellFormedTasks(s),
   TaskIdsAreUnique |-> TaskIdsAreUnique(s), TaskFilters |-> TaskFilters(s),
   DependenciesAreKnown |-> DependenciesAreKnown(s), TasksHaveAnOrder |-> TasksHaveAnOrder(s),
   CronJobs |-> CronJobs(s), PaymentsHaveAPrice |-> PaymentsHaveAPrice(s),
   VersionsAreNumbered |-> VersionsAreNumbered(s), ExclusiveParents |-> ExclusiveParents(s),
   InlineCreation |-> InlineCreation(s), Machines |-> Machines(s),
   GeneratorConfig |-> GeneratorConfig(s)]

Broken(s) ==
  LET verdicts == Verdicts(s)
  IN  {rule \in DOMAIN verdicts : ~verdicts[rule]}

With(key, d) == [Hotel EXCEPT !.definitions = key :> d @@ @]
Declare(key, switch, value) == With(key, switch :> value @@ Def(Hotel, key))
AddColumn(key, n, p) == With(key, [Def(Hotel, key) EXCEPT !.properties = n :> p @@ @])
Annotate(model, n, k, value) ==
  AddColumn(RawKey(model), n, k :> value @@ Columns(Def(Hotel, RawKey(model)))[n])
Leads(target, paths) == [type |-> {"string"}] @@
  [rel |-> [type |-> "many-to-one"] @@ Choice(target, paths).rel]
Relate(model, n, target, paths) == AddColumn(RawKey(model), n, Leads(target, paths))
Embed(s, key, n, list) ==
  [s EXCEPT !.definitions[key].allOf[2].properties = n :> list @@ @]
Job(id, deps) == [task_id |-> id, handler |-> "run", depends_on |-> deps]
AddJob(job) == [Hotel EXCEPT !.tasks = Append(@, job)]
Reserve(part, value) ==
  Declare(RawKey(stay), "reservation", part :> value @@ Def(Hotel, RawKey(stay)).reservation)

sub == <<"sub">>
Nameable == [properties |-> <<"id">> :> [type |-> {"string"}] @@ name :> [type |-> {"string"}]
                         @@ code :> [type |-> {"string"}],
          required |-> {<<"id">>, name, code}]

Spoiled ==
  [SnakeCaseNames |-> {With(<<MixedCase, "rooms">>, Nameable)},
   DetailNames |-> {With(<<"suite", "detail">>, Nameable)},
   RelationsEndInId |-> {Relate(guest, title, room, {<< code >>})},
   NoRequiredEnumRelations |-> {Annotate(guest, Fk(room), "enum", <<"a">>)},
   TargetsAreKnown |-> {Relate(note, Fk(<<"tag">>), <<"tag">>, {<< name >>})},
   NoEmbeddedTargets |->
     {Embed([Relate(plan, Fk(sub), sub, {<< name >>}) EXCEPT !.definitions = sub :> Nameable @@ @],
            lot, <<"subs">>, Grid(sub))},
   LabelsResolve |-> {Relate(note, Fk(room), room, {<< title >>}),
                      Relate(note, Fk(room), room, {<< guest, name >>})},
   SearchContexts |-> {Annotate(stay, Fk(helper), "context", {title})},
   ManyToManyLabels |->
     {Declare(stay, "relationships", <<"guests">> :>
        ([type |-> "many-to-many"] @@ Choice(guest, {<< title >>}).rel))},
   ServerValues |-> {Annotate(stay, title, "server", [source |-> "clock"])},
   PiiValues |-> {Annotate(guest, name, "pii", "direkt")},
   GdprValues |-> {Declare(RawKey(guest), "gdpr", "nobody")},
   TrigramColumns |-> {Annotate(guest, <<"secret">>, "trigram", TRUE),
                       Annotate(room, rank, "trigram", TRUE)},
   NoInternalColumns |-> {Annotate(lot, name, "internal", TRUE)},
   NativeEnums |-> {Annotate(room, rank, "enum", <<"a", MixedCase>>)},
   NoSearchFields |->
     {Annotate(guest, Fk(room), "rel", [search_field |-> TRUE] @@ Leads(room, {<< code >>}).rel)},
   InternalDefinitions |-> {Declare(attachment, "internal", {"page", "api"})},
   Charts |-> {Declare(RawKey(stay), "display",
                 ShowsBy(guest) @@ [chart |-> [start |-> <<"arrival">>]])},
   CommentsHaveMessages |-> {Embed(Hotel, stay, notes, Grid(line) @@ [output |-> "comments"])},
   CommentsHaveNoForms |-> {Declare(note, "generate", Screens)},
   FormOrders |-> {Declare(RawKey(guest), "display", ShowsBy(room) @@ [form |-> {title}])},
   ListPrimaries |-> {Declare(RawKey(lot), "display", [table |-> << [field |-> name] >>]),
                      Annotate(lot, name, "type", {"string", "null"}),
                      Annotate(room, name, "type", {"string", "null"})},
   Bridges |-> {Declare(memo, "bridge", [name |-> memoable, child |-> note, parents |-> {}])},
   ImportKeysAreVisible |-> {Declare(RawKey(room), "import_key", {<< title >>}),
                             Declare(RawKey(guest), "import_key", {<< room, name >>})},
   CompositeKeys |->
     {[Relate(lot, Fk(sub), sub, {<< name >>}) EXCEPT !.definitions =
         sub :> (Nameable @@ [generate |-> Screens, display |-> ShowsBy(name),
                           import_key |-> {<< name >>, << code >>}]) @@ @]},
   ImportKeysAreUsed |->
     {Declare(order, "generate", [Screens EXCEPT !.new = FALSE, !.edit = FALSE])},
   SelfOnlyKeys |-> {Declare(RawKey(order), "import_key", {<< creatorId >>})},
   ReservationsAreComplete |->
     {Reserve("mode", "all"), Reserve("pool", [entity |-> lot]),
      Reserve("lines", [entity |-> line]), Reserve("mode", "item"),
      Reserve("request", [quantityField |-> number])},
   LocksAreValues |-> {Declare(RawKey(stay), "locked", status :> {"gone"})},
   LocksLeaveTheAuthorAWay |-> {Declare(RawKey(stay), "locked", status :> {"sent"}),
                                Declare(RawKey(stay), "locked", status :> {"draft"})},
   WellFormedTasks |-> {AddJob([task_id |-> "sweep"]), AddJob(Job("sweep", <<>>) @@ [filter |-> Nothing])},
   TaskIdsAreUnique |-> {AddJob(Job("expire", <<>>)), AddJob(Job("clean", <<>>))},
   TaskFilters |-> {Declare(RawKey(stay), "task", Job("expire", <<>>) @@ [filter |-> [status_in |-> {}]]),
                    Declare(RawKey(stay), "task", Job("expire", <<>>))},
   DependenciesAreKnown |-> {AddJob(Job("sweep", <<"dust">>)), AddJob(Job("sweep", <<"sweep">>))},
   TasksHaveAnOrder |->
     {[Hotel EXCEPT !.tasks = << Job("wash", <<"dry", "expire">>), Job("dry", <<"wash">>) >>]},
   PaymentsHaveAPrice |-> {Declare(order, "generate", [Screens EXCEPT !.delete = FALSE]),
                           Annotate(order, PriceId, "type", {"string", "null"})},
   VersionsAreNumbered |->
     {Declare(RawKey(draft), "approval", [on_rejected |-> [terminal |-> TRUE]]),
      Annotate(draft, number, "type", {"string"})},
   ExclusiveParents |-> {Annotate(line, Fk(lot), "type", {"string"}),
                         Declare(RawKey(line), "exclusive", <<stay, room>>)},
   InlineCreation |-> {Declare(RawKey(room), "self_only", TRUE)},
   Machines |-> {[Hotel EXCEPT !.machines = @ \o @],
                 [Hotel EXCEPT !.machines[1].field = title]},
   GeneratorConfig |-> {[Hotel EXCEPT !.generator = "mobile" :> {"on"}]}]

(* The hotel keeps every rule; each change breaks the rule it is listed    *)
(* under, and no other.                                                    *)
ASSUME HotelIsAccepted == Broken(Hotel) = {}
ASSUME RulesReject ==
  \A rule \in DOMAIN Spoiled : \A s \in Spoiled[rule] : Broken(s) = {rule}
ASSUME CronJobsAreLimited ==
  LET jobs(n) == [Hotel EXCEPT !.tasks = [i \in 1..n |-> Job(ToString(i), <<>>)]]
  IN  /\ CronJobs(jobs(MaxCronJobs - 1)) /\ ~CronJobs(jobs(MaxCronJobs))
      /\ CronJobs(jobs(MaxCronJobs) @@ [cloud |-> [enabled |-> TRUE, provider |-> "gcp"]])

(*------------------------ what the author may not say --------------------*)

Author(key, n, p) == [Authored EXCEPT !.definitions[key].properties = n :> p @@ @]

Refusals(u) ==
  {<<"names", EntityNames(Tables, u)>>} \cup
  (IF ~EntityNames(Tables, u) THEN {} ELSE {<<"properties", PropertiesAreFields(Tables, u)>>}) \cup
  (IF ~EntityNames(Tables, u) \/ ~PropertiesAreFields(Tables, u) THEN {}
   ELSE {<<"required", RequiredAreEmbedded(Tables, u)>>, <<"columns", ColumnsAgree(Tables, u)>>})
RefusedFor(u) == {r[1] : r \in {r \in Refusals(u) : ~r[2]}}

(* A definition without a model, a view that adds a column, a column that  *)
(* Prisma does not have, a relation said to lead elsewhere, a plain column *)
(* or an optional relation said to be required.                            *)
ASSUME AuthorsAreRefused ==
  /\ RefusedFor(Authored) = {} /\ Builds(Tables, Authored)
  /\ RefusedFor([Authored EXCEPT !.definitions = <<"suite">> :> Nothing @@ @]) = {"names"}
  /\ RefusedFor([Authored EXCEPT !.definitions =
       <<"suite">> :> [view_of |-> room, properties |-> name :> Plainly] @@ @]) = {"properties"}
  /\ RefusedFor(Author(room, title, Plainly)) = {"properties"}
  /\ RefusedFor(Author(note, Fk(guest), Choice(room, {<< name >>}))) = {"columns"}
  /\ RefusedFor([Authored EXCEPT !.definitions[guest] = @ @@ [required |-> {name}]]) = {"required"}
  /\ RefusedFor([Author(line, stay, [ref |-> stay]) EXCEPT !.definitions[line] =
       @ @@ [required |-> {stay}]]) = {"required"}
  /\ RefusedFor(Author(guest, room, [ref |-> room])) = {}

(* An embedded relation brings its column along, and every column that has *)
(* to be given a value is required.                                        *)
ASSUME ColumnsAreInferred ==
  LET u == [Author(note, guest, [ref |-> guest]) EXCEPT !.definitions[note].properties =
              Restrict(@, {<<"message">>, guest})]
      raw == Def(BuildIntermediateSchema(Tables, u), RawKey(note))
  IN  /\ raw.required = {<<"id">>, <<"message">>, Fk(guest)}
      /\ raw.properties[Fk(guest)] =
           [Leads(guest, {<< name >>}) EXCEPT !.type = {"string"}] @@ [cuid |-> TRUE]

(*------------------------- lists lead to their parent --------------------*)

(* Every way two relations of a line can be named and lead: a list knows   *)
(* the column by which Prisma relates it when there is just one, unless it *)
(* is shown as a list of links or as comments, where the column is guessed *)
(* by its name alone.                                                      *)
Related(target, relation, tag) == If(tag # "none", "relation", tag) @@ ToOne(target, relation)
Twice(first, second, tags) ==
  [Tables EXCEPT
     !.models[line].fields =
        stay :> Related(first, stay, tags[1]) @@ helper :> Related(second, helper, tags[2])
        @@ Fk(helper) :> Maybe(Words) @@ @,
     !.models[stay].fields = lines :> (If(tags[3] # "none", "relation", tags[3]) @@ Many(line)) @@ @]

ASSUME ListsLeadBack ==
  \A first, second \in {stay, lot}, tags \in [1..3 -> {"none", "x"}],
     output \in {"none", "list", "comments"} :
    LET p == Twice(first, second, tags)
        u == [Author(line, Fk(helper), Choice(second, {<< title >>})) EXCEPT
                !.definitions[line].properties = Fk(stay) :> Choice(first, {<< title >>}) @@ @,
                !.definitions[stay].properties = lines :> (Grid(line) @@ [output |-> output]) @@ @]
        s == BuildIntermediateSchema(p, u)
        back == BackReferences(p, stay, lines)
        fks == ListFks(Def(s, stay), lines, RawDef(s, line), stay)
    IN  Cardinality(back) = 1 =>
          IF output = "none" THEN fks = UNION {Range(p.models[line].fields[r].fks) : r \in back}
          ELSE fks = {Fk(stay)}

(*------------------------------ task order -------------------------------*)

(* The depth-first search finds a cycle exactly when there is one, in all  *)
(* graphs of three tasks.                                                  *)
Jobs3 == {"a", "b", "c"}
Loop(graph, n) ==
  \E walk \in [1..n -> Jobs3] :
    \A i \in 1..n : walk[IF i = n THEN 1 ELSE i + 1] \in graph[walk[i]]

ASSUME CyclesAreFound ==
  \A graph \in [Jobs3 -> SUBSET Jobs3] :
    FindsCycle([t \in Jobs3 |-> SetToSeq(graph[t])]) <=> \E n \in 1..3 : Loop(graph, n)

(*------------------------- the schemas side by side ----------------------*)

PrismaVerdicts(p) ==
  [IndexesExist |-> IndexesExist(Hotel, p), SelfOnlyCreators |-> SelfOnlyCreators(Hotel, p),
   AttachmentProvenance |-> AttachmentProvenance(p),
   DirectAttachmentColumns |-> DirectAttachmentColumns(Hotel, p),
   VersionColumns |-> VersionColumns(Hotel, p), DefaultsExist |-> DefaultsExist(Hotel, p),
   SubmitDefaultsAgree |-> SubmitDefaultsAgree(Hotel, p)]
Missed(p) == {rule \in DOMAIN PrismaVerdicts(p) : ~PrismaVerdicts(p)[rule]}

Field(model, n, field) == [Tables EXCEPT !.models[model].fields = n :> field @@ @]
Without(model, n) ==
  [Tables EXCEPT !.models[model].fields = Restrict(@, DOMAIN @ \ {n})]

SpoiledTables ==
  [IndexesExist |-> {[Tables EXCEPT !.models[guest].indexes = {}],
                     [Tables EXCEPT !.models[lot].indexes = {}],
                     [Tables EXCEPT !.models[order].indexes = {name}]},
   SelfOnlyCreators |-> {Without(order, creatorId)},
   AttachmentProvenance |-> {Without(attachment, <<"uploader", "id">>)},
   DirectAttachmentColumns |-> {Without(attachment, <<"stay", "cover">>),
                                Field(attachment, <<"attachable", "id">>, Words)},
   VersionColumns |-> {[Tables EXCEPT !.models[draft].uniques = {}],
                       Without(plan, <<"current", "version">>),
                       Field(draft, number, Whole)},
   DefaultsExist |-> {Field(order, PriceId, Words)},
   SubmitDefaultsAgree |-> {Field(stay, status, Words @@ [default |-> "sent"])}]

ASSUME TablesAreAccepted == Missed(Tables) = {}
ASSUME PrismaRulesReject ==
  \A rule \in DOMAIN SpoiledTables : \A p \in SpoiledTables[rule] : Missed(p) = {rule}

(* A new version of a plan is a copy of its title, without a number.       *)
ASSUME VersionsAreCopied ==
  PrefillPlan(Hotel, Tables, draft) =
    [own |-> [resets |-> <<"id">> :> "''" @@ number :> "null", drop |-> {}],
     children |-> <<>>, left_empty |-> {}, holders |-> <<>>]

(*----------------------- what is typed can be found ----------------------*)

Kinds ==
  [words |-> [type |-> {"string"}], maybe |-> [type |-> {"string", "null"}],
   choice |-> [type |-> {"string"}, enum |-> <<"a", "b">>],
   whole |-> [type |-> {"integer"}],
   level |-> [type |-> {"integer"}, enum |-> <<"lo", "hi">>],
   flag |-> [type |-> {"boolean"}],
   day |-> [type |-> {"string"}, format |-> "date"],
   link |-> [type |-> {"string"}, format |-> "uri"],
   ident |-> [type |-> {"string"}, cuid |-> TRUE],
   price |-> [type |-> {"string"}, decimal |-> TRUE],
   unsearched |-> [type |-> {"string"}, unsearched |-> TRUE],
   secret |-> [type |-> {"string"}, custom |-> {"upsert"}]]

(* A note shows its guest by a column of the guest, of the guest's room,   *)
(* or of the hotel that room is in.                                        *)
far == <<"far">>
Displaying(kind, depth) ==
  LET path == [i \in 1..depth |-> IF i = depth THEN far ELSE IF i = 1 THEN room ELSE plan]
      at == IF depth = 1 THEN guest ELSE IF depth = 2 THEN room ELSE plan
      s == Annotate(note, Fk(guest), "rel", Leads(guest, {path}).rel)
  IN  [path |-> path, schema |->
         [s EXCEPT !.definitions[RawKey(at)].properties = far :> Kinds[kind] @@ @,
                   !.definitions[RawKey(room)].properties = Fk(plan) :> Leads(plan, {<< name >>}) @@ @]]

TypedNotFound ==
  {c \in (DOMAIN Kinds) \X (1..3) :
     LET x == Displaying(c[1], c[2])
         label == [list |-> FALSE, paths |-> {x.path}]
     IN  x.path \in TypedPaths(x.schema, guest, label) /\ ~Matched(x.schema, guest, x.path)}
FoundNotText ==
  {c \in (DOMAIN Kinds) \X (1..3) :
     LET x == Displaying(c[1], c[2])
     IN  Is(Kinds[c[1]], "decimal") /\ Matched(x.schema, guest, x.path)}

(* A test types into a select what the row is shown by, and the options    *)
(* must match every token of it.  They do not match a link, a code or a    *)
(* flag, a column kept from the search or a decimal of the entity itself,  *)
(* nor anything two relations away; and they match a decimal one relation  *)
(* away as if it were text.                                                *)
ASSUME WhatIsNotFound ==
  /\ TypedNotFound =
       {"flag", "link", "ident"} \X (1..3) \cup {"words", "maybe"} \X {3}
         \cup {"price", "unsearched", "secret"} \X {1, 3}
  /\ FoundNotText = {<<"price", 2>>}
====
