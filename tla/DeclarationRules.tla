---- MODULE DeclarationRules ----
(***************************************************************************)
(* What validate_schema demands of the features an entity declares:        *)
(* reservations, approval values and write locks, scheduled tasks and the  *)
(* order between them, payments, versions, exclusive parents, creation     *)
(* from a select, state machines.  GeneratorConfig is a gate of its own,   *)
(* which the generator passes first.                                       *)
(***************************************************************************)
EXTENDS SchemaRules

(*------------------------------ reservations -----------------------------*)

Part(record, key) == Get(record, key, Nothing)
Ledger(r) == Get(Part(r, "transaction"), "strategy", "conditional_update") = "ledger_transaction"

(* Where the stock is: the pool of a ledger domain, or an entity.          *)
PoolNamed(s, r) ==
  IF Has(Part(r, "transaction"), "ledgerDomain")
  THEN r.transaction.ledgerDomain \in Get(s, "ledgers", {})
  ELSE Has(Part(r, "pool"), "entity") /\ Known(s, r.pool.entity)

(* Quantities are taken from lots: of a field of the request, or of lines. *)
CountsItems(s, d, r) ==
  LET result == Part(r, "result")
      request == Part(r, "request")
  IN  /\ {"quantityField", "reservedField"} \subseteq DOMAIN Part(r, "pool")
      /\ Has(request, "quantityField") /\ Has(result, "parentField")
      /\ IF Ledger(r) THEN Has(result, "lineTransactionableField")
         ELSE Has(result, "allocationEntity") /\ Known(s, result.allocationEntity)
      /\ IF Has(r, "lines") THEN Ledger(r) \/ Has(result, "lineField")
         ELSE Has(Columns(d), request.quantityField)

(* One item is taken, at any time or for a span of days.                   *)
PicksItem(r) ==
  /\ ~Has(r, "lines") /\ Has(Part(r, "result"), "allocatedField")
  /\ Get(Part(r, "policy"), "availabilitySource", "none") = "overlap" =>
       \/ Has(Part(r, "request"), "dateRange")
       \/ "dateRange" \in Get(Part(r, "request"), "criteria", {})

LinesNamed(s, r) ==
  Has(Part(r, "lines"), "entity") =>
    /\ Known(s, r.lines.entity)
    /\ Has(r.lines, "field") => Has(Properties(s, r.lines.entity), r.lines.field)

ReservationsAreComplete(s) ==
  \A key \in Named(s) :
    Has(Def(s, key), "reservation") =>
      LET r == Def(s, key).reservation
          mode == Get(r, "mode", "none")
      IN  /\ mode \in {"count", "item"} /\ ~Has(r, "actions")
          /\ PoolNamed(s, r) /\ LinesNamed(s, r)
          /\ IF mode = "count" THEN CountsItems(s, Def(s, key), r) ELSE PicksItem(r)

(*--------------------------- values and their locks ----------------------*)

Locks(s, key) == Get(Def(s, key), "locked", Nothing)

LocksAreValues(s) ==
  \A key \in Named(s) : \A field \in DOMAIN Locks(s, key) :
    LET props == Properties(s, key)
    IN  /\ Has(props, field)
        /\ IsEnum(props[field])
        /\ Locks(s, key)[field] \subseteq Range(props[field].enum)

Approval(d) == Get(d, "approval", Nothing)
SetFields(approval, stage) == Part(Part(approval, stage), "set_fields")

(* Values that only a submission or a decision writes cannot also be       *)
(* locked: the author could then never leave them.                         *)
WrittenByApproval(approval, field) ==
  {values[field] : values \in
     {v \in {Part(approval, "submit_on"), SetFields(approval, "on_withdrawn")}
            \cup (IF Is(Part(approval, "on_rejected"), "terminal") THEN {}
                  ELSE {SetFields(approval, "on_rejected")}) :
        Has(v, field)}}

LocksLeaveTheAuthorAWay(s) ==
  \A key \in Named(s) : \A field \in DOMAIN Locks(s, key) :
    LET approval == Approval(RawDef(s, BackingModel(s, key)))
    IN  Locks(s, key)[field] \cap WrittenByApproval(approval, field) = {}

(*---------------------------- scheduled tasks ----------------------------*)

EntityTasks(s) ==
  [key \in {key \in Named(s) : Has(Def(s, key), "task")} |-> Def(s, key).task]
BulkTasks(s) == Get(s, "tasks", <<>>)
AllTasks(s) == Range(EntityTasks(s)) \cup Range(BulkTasks(s))
TaskId(task) == Get(task, "task_id", "none")
TaskIds(s) == {TaskId(task) : task \in AllTasks(s)} \ {"none"}

WellFormedTasks(s) ==
  /\ \A task \in AllTasks(s) : {"task_id", "handler"} \subseteq DOMAIN task
  /\ \A task \in Range(BulkTasks(s)) :
       DOMAIN task \subseteq {"task_id", "handler", "interval", "depends_on"}

TaskIdsAreUnique(s) ==
  LET own == EntityTasks(s)
      bulk == BulkTasks(s)
  IN  /\ \A k, l \in DOMAIN own : TaskId(own[k]) = TaskId(own[l]) => k = l
      /\ \A i, j \in DOMAIN bulk : TaskId(bulk[i]) = TaskId(bulk[j]) => i = j
      /\ \A k \in DOMAIN own, i \in DOMAIN bulk : TaskId(own[k]) # TaskId(bulk[i])

(* The rows of a scan are chosen by their expiry or by their status.       *)
TaskFilters(s) ==
  \A key \in DOMAIN EntityTasks(s) :
    LET filter == Part(EntityTasks(s)[key], "filter")
        expired == Is(filter, "expires_at_before_now")
    IN  /\ expired => Has(Own(s, key), <<"expires", "at">>)
        /\ Has(filter, "status_in") =>
             filter.status_in # {} /\ Has(Own(s, key), <<"status">>)
        /\ expired \/ Has(filter, "status_in")

DependsOn(task) == Get(task, "depends_on", <<>>)
DependenciesAreKnown(s) ==
  \A task \in AllTasks(s) :
    Range(DependsOn(task)) \subseteq TaskIds(s) \ {TaskId(task)}

(* The depth-first search of the validator.  grey are the tasks it came    *)
(* through, black those it is done with.                                   *)
FindsCycle(graph) ==
  LET tasks == DOMAIN graph \cup UNION {Range(graph[t]) : t \in DOMAIN graph}
      visit[t \in tasks, grey \in SUBSET tasks, black \in SUBSET tasks] ==
        LET deps == Get(graph, t, <<>>)
            onPath == grey \cup {t}
            after[i \in 0..Len(deps)] ==
              IF i = 0 THEN [black |-> black, cycle |-> FALSE]
              ELSE LET so == after[i - 1]
                   IN  IF deps[i] \in onPath THEN [so EXCEPT !.cycle = TRUE]
                       ELSE IF deps[i] \in so.black THEN so
                       ELSE LET found == visit[deps[i], onPath, so.black]
                            IN  [found EXCEPT !.cycle = found.cycle \/ so.cycle]
        IN  [after[Len(deps)] EXCEPT !.black = @ \cup {t}]
      starts == SetToSeq(DOMAIN graph)
      from[i \in 0..Len(starts)] ==
        IF i = 0 THEN [black |-> {}, cycle |-> FALSE]
        ELSE LET so == from[i - 1]
             IN  IF starts[i] \in so.black THEN so
                 ELSE LET found == visit[starts[i], {}, so.black]
                      IN  [found EXCEPT !.cycle = found.cycle \/ so.cycle]
  IN  from[Len(starts)].cycle

TaskGraph(s) ==
  [t \in TaskIds(s) |->
     SelectSeq(DependsOn(CHOOSE task \in AllTasks(s) : TaskId(task) = t),
               LAMBDA dep : dep \in TaskIds(s) \ {t})]
TasksHaveAnOrder(s) == ~FindsCycle(TaskGraph(s))

(* A provider other than Google Cloud is limited in its cron jobs.         *)
MaxCronJobs == 100
CronJobs(s) ==
  LET cloud == Get(s, "cloud", Nothing)
  IN  \/ Is(cloud, "enabled") /\ cloud.provider = "gcp"
      \/ Cardinality(TaskIds(s)) <= MaxCronJobs

(*-------------------------------- payments -------------------------------*)

PriceId == <<"stripe", "price", "id">>

(* The definitions a record's price may come from: its own, or those of    *)
(* related rows.                                                           *)
PricedRelations(s, props) ==
  {n \in DOMAIN props :
     /\ Has(props[n], "rel") /\ props[n].rel.type # "direct"
     /\ Has(Properties(s, Target(props[n])), PriceId)}

PriceSet(s, owner, mustDefault) ==
  LET price == Properties(s, owner)[PriceId]
  IN  /\ Type(price) = {"string"}
      /\ Has(price, "default") \/ (~mustDefault /\ PriceId \in Required(s, owner))

PaymentsHaveAPrice(s) ==
  \A key \in {key \in DOMAIN Defs(s) : Is(Def(s, key), "payment")} :
    LET props == Properties(s, key)
        own == Get(Def(s, Bare(key)), "generate", Nothing)
        gen == IF own # Nothing THEN own ELSE Get(Def(s, key), "generate", Nothing)
    IN  /\ IF Has(props, PriceId) THEN PriceSet(s, key, TRUE)
           ELSE /\ Cardinality(PricedRelations(s, props)) = 1
                /\ \A n \in PricedRelations(s, props) : PriceSet(s, Target(props[n]), FALSE)
        /\ ~Off(gen, "delete")

(*-------------------------------- versions -------------------------------*)

Versions(s) ==
  {v \in DOMAIN Defs(s) : ~IsRaw(v) /\ Has(RawDef(s, v), "version_of")}
IdentityOf(s, v) == Get(RawDef(s, v).version_of, "identity", <<>>)
Exists(s, name) == Known(s, name) \/ Known(s, RawKey(name))
ViewOrRaw(s, name) == IF Def(s, name) # Nothing THEN Def(s, name) ELSE RawDef(s, name)

(* The lists a version owns, which its prefill copies.                     *)
OwnedLists(d) ==
  {n \in ChildLists(d) : ~ManyToMany(d, n) /\ OutputType(d, n) # "comments"}

VersionsAreNumbered(s) ==
  \A v \in Versions(s) :
    LET raw == RawDef(s, v)
        d == ViewOrRaw(s, v)
    IN  /\ DOMAIN raw.version_of = {"identity", "number"}
        /\ Part(Approval(raw), "on_approved") # Nothing
        /\ Exists(s, IdentityOf(s, v)) /\ IdentityOf(s, v) \notin Versions(s)
        /\ \A w \in Versions(s) : IdentityOf(s, w) = IdentityOf(s, v) => w = v
        /\ Has(Columns(raw), raw.version_of.number)
        /\ "integer" \in Type(raw.properties[raw.version_of.number])
        /\ raw.version_of.number \notin Get(raw, "required", {})
        /\ \A n \in OwnedLists(d) :
             Cardinality(ListFks(d, n, RawDef(s, ChildOf(d, n)), v)) = 1

(*-------------------- exclusive parents, inline creation -----------------*)

(* A child of exactly one of several kinds of parent has a nullable column *)
(* for each of them.                                                       *)
ExclusiveParents(s) ==
  \A child \in {k \in DOMAIN Defs(s) : ~IsRaw(k) /\ Has(RawDef(s, k), "exclusive")} :
    LET raw == RawDef(s, child)
        parents == raw.exclusive
    IN  /\ Len(parents) >= 2 /\ IsInjective(parents)
        /\ child \notin Range(parents)
        /\ \A parent \in Range(parents) :
             LET d == Def(s, parent)
                 grids == {n \in ChildLists(d) :
                             /\ ChildOf(d, n) = child /\ ~ManyToMany(d, n)
                             /\ OutputType(d, n) \notin {"list", "comments"}}
             IN  /\ Exists(s, parent) /\ grids # {}
                 /\ \A n \in grids : \A fk \in ListFks(d, n, raw, parent) :
                      /\ Has(Columns(raw), fk)
                      /\ fk \notin Get(raw, "required", {}) /\ Nullable(raw.properties[fk])

(* A record created from within a select is complete with its first form.  *)
InlineCreation(s) ==
  \A key \in Views(s) :
    LET props == Properties(s, key)
    IN  \A n \in {n \in DOMAIN props : Is(props[n], "create_inline")} :
          /\ Relates(props[n], {"many-to-one"}) /\ Target(props[n]) # <<>>
          /\ LET target == Target(props[n])
                 both == {Def(s, target), RawDef(s, target)}
                 view == Get(Def(s, target), "generate", Nothing)
                 gen == IF view # Nothing THEN view
                        ELSE Get(RawDef(s, target), "generate", Nothing)
             IN  Exists(s, target) =>
                   /\ \A d \in both : ~(Has(d, "internal") \/ SelfOnly(d))
                   /\ gen # Nothing /\ ~Off(gen, "new")
                   /\ Approval(RawDef(s, target)) = Nothing /\ ~Is(RawDef(s, target), "payment")
                   /\ \A m \in DOMAIN Properties(s, target) :
                        ~Is(Properties(s, target)[m], "create_inline")

(*-------------------------- machines and settings ------------------------*)

(* A machine governs one enum of one model with rows of its own.           *)
Machines(s) ==
  LET machines == Get(s, "machines", <<>>)
      columns(m) == Columns(RawDef(s, m.model))
  IN  /\ \A i, j \in DOMAIN machines :
           /\ Bare(machines[i].model) = Bare(machines[j].model)
           /\ machines[i].field = machines[j].field
           => i = j
      /\ \A m \in Range(machines) :
           /\ Has(columns(m), <<"id">>) /\ Has(columns(m), m.field)
           /\ \/ Is(columns(m)[m.field], "native_enum")
              \/ Get(columns(m)[m.field], "enum", <<>>) # <<>>

GeneratorConfig(s) ==
  \A block \in {"mobile", "audit-log-storage"} :
    Get(Get(s, "generator", Nothing), block, {}) \subseteq {"enabled"}
====
