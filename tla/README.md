# Formal models of app-generator

app-generator turns a JSON schema into a Next.js / Prisma / PostgreSQL application. It has two halves.
The generator (`code_generator/*.py`) is a sequential batch program: it validates a schema, decides
which files it calls for, renders them, and keeps a project tree in step with the schema over many
runs, between which people edit the files. The runtime is what the generated applications share:
hand-written modules under `lib/` and `app/`, and Jinja templates under `code_generator/templates/`
that become services, actions and routes. A template is read as the code it renders for one entity that
declares the feature in question, together with the Python that decides what is rendered.

This directory holds TLA+ modules, TLC configurations and TLAPS proofs. `PROJECT.json` lists the
components, the runs, the correspondence of every definition to source lines, one mutant per
checked property (a plausible bug that makes it fail), findings, hazards and theorems.

    tlc -workers 2 -config MCApprovalRest.cfg MCApprovalFlow
    tlapm ApprovalFlowProofs.tla

## Inventory

| Component | State | Operations | What is hard about it |
|---|---|---|---|
| **Approval workflow** (`lib/approval_request`, `app/api/approval_request`, `*_dispatch`, guards, split and submit templates, edge triggers in `generators.py`) | `approvable` (`approved_at`, `creator_id`), `approval_request` rows by round and flow, the record's status field | create, submit, edit, approve (REST route and server action), reject, withdraw, split, delete | checks outside the transaction, two isolation levels for the same operation, unconditional updates, rounds told apart by a timestamp, fire-once effects |
| **Scheduled tasks** (`lib/scheduled-tasks`, the guard, route, admin and row-scan templates, `scripts/scheduled-task-run.ts`) | `scheduled_task_run` (task, business date, status, started_at), the rows a task's filter selects | route call, `task:run`, `task:run-all`, admin rerun / resolve / skip, the handler's row transactions | duplicate deliveries, compare-and-set claims, takeovers of live runs, crashes between statements, dependencies, retries |
| **Generator pipeline** (`generate.py`, `cleanup.py`, `manifest.py`, `prune*`, `check_generated.py`) | the project tree, `.generated-manifest.json`, the sidebar links, the schema | generate, cleanup (two modes, with and without a manifest), prune, hook gate, hand edits | write-once stubs that must survive everything, two independent derivations of the same file list, failures between any two files |
| **State machines** (`validate.py`, `schema_helpers.py`, `generators.py`) | an `x-state-machines` field, its diagram, locks, the approval round that also writes it | create, update in two views, submit, approve, reject, withdraw | several declarations govern one field; the check reads before the write |
| **Reservations** (`generators.py`, submit and split templates) | pool rows (quantity, reserved), ledger or allocation rows, the requesting records | create, submit, edit, delete, split, stock adjustment | candidate queries that go stale, two isolation levels, multi-statement claims, a cached sum |
| **Record versions** (`version_of.py` and its templates) | identities, versions, numbers, the current version | create, edit, approve, delete a version; retire, delete an identity | a number is read and written in two statements; a check of siblings that sees committed rows only |
| **Editing of records with children** (`build_context.py`, `generators.py`, `service.ts.jinja2`) | links between parents and children, open forms | create, form save, PUT, omitted list, child's own pages, deletion with cascades | what was shown is not what is there at the save; seven kinds of child list with different write rules |
| **Payments** (checkout, webhook and page templates, `service.ts.jinja2`, `generators.py`) | the record, its payable row, sessions and events at Stripe | create with checkout, repetition under the idempotency key, webhook, success and cancel pages, undo, delete | late, repeated, reordered events; several statements outside a transaction; two parties that each believe the other |
| Generated CRUD services, the rest | scalar fields, audit rows | add, update, delete, bulk variants, import | |
| Idempotency keys (`lib/idempotency.ts`) | one row per (key, actor, entity) | check, record, 24-hour retention | same-key requests in flight together |
| Rate limiting (`lib/rate-limit`) | sliding logs, LRU order, Redis sorted sets, `redisDownUntil` | check | eviction, timeout racing a late answer, fallback counting twice |
| TTL/LRU cache (`lib/_ttl_lru.ts`) | entries with expiry | get, set, delete | stale values, per-process copies |
| MFA, account linking, mobile tokens (`lib/mfa`, `lib/account-link`, `lib/mobile-auth.ts`) | factors, recovery codes, tokens | enrol, verify, recover, refresh | one-time use under concurrency |
| Audit log and digest (`lib/audit-log*`) | log rows, digests | append, digest, export | best-effort writes, partition hand-over |
| **Schema** (`build_user_schema.py`, `schema_deriver.py`, `validate.py`, `helpers/`) | none; the schema is an input | build the definitions from the author's file, the tables and the inherited views; refuse what cannot be generated | many rules that meet, names derived from names, inheritance, cycles, two places that must agree |
| **Search and labels** (`schema_helpers.py`, `generators.py`) | none | which columns a row's label shows, and which columns a search looks at | two derivations that must agree through relations |
| Authorization, pagination, mentions, dashboard, business dates, OpenAPI | none, or read-only | pure functions | input space, not interleaving |
| Test and documentation generators (`generators_test.py`, `generators_doc.py`, mobile output) | none | text | size |
| UI, mobile client, deployment scripts | none of their own | | out of scope |

Interactions: CRUD services call the approval edge triggers, the reservation code, the version checks
and the child-list writes inside their transactions; the approval handlers call dispatchers that write
the record's status field and number a version; scheduled tasks call generated services or handlers
under the completion-record guard; routes in front of all of them use authorization, rate limiting and
idempotency keys. The generator and the people who edit its output share the project tree. The
runtime's shared state is PostgreSQL; nothing is communicated in memory.

What makes each component correct: an approval has at most one round under review, the record is
locked exactly while it is, decisions respect the flow order, and the final effect happens once; a
scheduled task's handler runs to its end once per business date, after its predecessors, one run at a
time, each row handled once, and the night completes in the end; no tool run destroys what a user
wrote, and what nobody touched follows the schema; a governed field moves along its diagram and is
approved by decisions only; a reservation never promises an item twice and its cached sum is the sum
of its rows; the history of an identity only grows at its end; a child leaves a parent only because
somebody said so; a buyer who paid keeps a confirmed record, and a record whose
payment never came goes away. Not all of this holds of the code; where it does not, the properties say what
does, and Known limits what does not.

## Modules

| Module | Role |
|---|---|
| `ApprovalPredicates` | the pure predicates: `canSubmitForApproval`, `canWithdrawApproval`, `canActOnApprovalRequest`, the order check, `findNewlyActionableFollowFlowIds`, the all-approved test |
| `ApprovalFlow` | one record's approval workflow: state, one action per handler or per atomic part of it, properties |
| `ApprovalLocks` | the row locks the same handlers take one after the other, who waits for whom, and what becomes of a Serializable transaction that was overtaken |
| `ReviewCycle`, `ApprovalRefinement` | the life of a record as its users see it, and the mapping under which `ApprovalFlow` implements it |
| `ScheduledTasks` | completion records, the guard, passes, operator actions and row scans for one business date |
| `TaskNight`, `TaskRefinement` | what the tasks promise for one business date (begin after what one waits for, work off the rows, fail and begin again, be done), and the mapping under which `ScheduledTasks` implements it |
| `GeneratedFiles` | pure: which files a configuration calls for, and which ones cleanup, the orphan sweep and the stale-file removal expect |
| `SchemaFiles` | pure: the files of the whole schema, of the mobile app and of documentation, and those removed when stale |
| `GeneratedTree` | the tree under generate, cleanup, prune, hand edits, schema edits and failures |
| `SchemaModel` | pure: a schema built from what the author wrote and from Prisma's tables, with views, inheritance and foreign keys |
| `SchemaRules`, `DeclarationRules` | pure: what `validate_schema` demands of views, columns, relations and lists, and of what an entity declares (approval, reservations, versions, tasks, payments, exports, navigation) |
| `UserSchema`, `PrismaRules` | pure: what is asked of the author's own file before anything is built from it, and of the Prisma tables |
| `SearchFields` | pure: the columns of labels and of searches |
| `SchemaExamples` | schemas the rules accept, and one per rule that only this rule rejects |
| `StateMachines` | which diagrams the generator accepts, and every writer of the governed field |
| `Reservations` | `x-reservation` in mode count, statement by statement |
| `RecordVersions` | identities and versions, statement by statement |
| `VersionHistory` | the abstract specification `RecordVersions` implements: histories that grow at their end |
| `RecordEditing` | parents, children, open forms and overlapping requests |
| `Payments` | a payable record between the application and Stripe, statement by statement |
| `*Proofs` | TLAPS proofs about the module of the same name |
| `MC*` | instances of the constants for TLC |

### ApprovalFlow

State. `entity` is the record's status field over the vocabulary draft / submitted / approved /
rejected / split (the values an entity declares as create default, submit value and dispatch targets)
plus `absent` and `deleted`. `status[r][f]` is the `approval_request` row of flow `f` in round `r`, or
`NoRow`. `submittedAt[r]` is `created_at` of the round's rows, in whole seconds as the column stores
it. `approvedAt` and `requestor` are columns of `approvable`. `children[f]` counts the rows of `f` a
split gave to each child. `fired` counts final dispatches and saturates at two; `told[r][f]` says whether
the turn of `f` was announced, or its announcement died with the process. `pc[s]` and `work[s]` are the program counter and local variables of the request in session `s`.

Atomicity follows the code's transactions. What a handler reads before `$transaction` is a step of its
own (`CheckApprove`, `CheckReject`, `CheckWithdraw`, `CheckSplit`, `CheckDelete`). A Serializable
transaction is one step, disabled while another session's open transaction holds a lock on a row it
writes. A READ COMMITTED transaction is one step per group of statements between which another commit
can become visible: the server action's approval is `ApproveBegin`, `ApproveUpdate`, `ApproveRead`,
`ApproveCommit`; an edit is `EditBegin`, `EditUpdate`, `EditCommit`; a split is `SplitUpdate`,
`SplitCommit`. Its writes reach the shared state at the commit, and the rows it updated stay locked
(`work[s].held`, `EntityFree`) until then. The announcement of the next approvers' turn follows the commit
(`approve_announcing`, `Announce`), flow by flow. `Abort` rolls a session back at any point before its
commit: crash, timeout, serialization failure, deadlock, lost connection; `LoseAnnouncement` is the
death of a request after it, which leaves the approval and drops what was still to be announced.

Abstractions, and what they cost:

- row locks are taken in one step, and the gap between a Serializable transaction's snapshot and its
  commit is none: `ApprovalLocks` has both;
- `EditCommit` merges an edit's round lookup with its commit, because the `UPDATE` before it already
  serializes submissions of the record;
- `ClientRule` restricts approvers to the buttons the page offers at the moment of the check. It is
  TRUE where a property is about people using the page, FALSE where the routes alone must hold it;
- `SameSecond` lets two rounds share one second; otherwise a later round has a later `created_at`;
- `RoomForRound` is the only state bound: a submission starts only while `MaxRounds` leaves room for it
  and for those that edits under way may make;
- a deleted record is not created again: its rows are gone with it;
- omitted: `approval_history`, notifications beyond their recipients' turn, role and organization
  checks, the identity of the withdrawing user, `x-approval-lines`, the soft-delete (invalidate) guard.

No fairness is assumed: that a request ends rests on the database, which grants locks in turn and fails one
request of a circle.

### ApprovalLocks

State. `entity`, `status`, `nRounds` and `approved` are what the handlers write; `owner[o]` is the session
that holds the lock of row `o` (a row of a round, the `approvable`, the record); `request[s]` is the
transaction of session `s`: a queue `todo` of statements, each a set of rows it locks in any
order, the row it waits for (`wants`), and what it will write.

`BeginApprove`, `BeginReject`, `BeginWithdraw`, `BeginSubmit`, `BeginEdit`, `BeginSplit`, `BeginDelete` fix the
statements in the order of the code: an approval takes its row, then the `approvable`, then the record;
a rejection its row, the pending rows of its round, the `approvable` (for its reason, or when final), the
record; edits and submissions the record first. `Lock` takes a row, `Wait` begins to wait, `Decide` is the
point at which a READ COMMITTED transaction reads what it still has to do. `Overtaking` tells the
Serializable transactions under way which of their rows were changed since their snapshot, and whether
another one of their round committed first; both fail (`Refuse`). `Fail` is a crash, and what the database
does to one request of a circle. No handler tries again (`handleApiError` answers 500).

Abstractions: checks before a transaction and announcements after it are those of `ApprovalFlow` and left out,
as are the shared locks of foreign keys. `MaxRequests` and `MaxRounds` bound the requests begun and rounds.

### ScheduledTasks

State. `record[t]` is the status of the `(task_id, business_date)` row, `stuck[t]` says that its
`started_at` lies further back than the admin page's threshold, `eligible[t]` are the rows that still
match the task's filter, `handled` and `completed` count committed row transactions and returns of the
handler. A process in `pc`/`work` is a route call, a `task:run`, a pass of `task:run-all` or an
operator's request; a pass walks through `topologicalOrder` with `EndTask`.

Each statement of `runScheduledTask` is one step: `ReadRecord`, `CheckPredecessors`, `Claim` (insert,
or update where the status is still the one read), `SelectRows`, `HandleRow` per row, `HandlerReturns`
or `HandlerThrows`, `RecordOutcome`. A row transaction is one step because the advisory lock on the row
serializes it with the others of the row. The handler moves a row out of the filter, as the template
requires of a well-formed handler; a bulk task is one with no rows. `Crash` stops a process between any
two steps and leaves the record; a lost database connection does the same. `Age` makes a running
record stuck, which only the admin page looks at.

Bounds and abstractions: one business date; whether a task's interval makes it due is the constant
`NotDue`; `MaxCrashes` bounds crashes; the read-only overview of the admin page is left out, the
conditions under which it offers an action are those its handlers repeat.

`TaskRefinement` reads the phase of a task off its completion record alone, and the rows left off
`eligible`; a record that says not_due stands for a task that has not begun, because a route call may
still run it. Claims, checks, passes and counters are invisible from there: they stutter.

Fairness: a process that runs keeps running (WF of `Advance`); passes are started again and again (SF
of `StartPass`: the operations guide has the pass rerun after a failure, and cron starts it nightly);
and a handler that is retried for ever gets on (SF, per task, of `HandleRow` and of `HandlerReturns`:
without it a handler that always throws fails every night, which is not the guard's fault).

### GeneratedFiles, SchemaFiles and GeneratedTree

A configuration of an entity is the set of its open gates: the `x-generate` switches and the traits of
its model and display that some template looks at. `EntityFiles` is the list of files `generate.py`
writes for it, `SchemaDriven` the list `cleanup.py` derives a second time for a tree without manifest,
`OrphanFiles` what the sweep takes from an entity that left the schema. `SchemaFiles` does the same for what is
written once: dashboard, attachments, dispatchers, scheduled tasks, search, documentation, the mobile
project, and the deletion of those the schema no longer calls for. A file's content is abstracted
to the gates that show in it (`Rendered`), or `Custom` once a user wrote it.

State of `GeneratedTree`: the schema, the `disk`, the sidebar `links`, the `manifest` (per file the
render whose hash it lists, and every render of a stub so far), the run in progress (`job`: which file
is next), and the in-memory `ManifestRecorder`. A run works on one file per step, so `CrashGenerate` and
`CrashCleanup` fall between any two files; a crash while the manifest is written in place leaves it
`Torn`. `HookGateFails` is `validate_write_once_stub_asymmetry`, which ends a run after its files are
written and before its manifest is. `known`, `orderly`, `settled` and `retracted` are history variables for the
properties: the stubs whose renders were all recorded, whether the documented order (cleanup, then
generate) was kept, and whether the last thing that happened was a complete generate.

`Allowlist` and `AllowlistOf` are `HANDWRITTEN_ALLOWLIST`: paths of the schema as a whole, and paths of entities
of certain names, for which `Name` gives the entities theirs. A manifest cleanup and the sweep of orphans
leave these files (`Protected`); the cleanup without manifest does not ask. `HasChildren` is the list of children
cleanup looks at, where generate looks at the one embedded in the pages (`grid`).

Bounds: `MaxRuns`, `MaxEdits`, `MaxSchemas`. Files are chosen by `Tracked`: one plain file, three stubs
(one whose text depends on the schema, two of the hook gate), one that depends on a gate cleanup looks
at; and by `TrackedShared` four schema-wide files: one removed when stale, one taken only while marked, one
of the mobile app and one that is protected (`lib/reaction_constants.ts`).

### StateMachines

A declaration is a record of everything that governs the field: diagram, enum, default, the values
`x-approval` moves it to, the locks of the entity's own view and of a proxy view, and which views have
an edit form. `Accepted` is the conjunction of the checks of `validate.py`: all nodes reachable, no dead
ends, enum covered, the default an initial state, no edge that skips the decision, no lock on a value a
user must write, clauses distinct, and the condition under which `submit_on` may be missing.
`TransitionAllowed`, `Locked`, `Frozen`, `UpdateAllowed` and `CreateAllowed` are what the generated
validation and edit guard compute. An update reads, judges and writes in two steps (`Judge`, `Write`);
a SERIALIZABLE update fails if the row changed in between (`Overtake`, `Abort`). The submit button and the
approval routes write the field directly (`Move`).

### Reservations

A request `t` is a transaction of several statements; its writes stay in `tx[t]` until `Commit` and the
rows it wrote are locked (`Free`). `Lock` is the first write of its own row, `Release` a split's giving
back, `Scan` the candidate query, `Claim` one conditional `updateMany`, `NextPart` the check that a part is
covered. The submit action runs Serializable: it sees the snapshot of its first statement and cannot
write a row that changed since (`dirty`). `Returned` gives a reserve row of a split's parent back to every pool row
its tuple selects (`config.matches`): the `updateMany` asks for item, location, lot, expiration and bin, and drops those that
are null. `Adjust` is a receipt or a correction in either direction, which nothing compares with what is reserved;
`peak` remembers the most a pool row has had. Both strategies (`conditional_update`, which moves quantity to
reserved, and `ledger_transaction`, which leaves quantity alone) and both times of claiming (at create,
at submit) are initial states (`Configs`), as is a ledger whose first pool row has a null lot.

### RecordVersions and VersionHistory

`CreateCheck`/`CreateCommit`, `EditRead`/`EditWrite`, `ApproveRead`/`ApproveWrite`, `DeleteRead`/`DeleteWrite`
and `DropRead`/`DropWrite` are the checks and the writes of READ COMMITTED transactions; `ApproveRest` is
the Serializable route. `NumberFree` is the unique constraint the generator demands of the Prisma
schema. `Locked` stands for the row lock an approval takes by its `set_fields`. `VersionHistory` says what
the feature promises without saying how; the mapping reads each identity's numbered versions in order.

### RecordEditing

A declaration of a child list has six traits; what the service and the form do with it is derived from
them as the generator does (`UseConnect`, `Independent`, `NestedWritable`, `Written`, `Offered`,
`Guarded`). `OpenForm` takes the snapshot, `CheckForm` compares it (`assertNotStale`) and applies the
attach guard, `Save` writes; `CheckPut` is a PUT that names the list, `OmitList` one that does not;
`OwnCreate`/`OwnEdit` are the child's own pages; `ReadToDelete`/`DeleteRows` delete with the
cascades of the foreign key.

### The schema modules

`build_intermediate_schema` and `validate_schema` are functions of the schema, so their model is functions too: operators over
a record `s` that holds what the author declared and what the Prisma tables say. `Views`, `Properties`,
`Required`, `Target` and `Shown` of `SchemaModel` are the definitions the generator builds (a raw definition per
table, an author's definition with its view, what a view inherits through `allOf`). Every rule is one
operator named for what it demands, and a schema is accepted when all of them hold. Names are sequences of words, because
the rules take them apart (`_id`, `_list`, `_detail`, the leading underscores); messages, and the checks
that a YAML value has the right shape before anything is asked of it, are left out.

`SchemaExamples` states as assumptions, which TLC evaluates in the `generated_tree` run (`MCGeneratedTree`
extends it): a hotel schema with approvals, reservations, versions and tasks is accepted (`HotelIsAccepted`);
every rule is broken by an edit of it that breaks no other rule (`RulesReject`, and for the tables
`TablesAreAccepted` and `PrismaRulesReject`), so no rule follows from the others and none is vacuous; what is
refused of an author's own file (`AuthorsAreRefused`); the number of cron jobs a provider allows
(`CronJobsAreLimited`); the columns and `required` read off the tables (`ColumnsAreInferred`); that the lists of children lead back to the parent
(`ListsLeadBack`); that the search for cycles of tasks agrees with reachability on every graph of three
tasks (`CyclesAreFound`); what the copy of a version takes along (`VersionsAreCopied`); and where a search misses what
the label shows (`WhatIsNotFound`). The definitions were also compared with the generator's own Python on
random schemas: the search columns on 470 schemas and some 52,000 queries, without a difference.

### Payments

State. `record[r]` is the entity's row and why it is gone, `payable[r]` its payable row with the session
it names (or the placeholder `pending:<id>`), `stripe[s]` the session at Stripe, `due` the events Stripe
has not had answered with 200, `shown` the sessions whose address a buyer was given, `work[w]` the
statement a request, a delivery or a page is at.

Creating the two rows is one transaction (`Create`); everything after it is one statement per step:
`OpenSession` (idempotent at Stripe per record and minute), `Attach`, and when one of them throws
`UndoRecord` and `UndoPayable`; `Repeat` resumes from what `ReadPayable` found; `Deliver` hands an event
to the webhook, which goes through `Find`, `Confirm` or `RemoveRecord` and `RemovePayable`;
`SuccessPage` and `CancelPage` ask Stripe first (`Check`, `ExpireSession`). `Throw` and `Fail` end any of them
between two statements. `Pay`, `Clear` (a delayed method settles or fails) and `Expire` are Stripe's.

Bounds: `Buckets` are the minutes in which checkouts of one record are requested, `MaxFailures` the
statements that throw. Prices and signatures are left out.

Fairness: a server goes on with what it does (WF of `Step`); Stripe ends every session (WF of `Clear`
and `Expire`) and delivers an event again until it is answered with 200 (SF of each due event's delivery).
Nothing is assumed about buyers.

## Runs

Runs of components that come to rest set `CHECK_DEADLOCK FALSE` (a deleted record, a tree after its last
run, a decided field leave nothing to do); the scheduled-task runs check deadlock. Processes, rows and
identities are symmetric in runs without liveness. Every run explores its whole state space.

| Run | States | Instance | Shows |
|---|---|---|---|
| `approval_rest` | 801,986 | three flows, one waiting for two; two sessions on the REST routes, any row, terminal rejection, two rounds | at most one round is open (`OneOpenRound`); the final effect is dispatched once (`FinalOnce`), whenever a round is complete (`CompletedIsFinal`); a turn that has come is announced, or about to be, unless the request died between commit and announcement (`TurnAnnounced`) |
| `approval_locks` | 848,600 | two flows side by side, three sessions, five requests of any kind, two rounds, split | who can wait for whom in a circle (`CirclesExplained`: approvals never among themselves); a rejection or withdrawal cancels pending rows only, whatever the others decide meanwhile (`OnlyPendingCancelled`) |
| `approval_serial` | 26,007 | three flows, one waiting for two, three rounds, both entry points, split, page rules, one request at a time | locked exactly while under review (`ReviewLocked`, `SubmittedIsUnderReview`), the refinement of `ReviewCycle` |
| `lost_final` | – | two server-action approvals | a violation, see Findings |
| `tasks_nightly` | 96,497 | three tasks (one scans two rows, one depends on it, one is not due), route calls and passes, two processes, one crash, fairness | `ExclusiveRun`, `CompletesOnce`, `RunsInOrder`; the tasks implement the abstract night (`RefinesNight`: nothing is done with rows left, nor undone) and complete it (`NightCompletes`) |
| `tasks_operators` | 2,862,158 | two tasks, all six modes, two processes, one crash | `RowHandledOnce` also when a live run is taken over |
| `generated_tree` | 275,984 | two entities, one of a protected name, two schemas, three runs, one hand edit, crashes | edits of write-once stubs survive everything (`StubEditsKept`), other edits survive a cleanup that has a manifest (`EditsKeptByManifest`), in the documented order every untouched file on disk that is not protected is listed as it stands, so that the next cleanup takes it (`NoLeftovers`); before it starts TLC evaluates the examples of the schema rules |
| `reservations` | 1,463,131 | three records, two lots, two overlapping requests, both strategies, both times of claiming, a null lot, stock going up and down | what ledger rows promise of a pool row never exceeds the most it has had, and a counted row stays at or above zero (`NeverOverbooked`); the cached quantity is the sum of the rows, and with null columns never more (`CacheIsSum`); a record past its claim holds what it asks for (`HeldInFull`) |
| `state_machines` | 729,737 | the 3,188 accepted declarations over five states, two overlapping updates, the approval routes | the value always has a way on unless it is final (`NeverStuck`), and with SERIALIZABLE updates a decision stands (`DecidedStays`) |
| `record_versions` | 306,978 | two identities, three versions, two overlapping requests | the current version is the newest approved one (`CurrentIsNewest`); histories grow at their end, without gaps (`RefinesHistory`) |
| `record_editing` | 160,402 | thirteen kinds of child list, two parents, three children, two requests that do not overlap a save | `NoCycles`, `DeletedOnce`, and a child leaves its parent by a request that named it, by a deletion, or overlooked by a save whose list was omitted (`TakenOrOverlooked`) |
| `payments` | 152,208 | one record, one session, three workers, one failure, fairness | only Stripe's reports settle a record (`SettledByStripe`); a buyer who paid has a confirmed record in the end (`PaidIsConfirmed`); a provisional record ends (`ProvisionalEnds`) |

The bounds are small but each interesting case occurs. Two sessions are what every race in the code
needs (each handler races one other); three are the shortest circle of locks that is not a pair; two rounds let a resubmission meet the leftovers of the first,
three let a third meet two; two flows make the last approval differ from the first and order matter,
the third waits for two at once; two side by side are enough for siblings to be locked. In the tasks' runs two processes race for a claim, two rows let a
handler fail between them, and the crash may hit any step. Three runs of the generator are cleanup,
generate, and one that fails. Two lots of one each let a request be covered in parts and the
first lot run out under a candidate query; a lot that goes from one to two and back can be promised in full
and then fall short. Three records allow one split, so `SplitOnce` holds throughout the run; it matters to the theorem. Three versions let one be approved between the two halves
of another's approval. Three workers are a request, its repetition and the webhook. Larger instances
(three workers and two failures; two records and two sessions, safety only, 5.5 million states) were
explored for payments with the same result.

### Findings

`lost_final`: two server-action approvals of the last two rows, at READ COMMITTED, each miss the other; the
round is complete, `approved_at` stays null and the effect is never dispatched. The REST route runs the
same block Serializable and satisfies the property (`approval_rest`). `PROJECT.json` quotes the statement
the run refutes.

### Known limits of the code

The models were also explored outside the instances above. What follows fails there, with the
constants that show it; the checked runs exclude it by those constants, so they say nothing about it.

- Approval, announcements: they follow the commit, so a process that dies in between loses them for good
  (`LoseAnnouncement`): approving the row again announces nothing. With server actions, at READ COMMITTED, two
  approvals of the last two predecessors of a flow may each miss the other, and neither announces its turn.
- Approval, locks: handlers take rows in different orders and can wait for each other in a circle. `CirclesExplained`
  lists the circles: rejections, withdrawals and splits that take several rows of a round; a deletion, which has the
  record and takes the rows last; an edit or submission against a decision on a row that was decided already. The
  database fails one request of a circle, its user gets an error, and nothing tries again.
- Approval: with overlapping requests the order of approvals can be broken between `assertApprovalOrder` and the
  transaction (`order-check.ts:25`);
  with server actions the final effect may also be dispatched twice and the next approver
  told twice; a split judges the row's status before its transaction, so two splits of one row both go
  through (`split_action_route.ts.jinja2:137-138` says otherwise), and with several rounds it invalidates rows of
  all of them; the approve route does not require a pending row, so approving a terminally rejected row
  reopens the record; the edit guard judges the row read before the update, so an edit begun before a
  submission overwrites the submitted status (`EntryPoints`, `ClientRule`); two rounds of one second
  (`SameSecond`) confuse the lookup of the current round; an approval of a proxy view sets `approved_at` and
  dispatches nothing on the REST route (`ProxyView`); the withdrawn value has no edge back to submission in
  the diagram derived for the edit guard, although the submit button makes it (`generators.py:3086-3089`).
- Scheduled tasks: a takeover's compare-and-set compares running with running, so two `task:run` commands
  both take a record over and both run the handler; a task that is not due but whose route call failed
  keeps its failed record, no pass retries it, and its successors stay blocked; a run that was taken
  over writes its outcome over an operator's resolution.
- Generator: without a manifest cleanup unlinks derived paths whatever they contain (`cleanup.py:603-739`;
  `manifest.py:7-8` says hand edits are kept), and the history of stub renders is lost when cleanup unlinks
  the manifest with stubs kept, or a crash tears it; a torn manifest stops cleanup; sidebar links of
  entities that left the schema are never retracted; a failed hook gate leaves files no manifest lists;
  the orphan sweep and the removal of stale search and mobile files look at no hash; a file of
  `HANDWRITTEN_ALLOWLIST` the schema no longer calls for (`lib/compliance/anonymize_user.ts`,
  `lib/reaction_constants.ts`, ...) stays in place and no manifest lists it any more, and the cleanup
  without manifest does not consult that list.
- State machines: at READ COMMITTED, the generator's default, two overlapping updates can take a step the diagram lacks or
  overwrite an approval; a proxy view has neither edit guard nor edge trigger; approved-to-rejected edges
  are accepted and can never be taken. `DecidedStays`, `OnlyDecisionsApprove`, `PendingIsSubmitted` and
  `StepsFollowDiagram` therefore speak of schemas whose updates are SERIALIZABLE (`schema.serializable`).
- Reservations: an approved correction downwards is not compared with what is reserved, neither when it is requested
  nor when it is applied (`ledger_adjust_stub.ts.jinja2:73`), so more can be promised than is there, by up to what it
  took away; a candidate query may see the stock from before it. Where a pool row has no lot, expiration or
  bin, the release of a split decrements every pool row that agrees in the others, and the cached quantity
  falls behind the ledger (`split_action_route.ts.jinja2:194-204`); what is then free by the cache may be promised again.
  A second split of one row gives its stock back twice.
- Reservations: with `submit_on`, update and delete judge the status before their write, so `HeldInFull` is
  stated for claims at create only; a split writes `cancel` where the docs speak of `release`.
- Record versions: two overlapping creates can leave two open drafts; with `StaleWrites` (an edit or
  a deletion whose guard judged a row another request has changed since, and that writes all the same)
  numbers and the current version go wrong.
- Editing: a save that omits a list writes back the list the service read for it, without comparing it with
  anything, so a child another request added in between is deleted or detached though nobody said so (`Overlooks`).
  The comments at `build_context.py:1254-1262` and `4160-4161` promise that an omitted list is left unchanged.
- Editing: overlapping saves may take a child unknowingly or close a cycle (`Overlap`); a record can be
  made its own parent in one request (`OwnParent`), where the docs exclude it; a bulk delete with a
  parent and its child in one batch counts a row twice (`MaxBatch = 2`); an independent
  `nested_writable` list that the form narrows away is emptied by the save (`IndependentLines`).
- Payments: with a second checkout minute (`Buckets`) a second session may be attached over a paid row, and
  the buyer can pay twice; with two sessions an undo may delete a row that was paid meanwhile; a crash
  between the create's commit and the session leaves a provisional record nothing ends, unless the
  request is repeated.

Next to these instances the schema rules were compared with the code, and this is where they fall short:

- Schema rules, refusals that do not come: the label rule of composite import keys, and the rule that an
  import key be visible, look at the raw definition of an entity with a view and find nothing to judge; the inverse side of a
  one-to-one that is named in `required` passes, where `build_user_schema.py:605-638` calls it an error;
  the rules of `x-approval` combinations, of navigation groups and of splitting raise only after files
  were written, and a scheduled task's query that `validate.py:1528-1547` accepts may raise in `generators.py:2072`.
- Schema rules, refusals that come wrongly: the documented `x-bridge` example (section 7.6 of the YAML guide) is
  rejected for an entity with a view, because the annotation moves to the raw definition; naming `id` as a
  column of a table demands an index on it.
- Lookups: `x-approval-lines` are looked for on the view by one helper and on the raw definition by another
  (`schema_helpers.py:760-788`, `generators.py:1969`); a list shown as links or comments ignores the recorded
  foreign key and guesses it by name (`resolve_parent_fk_props`), which with two relations to the parent may be
  the other one; and which of two such relations says whether a child may be without parent depends on
  the order of a Python set.
- Search: what a label shows cannot be found for `uri` and `cuid` columns and booleans at any depth, the entity's own
  Decimal, write-only and `x-search: false` columns, and every path of three segments, where
  `schema_helpers.py:486-505` calls such a divergence impossible; and a Decimal one relation away
  gets a `contains` clause, which Prisma has not for it.

## Proofs

`ApprovalFlowProofs` proves, for every set of flows, users and sessions, every order
of flows and every bound on rounds, from the assumptions declared in `ApprovalFlow`:

- `TypeCorrect`: `Spec => []TypeOK`. `TypeOK` alone is not inductive: a server action writes in
  `ApproveCommit` what it prepared two steps earlier. The inductive invariant `TypeInv` adds
  `Prepared`: a session past a check has a real row as its target and its entry point set.
- `OneRoundOpen`: `Spec => []OneOpenRound`, assuming `~SameSecond`. The inductive invariant `RoundInv`
  adds to `TypeInv` that rounds are created at growing seconds (`Growing`), that only the last round
  created may be open (`LastOpen`), and that rounds not created yet have no row (`Unborn`). Then the
  lookup of the current round finds the last one, `canSubmitForApproval` has seen every pending row
  there is, and a submission can only follow a closed round; no other handler makes a row pending.
- `FiresOnce`, `CompletionFires`, `TurnsAreAnnounced`: `FinalOnce`, `CompletedIsFinal` and
  `TurnAnnounced`, assuming `Undisturbed`: approvals enter by the REST routes alone, or there is one
  session. The three hold or fall together (`EffectInv`), and rest on `SessionInv`: what a server action
  has read (the row, whether it completes the round, which flows come next) is still so when it writes.
  `TurnAnnounced` needs more: a pending flow whose turn has come is announced, is in the list of a request that
  is past its commit (`approve_announcing`), or that request died and the announcement is marked lost; the
  step that commits an approval enters the second case, `Announce` the first and `LoseAnnouncement` the third.
  That is what SERIALIZABLE buys the REST routes, and what the run `lost_final` refutes for two server
  actions, so the assumption cannot go.
- `ReviewLocksRecord`, `SubmittedHasRound`, `ApprovalsInOrder`, `ImplementsReviewCycle`: `ReviewLocked`,
  `SubmittedIsUnderReview`, `ApprovedInOrder` and the refinement of `ReviewCycle`, assuming `PageUse`: one request
  at a time, the page's rule for what may be acted on, distinct seconds, no proxy view, and a flow
  for every submitter. `ReviewInv` says of the record and its rounds together that an open round means
  the submit value and the submit value an open round (`UnderReview`, `Reviewed`), what a closed round left
  behind (`Settled`), what a split did (`SplitDone`), that rounds have rows as long as the record exists (`Filled`),
  and of the request under way that what it checked is still so (`Checked`). In the refinement each
  handler is one abstract step: the mapping of the phase changes with one write of the handler, and
  every other write of it stutters.

`ScheduledTasksProofs` proves, for every finite set of tasks, every acyclic dependency relation and
any sets of processes and rows, from the assumptions declared in `ScheduledTasks`:

- `RowsHandledOnce`: `Spec => []RowHandledOnce` in all modes. The invariant `RowInv` says that a row
  that still matches a filter was never handled; only `HandleRow` touches rows, and it looks again.
- `SuccessIsComplete`: `Spec => []SuccessLeavesNothing` unless operators resolve or skip. `LeftInv`: the
  rows that match are in the list of every run that is handling rows, and none matches once a handler
  returned. Filters only lose rows, so a run may overlap with any other.
- `RunsExclude`, `HandlersReturnOnce`, `OrderKept`, `SuccessIsFinal`: `ExclusiveRun`, `CompletesOnce`,
  `RunsInOrder` and `SucceededIsFinal`, assuming `Unattended` (deliveries and passes only). None is
  inductive alone, and they need each other: `RunInv` collects what a process knows between two
  statements (`Knows`) and what a record says (`Consistent`). That no success is taken back
  (`SuccessStays`) is proved with every step, because the order rests on it. `Unattended` is needed:
  takeovers break all four.
- `ImplementsNight`: `Spec => RefinesNight`, assuming `Unattended`. The invariant `NightInv` joins
  `TypeInv`, `RunInv` and `LeftInv`: a claim finds the due predecessors done, a row is handled and
  an outcome written only while the record says running, and a handler that returned left no row.
  What the refinement adds to the properties above is that nothing else happens in between.
- `PassFollowsDependencies`: the order of a pass names every task exactly once, and none before a task it
  depends on. The order comes from the recursive function `taken`: that the function exists, and that every
  prefix it computes is an order (`IsOrder`), are inductions. The library's induction theorems
  take an operator, which these provers cannot instantiate, so `Induct` is stated for a *set* that contains 0
  and the successor of each of its members, and follows from `WFMin` for `<` on the naturals. The step
  needs that some task left has all its dependencies done (`NextIsReady`, `SomeLeft`), which is a least
  element of the acyclic dependency relation, again by `WFMin`.
- `TasksTyped`: `Spec => []TypeOK`. `TypeInv` adds that a process at work is at a task, which
  for a pass is the theorem above.

`GeneratedTreeProofs` proves, for every set of schemas, of tracked files and every bound, `TypeCorrect`,
`StubEditsSurvive`, `ManifestEditsSurvive`, `StubsFollowTheSchema` (a stub nobody edited shows the last render),
`HooksStayBalanced` and `NothingLeftBehind` (`NoLeftovers`). The invariant `StubInv` is `TypeInv` (types, and each phase of a run at a file it may
be at) with `KnownInv` (what an untouched stub holds is in its recorded history), `CurrentInv` (a stub generate
has passed shows the schema) and `GateInv` (no pair of hooks is lopsided when the manifest is saved). `NoLeftovers` speaks of idle moments;
`RecordInv` says where an untouched file is on record while a tool is at work: in generate's recorder, or in
the manifest and among the files the cleanup has yet to come to, unless it is protected (`Protected`), which the
theorem leaves out as the run does. Past its list a cleanup finds
none, and a cleanup that fails leaves the manifest with all it had yet to delete. `CompleteRunsLeaveAll`
(`CompleteRunIsCurrent`) says that a complete generate leaves every file of the schema in place and up to date:
`PlaceInv` follows each file from the moment generate passes it, and `StaleIsNotWritten` shows that what the
last phase removes as stale is never a file this run has written.

`StateMachinesProofs` proves, for every set of states and schemas that pass `Accepted`: `TypeCorrect`,
`ValuesStayInDiagram`, `AlwaysAWayOn`, `DecidedForGood`, and that a pending review shows in the field
(`PendingShows`), a rejection reopens it (`RejectionReopens`) and nothing but a decision approves
(`OnlyADecisionApproves`). `DecidedForGood`, `PendingShows` and `OnlyADecisionApproves` are about SERIALIZABLE
updates: their properties say nothing of the default READ COMMITTED, where they fail (Known limits). `FieldInv` is the conjunction of a part for the declaration, one for the value, one for
what an open update has read (serializability makes it still true at the write), and one for the
round. `RecordFollowsDiagram` says it of the steps (`StepsFollowDiagram`): under SERIALIZABLE every change of the
field is an edge, a submission, or a decision on the open round.

`RecordVersionsProofs` proves, from `~StaleWrites`: `TypeCorrect`, `CurrentStaysNewest`, `ImplementsHistory`
(`Spec => RefinesHistory`: every step is one of `VersionHistory` or a stutter), and `DraftsOverlapped` (two open
drafts only after overlapping requests). `VersionInv` adds that numbers are used once and without gaps
(`NumberInv`) and that an approval's row lock keeps what it read true until it writes (`WorkInv`). Numbers are
compared with the highest one (`Peak`), which avoids an induction over the history.

`ReservationsProofs` proves, for every set of pools, records, quantities and stock: `TypeCorrect` and `StockHolds`
(`NeverOverbooked`). Counted rows are held at zero by the conditional update. For ledger rows the cached quantity
is no measure of what is promised, so the property counts the standing reserve rows (`Promised`) and compares them
with the most the pool row has had (`peak`), since a correction may take away what was promised. `StockInv` is about the
database and each request's claims: no claim takes the cached quantity past the stock of that moment, which is at most
`peak`. `BookInv`, below, says that the cached quantity is the sum of reserve minus cancel rows where tuples select one row each
(`Exact`), and the number of standing rows is at most that sum when no row is taken back twice (`SplitOnce`). Without these two
conditions the property fails, which is the code's doing (Known limits).

`ReservedIsSum` (`CacheIsSum`) and `LiveRowsHoldTheirQuantity` (`HeldInFull`) are about sums over any finite set
of records or pools, the one assumption added to the model for them (`IsFiniteSet`). `Total` is the
model's `MapThenSumSet`; `IsSum` is the recursion it is defined with, over the subsets of the domain, and
`AnyFirst` says that any element may be taken first. `SubsetInduct` is induction over finite sets for a
set of subsets, and `TotalChange` says what one changed summand does to the sum. `BookInv` then says that a pool row shows its sum, or less where a release reached rows that are not its own (`Balanced`), and that each request has written down
exactly what it moved (`AllRecorded`), so that both commit together. `HoldInv` adds, for stock claimed with the create, that every
row holds what it shows (`Holds`), that a request claims only for rows that do not exist yet (`Claims`) and
that no two requests claim for the same row (`NoneTwice`).

`RecordEditingProofs` proves `TypeCorrect`, `DeletesOnce` (for `MaxBatch <= 1`) and `ChildrenTakenOrOverlooked`
(`TakenOrOverlooked`, for `~Overlap`): a form's snapshot was compared when nobody else was between check and write; a list the
service read for a request that omitted it is compared with nothing, which is the exception the property names. `TreesHaveNoCycles`
(`NoCycles`, for `~Overlap` and `~OwnParent`, as in the run): `TreeInv` is `Grounded`, that every nonempty set of records
has a member without a parent in the set. Unlike the absence of cycles this is preserved link by
link: a save attaches only records that are not above the parent (`NotAbove`), so a group that
contains a new link has its member without a parent among the parent and what is above it
(`ConnectGrounds`; `Ancestors` is a recursive function, handled by `Induct`). `KnowInv` keeps what the
request compared true until it writes. Both assumptions are needed: the guard on the parent's list looks at
a tree that another request may change, and the form of a child has no guard.

`PaymentsProofs` proves `TypeCorrect` and `StripeSettles` (`SettledByStripe`) for any records, workers and failures with
one bucket: a late report must meet the row of the record its session was opened for. The invariant
ties each session to one record (`StripeInv`), each settled row to its report (`RowInv`), and each worker to
what it asked Stripe (`Knows`). `PaymentsAreKept` (`PaidIsKept`) adds `Begun`, that only the request that created a
record undoes it and that a record has no row before it exists; then no late report, page or repetition takes
a confirmed payment back. The exception in the property is real: the creating request's undo does
(Known limits), and a run with repetitions finds it when the exception is dropped.

Each proof has one step per action of `Next`, and the temporal steps use PTL.

Every safety invariant, action property and refinement that a run checks is stated by a theorem, but for those of `ApprovalLocks`. Some properties are proved and were
checked by TLC first, but no run repeats that: `SuccessLeavesNothing`, `SucceededIsFinal`, `StepsFollowDiagram`,
`CompleteRunIsCurrent`, `PaidIsKept`, `ApprovedInOrder` and `InDiagram` among them. Only
model-checked are the liveness properties (`NightCompletes`, `PaidIsConfirmed`,
`ProvisionalEnds`), which are beyond the prover, `ApprovalLocks` (`CirclesExplained`, `OnlyPendingCancelled`), and the examples in `SchemaExamples`, which are evaluated. The
theorems whose hypotheses restrict the constants (`Undisturbed`, `PageUse`, `~SameSecond`, `Unattended`, `~StaleWrites`,
`~Overlap`, `~OwnParent`, `MaxBatch <= 1`, `OneBucket`) hold for the values the run of the same property uses; outside them
the code does not keep the property (Findings, Known limits).

## Not modelled

- The production of text, which is most of the generator by size: `generators_test.py`,
  `generators_openapi.py`, `generators_doc.py`, the contexts of `build_context.py` and `form_upsert_context`,
  and the expressions `generators.py` renders for columns and queries. Their output is text whose
  meaning is TypeScript's; what of it reads or writes shared state is in the models above, as the code it
  renders. The map covers 31 % of the generator's Python, and the templates, libraries and routes the
  runtime models translate.
- Reservations of single items, of lines, and of dates (`x-reservation` in modes item and status), resubmission
  per line, shipping, retention.
- As behaviour at run time: several business dates, `x-approval-lines`, the invalidate guard. Version pre-filling, exclusive
  parents and prices are modelled as declarations (what they demand of a schema and what a copy takes), not
  as transactions.
- The check of a YAML value's shape, and error messages.
- Idempotency keys, rate limiting, caches, sessions, MFA, account linking, mobile tokens, the audit digest:
  hand-written modules beside the generator, some of them next in line for a model of their own.
- Authorization, pagination, mentions, dashboard, calendars: functions without state over
  unbounded inputs. UI, mobile client, deployment scripts, cryptography: out of scope.
