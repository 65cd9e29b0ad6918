---- MODULE GeneratedTree ----
(***************************************************************************)
(* The life of a generated project tree: generate.py writes it and records *)
(* it in .generated-manifest.json, users edit files and the schema,        *)
(* cleanup.py removes what was generated, and any run may fail half way.   *)
(* A run works on one file per step, so a failure can fall between any two. *)
(***************************************************************************)
EXTENDS SchemaFiles, Naturals

CONSTANTS
  EntityCount,  \* entities are 1..EntityCount, in schema order
  Tracked,      \* the per-entity files an instance follows
  TrackedShared,\* the schema-wide files it follows
  Name,         \* the name of each entity, by which cleanup protects some files
  Schemas,      \* the schemas an author may save
  MaxRuns, MaxEdits, MaxSchemas,  \* bounds on what may happen
  Crashes,      \* whether a run may fail half way
  FromScratch,  \* whether users also write files that are not there
  Gone, Absent, Custom, NoLink, NoManifest, Torn, Unlisted

Entities == 1..EntityCount
Shared == EntityCount + 1
FirstSchema == CHOOSE s \in Schemas : \A e \in Entities : s[e] # Gone

Present(s) == {e \in Entities : s[e] # Gone}
Configs(s) == {s[e] : e \in Present(s)}
AllGates(s) == UNION Configs(s)
GatesOf(s, o) == IF o = Shared THEN AllGates(s) ELSE s[o]

(* The gates whose value shows in a file: a stub shows few of them.        *)
Shows(name) ==
  {"v2"}
    \cup When(name = "lib/virtual_resolvers.ts", {"virtual"})
    \cup When(name = "lib/invalidate_handler.ts", {"invalidated_at"})
    \cup When(name \notin Stubs, Gates)

Rendered(s, p) == GatesOf(s, p[1]) \cap Shows(p[2])

(* The files a complete run of generate writes or keeps for a schema.      *)
Expected(s) ==
  {p \in Present(s) \X Tracked : p[2] \in EntityFiles(s[p[1]])}
    \cup {<<Shared, n>> : n \in SharedFiles(Configs(s)) \cap TrackedShared}

(* The paths some schema calls for.                                        *)
Paths == UNION {Expected(s) : s \in Schemas}
StubPaths == {p \in Paths : p[2] \in Stubs}

(* A rendered file is what its template read from the schema.              *)
Renders == SUBSET (Gates \cup {"v2"})

(* What a run recorded: the hash of each file it wrote, and every render   *)
(* of a stub so far.                                                       *)
Manifests == [sha     : [Paths -> Renders \cup {Unlisted}],
              history : [Paths -> SUBSET Renders]]

ASSUME ValuesAssumption ==
  /\ EntityCount \in Nat
  /\ Custom \notin Renders /\ Absent \notin Renders /\ Unlisted \notin Renders
  /\ Custom \notin {Absent, Unlisted} /\ Gone \notin Renders
  /\ NoManifest \notin Manifests /\ Torn \notin Manifests
  /\ Schemas \subseteq [Entities -> Renders \cup {Gone}]
  /\ \E s \in Schemas : \A e \in Entities : s[e] # Gone

ASSUME BoundsAssumption ==
  MaxRuns \in Nat /\ MaxEdits \in Nat /\ MaxSchemas \in Nat

VARIABLES
  schema,    \* the saved schema: the gates of each entity, or Gone
  disk,      \* per path: Absent, Custom (edited by hand), or a render
  links,     \* per entity: its sidebar link, or NoLink
  manifest,  \* .generated-manifest.json: the last complete run, Torn, or none
  job,       \* the tool at work, its step and the files it has left
  recorder,  \* generate's ManifestRecorder
  budget,    \* how often users and tools may still act
  known,     \* stubs all of whose renders the manifests so far recorded
  retracted, \* the schema links were last retracted under, if none other added any
  orderly,   \* generate always followed a cleanup, and never failed
  settled    \* nothing but user edits since the last complete generate

vars == <<schema, disk, links, manifest, job, recorder, budget, known,
          retracted, orderly, settled>>

AfterTheEntityLoop == UNION {ModelFiles(Gates), TestFiles(Gates)}
Turn(p) == IF p[1] # Shared /\ p[2] \in AfterTheEntityLoop THEN 2
           ELSE IF p[1] = Shared THEN 3 ELSE 1
Precedes(p, q) == \/ Turn(p) < Turn(q)
                  \/ Turn(p) = Turn(q) /\ p[1] <= q[1]

(* Entity by entity, the files of one entity in a fixed order.             *)
NextFile(todo) == CHOOSE p \in todo : \A q \in todo : Precedes(p, q)

Idle == [kind |-> "none", step |-> "idle", todo |-> {}, keep |-> FALSE]
EmptyRecorder == [sha |-> [p \in Paths |-> Unlisted],
                  history |-> [p \in Paths |-> {}]]
Readable(m) == m \notin {NoManifest, Torn}

Init ==
  /\ schema = FirstSchema
  /\ disk = [p \in Paths |-> Absent]
  /\ links = [e \in Entities |-> NoLink]
  /\ manifest = NoManifest
  /\ job = Idle
  /\ recorder = EmptyRecorder
  /\ budget = [runs |-> MaxRuns, edits |-> MaxEdits, schemas |-> MaxSchemas]
  /\ known = {}
  /\ retracted = {schema}
  /\ orderly = TRUE
  /\ settled = FALSE

(*------------------------------ the users --------------------------------*)

EditSchema ==
  /\ job = Idle
  /\ budget.schemas > 0
  /\ \E s \in Schemas \ {schema} : schema' = s
  /\ budget' = [budget EXCEPT !.schemas = @ - 1]
  /\ settled' = FALSE
  /\ UNCHANGED <<disk, links, manifest, job, recorder, known, orderly, retracted>>

(* A user writes a file by hand, over a generated one or from scratch.     *)
EditFile(p) ==
  /\ job = Idle
  /\ budget.edits > 0
  /\ disk[p] # Custom
  /\ FromScratch \/ disk[p] # Absent
  /\ disk' = [disk EXCEPT ![p] = Custom]
  /\ budget' = [budget EXCEPT !.edits = @ - 1]
  /\ UNCHANGED <<schema, links, manifest, job, recorder, known, orderly, settled, retracted>>

(*------------------------------ generate ---------------------------------*)

StartGenerate ==
  /\ job = Idle
  /\ budget.runs > 0
  /\ Present(schema) # {}
  /\ job' = [Idle EXCEPT !.kind = "generate", !.step = "write",
                         !.todo = Expected(schema)]
  /\ recorder' = [EmptyRecorder EXCEPT !.history =
                    IF Readable(manifest) THEN manifest.history ELSE @]
  /\ budget' = [budget EXCEPT !.runs = @ - 1]
  /\ orderly' = (orderly /\ manifest = NoManifest)
  /\ settled' = FALSE
  /\ UNCHANGED <<schema, disk, links, manifest, known, retracted>>

(* Mutant: hash the file before it is written.                             *)
RecordedBefore(p, content) ==
  [sha |-> [recorder.sha EXCEPT
              ![p] = IF disk[p] \in Renders THEN disk[p] ELSE Unlisted],
   history |-> [recorder.history EXCEPT
                  ![p] = IF p \in StubPaths THEN @ \cup {content} ELSE @]]

Recorded(p, content) ==
  [sha |-> [recorder.sha EXCEPT ![p] = content],
   history |-> [recorder.history EXCEPT
                  ![p] = IF p \in StubPaths THEN @ \cup {content} ELSE @]]

(* Mutant: stubs are overwritten like any file. *)
WrittenAlways(p, content, history) == content

(* A stub that is absent is created; one that still shows an older render  *)
(* is refreshed; anything else is the user's.                              *)
Written(p, content, history) ==
  IF p \in StubPaths /\ disk[p] # Absent /\ disk[p] \notin history
  THEN disk[p] ELSE content

WriteFile ==
  /\ job.step = "write"
  /\ \E p \in job.todo :
       LET content == Rendered(schema, p)
       IN  /\ p = NextFile(job.todo)
           /\ recorder' = Recorded(p, content)
           /\ disk' = [disk EXCEPT ![p] =
                         Written(p, content, recorder'.history[p])]
           /\ known' = IF p \in StubPaths /\ disk[p] = Absent
                       THEN known \cup {p} ELSE known
           /\ job' = [job EXCEPT !.todo = @ \ {p}]
  /\ UNCHANGED <<schema, links, manifest, budget, orderly, settled, retracted>>

(* Files of a search or a mobile feature nothing needs any more go without *)
(* a look at what they hold.                                               *)
Stale(p) == p[1] = Shared /\ p[2] \in StaleFiles(Configs(schema))

DropStale ==
  /\ job.step = "write" /\ job.todo = {}
  /\ disk' = [p \in Paths |-> IF Stale(p) THEN Absent ELSE disk[p]]
  /\ job' = [job EXCEPT !.step = "link"]
  /\ UNCHANGED <<schema, links, manifest, recorder, budget, known, orderly, settled, retracted>>

(* Sidebar links are only ever added: a link that is there is left alone.  *)
Listed(s) == {e \in Present(s) : "list" \in s[e]}
LinkOf(c) == IF "nav" \in c THEN "grouped" ELSE "top"

AddLinks ==
  /\ job.step = "link"
  /\ links' = [e \in Entities |->
       IF e \in Listed(schema) /\ links[e] = NoLink
       THEN LinkOf(schema[e]) ELSE links[e]]
  /\ retracted' = retracted \cap {schema}
  /\ job' = [job EXCEPT !.step = "gate"]
  /\ UNCHANGED <<schema, disk, manifest, recorder, budget, known, orderly, settled>>

(* A create hook was implemented, but not the update or the delete hook of *)
(* an operation that is on.                                                *)
Implemented(p) == disk[p] \notin recorder.history[p]
Hook(e, name) == <<e, name>>
Lopsided(e) ==
  /\ schema[e] # Gone /\ "proxy" \notin schema[e]
  /\ Hook(e, "lib/service_after_create.ts") \in Paths
  /\ Implemented(Hook(e, "lib/service_after_create.ts"))
  /\ \/ /\ "edit" \in schema[e]
        /\ Hook(e, "lib/service_after_update.ts") \in Paths
        /\ ~Implemented(Hook(e, "lib/service_after_update.ts"))
     \/ /\ "delete" \in schema[e]
        /\ Hook(e, "lib/service_after_delete.ts") \in Paths
        /\ ~Implemented(Hook(e, "lib/service_after_delete.ts"))

(* A run that stops early wrote files no manifest will list.               *)
Unwritten == {p \in known : recorder.sha[p] = Unlisted}
AbandonAsItIs ==  \* Mutant: the next run goes on with the old recorder
  job' = Idle /\ recorder' = recorder /\ orderly' = FALSE /\ settled' = FALSE
Abandon ==
  /\ job' = Idle
  /\ recorder' = EmptyRecorder
  /\ orderly' = FALSE
  /\ settled' = FALSE

HookGateFails ==
  /\ job.step = "gate"
  /\ \E e \in Entities : Lopsided(e)
  /\ Abandon
  /\ known' = Unwritten
  /\ UNCHANGED <<schema, disk, links, manifest, budget, retracted>>

HookGatePasses ==
  /\ job.step = "gate"
  /\ \A e \in Entities : ~Lopsided(e)
  /\ job' = [job EXCEPT !.step = "save"]
  /\ UNCHANGED <<schema, disk, links, manifest, recorder, budget, known, orderly, settled, retracted>>

SaveManifest ==
  /\ job.step = "save"
  /\ manifest' = [recorder EXCEPT !.history =
       [p \in Paths |-> IF recorder.sha[p] = Unlisted THEN {} ELSE @[p]]]
  /\ job' = Idle
  /\ recorder' = EmptyRecorder
  /\ known' = {p \in known : recorder.sha[p] # Unlisted}
  /\ settled' = TRUE
  /\ UNCHANGED <<schema, disk, links, budget, orderly, retracted>>

(*------------------------------- cleanup ---------------------------------*)

(* npm run cleanup keeps stubs, cleanup:all does not; both prune.  Without *)
(* a manifest the files are re-derived from the schema; a manifest that    *)
(* does not parse stops the run.                                           *)
FallbackFiles(keep) ==
  {p \in Paths :
     IF p[1] = Shared
     THEN p[2] \in SchemaDrivenOnce(Configs(schema)) \cup SchemaDrivenShared
     ELSE schema[p[1]] # Gone /\ p[2] \in SchemaDriven(schema[p[1]], keep)}

StartCleanup(keep) ==
  /\ job = Idle
  /\ budget.runs > 0
  /\ Present(schema) # {}
  /\ manifest # Torn
  /\ job' = IF manifest = NoManifest
            THEN [kind |-> "sweep", step |-> "delete", keep |-> keep,
                  todo |-> FallbackFiles(keep)]
            ELSE [kind |-> "clean", step |-> "delete", keep |-> keep,
                  todo |-> {p \in Paths : manifest.sha[p] # Unlisted}]
  /\ budget' = [budget EXCEPT !.runs = @ - 1]
  /\ settled' = FALSE
  /\ UNCHANGED <<schema, disk, links, manifest, recorder, known, orderly, retracted>>

(* HANDWRITTEN_ALLOWLIST, which holds some files of the schema as a whole  *)
(* and some of entities of certain names.  The sweep does not consult it.  *)
Protected(p) ==
  p[2] \in IF p[1] = Shared THEN Allowlist ELSE AllowlistOf(Name[p[1]])

DeletableUnguarded(p) ==  \* Mutant: no hash check
  ~Protected(p) /\ ~(job.keep /\ p \in StubPaths)

(* A listed file goes unless it is protected, kept, or was edited.         *)
Deletable(p) ==
  /\ ~Protected(p)
  /\ ~(job.keep /\ p \in StubPaths)
  /\ disk[p] = manifest.sha[p]

DeleteListed ==
  /\ job.kind = "clean" /\ job.step = "delete"
  /\ \E p \in job.todo :
         /\ p = NextFile(job.todo)
         /\ disk' = IF Deletable(p) THEN [disk EXCEPT ![p] = Absent] ELSE disk
         /\ job' = [job EXCEPT !.todo = @ \ {p}]
  /\ UNCHANGED <<schema, links, manifest, recorder, budget, known, orderly, settled, retracted>>

DropManifest ==
  /\ job.kind = "clean" /\ job.step = "delete" /\ job.todo = {}
  /\ manifest' = NoManifest
  /\ known' = {}
  /\ job' = [job EXCEPT !.step = "retract"]
  /\ UNCHANGED <<schema, disk, links, recorder, budget, orderly, settled, retracted>>

(* The sweep trusts the path, but takes most schema-wide files only while  *)
(* they are marked: an edited one may or may not still carry the mark.     *)
SweepFile ==
  /\ job.kind = "sweep" /\ job.step = "delete"
  /\ \E p \in job.todo :
         /\ p = NextFile(job.todo)
         /\ \/ disk' = [disk EXCEPT ![p] = Absent]
            \/ /\ p[1] = Shared /\ p[2] \in SchemaDrivenShared
               /\ disk[p] = Custom /\ disk' = disk
         /\ job' = [job EXCEPT !.todo = @ \ {p}]
  /\ UNCHANGED <<schema, links, manifest, recorder, budget, known, orderly, settled, retracted>>

SweepDone ==
  /\ job.kind = "sweep" /\ job.step = "delete" /\ job.todo = {}
  /\ job' = [job EXCEPT !.step = "retract"]
  /\ UNCHANGED <<schema, disk, links, manifest, recorder, budget, known, orderly, settled, retracted>>

(* Links are retracted by the current schema, whatever added them.         *)
RetractLinks ==
  /\ job.step = "retract"
  /\ links' = [e \in Entities |->
                 IF e \in Listed(schema) THEN NoLink ELSE links[e]]
  /\ retracted' = {schema}
  /\ job' = [job EXCEPT !.step = "prune"]
  /\ UNCHANGED <<schema, disk, manifest, recorder, budget, known, orderly, settled>>

FilesOf(e) == {n \in Tracked : <<e, n>> \in Paths /\ disk[<<e, n>>] # Absent}

Orphan(p) ==
  /\ p[1] # Shared /\ ~Protected(p)
  /\ IF schema[p[1]] = Gone
     THEN p[2] \in OrphanFiles(FilesOf(p[1]), job.keep) \cup MarkedOrphans
     ELSE /\ p[2] = "components/column_def.tsx"
          /\ ~(HasChildren(schema[p[1]]) /\ AnyOf(schema[p[1]], {"view", "edit"}))

(* Test files are taken while they carry the mark, and route files while   *)
(* they import the entity's lib: an edited one may have lost either.       *)
Spared(p) == disk[p] = Custom /\ p[2] \in MarkedOrphans \cup OrphanRoutes

Prune ==
  /\ job.step = "prune"
  /\ \E spared \in SUBSET {p \in Paths : Spared(p)} :
       disk' = [p \in Paths |->
         IF Orphan(p) /\ p \notin spared THEN Absent ELSE disk[p]]
  /\ job' = Idle
  /\ UNCHANGED <<schema, links, manifest, recorder, budget, known, orderly, settled, retracted>>

(*------------------------------- failures --------------------------------*)

(* A crash, a full disk or Ctrl-C: what was written stays.  The manifest   *)
(* is written in place, so that step may also leave half of it.            *)
CrashGenerate ==
  /\ Crashes
  /\ job.kind = "generate"
  /\ Abandon
  /\ \/ manifest' = manifest /\ known' = Unwritten
     \/ job.step = "save" /\ manifest' = Torn /\ known' = {}
  /\ UNCHANGED <<schema, disk, links, budget, retracted>>

CrashCleanup ==
  /\ Crashes
  /\ job.kind \in {"clean", "sweep"}
  /\ job' = Idle
  /\ UNCHANGED <<schema, disk, links, manifest, recorder, budget, known, orderly, settled, retracted>>

Next ==
  \/ EditSchema
  \/ \E p \in Paths : EditFile(p)
  \/ StartGenerate \/ WriteFile \/ DropStale \/ AddLinks
  \/ HookGateFails \/ HookGatePasses \/ SaveManifest
  \/ \E keep \in BOOLEAN : StartCleanup(keep)
  \/ DeleteListed \/ DropManifest \/ SweepFile \/ SweepDone \/ RetractLinks \/ Prune
  \/ CrashGenerate \/ CrashCleanup

Spec == Init /\ [][Next]_vars

(*------------------------------ properties -------------------------------*)

Contents == Renders \cup {Custom}

(* Type correctness; the recorder is empty unless generate is at work.     *)
TypeOK ==
  /\ schema \in Schemas
  /\ disk \in [Paths -> Contents \cup {Absent}]
  /\ links \in [Entities -> {"top", "grouped", NoLink}]
  /\ manifest \in {NoManifest, Torn} \cup Manifests
  /\ job \in [kind : {"none", "generate", "clean", "sweep"},
              step : {"idle", "write", "link", "gate", "save", "delete",
                      "retract", "prune"},
              todo : SUBSET Paths, keep : BOOLEAN]
  /\ recorder \in Manifests
  /\ job.kind # "generate" => recorder = EmptyRecorder
  /\ job.kind = "clean" /\ job.step = "delete" => Readable(manifest)
  /\ budget \in [runs : Nat, edits : Nat, schemas : Nat]
  /\ known \in SUBSET StubPaths
  /\ retracted \in SUBSET Schemas
  /\ orderly \in BOOLEAN
  /\ settled \in BOOLEAN

(* No tool ever overwrites or deletes a write-once file a user edited,     *)
(* whatever schema it runs on and wherever a run fails (_write_stub,       *)
(* cleanup.py's hash guard, sweep and prune).                              *)
StubEditsKept ==
  [][\A p \in StubPaths : disk[p] = Custom => disk'[p] = Custom]_vars

(* A cleanup that has a manifest deletes no edited file that the schema    *)
(* still calls for (cleanup.py _clean_from_manifest, _prune_orphans).      *)
EditsKeptByManifest ==
  [][\A p \in Expected(schema) :
       job.kind = "clean" /\ disk[p] = Custom => disk'[p] = Custom]_vars

(* In the documented order, cleanup before each generate and no failed     *)
(* generate, every untouched regenerated file on disk is listed in the     *)
(* manifest as it stands, so that the next cleanup will take it.  Files of *)
(* HANDWRITTEN_ALLOWLIST are not covered: they stay when a schema no       *)
(* longer calls for them, and then no manifest lists them.                 *)
NoLeftovers ==
  orderly /\ job = Idle =>
    \A p \in Paths \ StubPaths :
      disk[p] \in Renders /\ ~Protected(p) =>
        /\ Readable(manifest)
        /\ manifest.sha[p] = disk[p]

(* After a complete generate every file the schema calls for is there, and  *)
(* the regenerated ones are the schema's own, save for what users edited    *)
(* since: what the run unlinks as no longer needed, it has not written.     *)
CompleteRunIsCurrent ==
  settled => \A p \in Expected(schema) :
    /\ disk[p] # Absent
    /\ p \notin StubPaths => disk[p] \in {Custom, Rendered(schema, p)}

(* A write-once file that no user touched, and whose renders were all      *)
(* recorded, shows the current schema after a complete generate            *)
(* (ManifestRecorder's stub history across runs).                          *)
UntouchedStubsAreCurrent ==
  settled => \A p \in known :
    p \in Expected(schema) => disk[p] \in {Custom, Rendered(schema, p)}

(* After a complete generate no entity has a create hook written by hand   *)
(* beside an untouched update hook of an edit that is on                   *)
(* (validate_write_once_stub_asymmetry).  Hooks edited since do not count. *)
HooksAreBalanced ==
  [][settled' /\ ~settled =>
       \A e \in Present(schema) :
         LET create == Hook(e, "lib/service_after_create.ts")
             update == Hook(e, "lib/service_after_update.ts")
         IN  /\ "proxy" \notin schema[e] /\ "edit" \in schema[e]
             /\ {create, update} \subseteq known'
             /\ disk'[create] = Custom
             => disk'[update] = Custom]_vars

====
