-------------------------- MODULE GeneratedTreeProofs --------------------------
(***************************************************************************)
(* Theorems about GeneratedTree, for every number of entities, every set   *)
(* of schemas and tracked files, and any number of runs, edits and crashes. *)
(***************************************************************************)
EXTENDS GeneratedTree, TLAPS

-----------------------------------------------------------------------------
(* What the gates decide about files. *)

LEMMA RenderedIsRender ==
  ASSUME NEW s, NEW p
  PROVE  Rendered(s, p) \in Renders
<1>1. Shows(p[2]) \subseteq Gates \cup {"v2"}
  BY DEF Shows, When, Gates, Traits
<1> QED
  BY <1>1 DEF Rendered, Renders

(* The sweep, the prune and the stale-search step never name a stub. *)
LEMMA SweepSparesStubs ==
  ASSUME NEW c, NEW keep \in BOOLEAN, NEW S,
         NEW n \in UNION {SchemaDriven(c, keep), SchemaDrivenOnce(S), SchemaDrivenShared}
  PROVE  n \notin Stubs
BY DEF SchemaDriven, SchemaDrivenOnce, SchemaDrivenShared, Stubs, LibStubs, OtherStubs, When

LEMMA PruneSparesStubs ==
  ASSUME NEW present, NEW keep \in BOOLEAN,
         NEW n \in OrphanFiles(present, keep) \cup MarkedOrphans
  PROVE  n \notin Stubs
BY DEF OrphanFiles, OrphanLib, OrphanComponents, OrphanRoutes, MarkedOrphans,
       Stubs, LibStubs, OtherStubs, When

LEMMA StaleSparesStubs ==
  ASSUME NEW S, NEW n \in StaleFiles(S)
  PROVE  n \notin Stubs
BY DEF StaleFiles, StaleSearchFiles, SearchRoutes, StaleMobileFiles,
       FeatureFiles, MobileFeatures, Stubs, LibStubs, OtherStubs, When

(* A column definition is written exactly while the prune spares it. *)
LEMMA ColumnDefGate ==
  ASSUME NEW c, "components/column_def.tsx" \in EntityFiles(c)
  PROVE  HasChildren(c) /\ AnyOf(c, {"view", "edit"})
BY DEF HasChildren, AnyOf, EntityFiles, BaseFiles, HookFiles, ServiceFiles, InvalidateFiles, ActionFiles, ApiFiles,
       RouteFiles, FormFiles, ViewFiles, PageFiles, ModelFiles, SplitRoute, SplitSection, VersionFiles,
       PaymentFiles, ExclusiveFiles, AfterHooks, BeforeHooks, TaskFiles, TestFiles, MobileFiles,
       NativeFiles, NativeStubs, When

-----------------------------------------------------------------------------
(* Type correctness.  The phase of the tool at work says which tool it is, *)
(* and a sweep never has a stub on its list.                               *)
Phases ==
  /\ job.kind = "none" => job = Idle
  /\ job.kind = "generate" <=> job.step \in {"write", "link", "gate", "save"}
  /\ job.kind \in {"clean", "sweep"} <=> job.step \in {"delete", "retract", "prune"}
  /\ job.kind = "sweep" => \A p \in job.todo : p[2] \notin Stubs

TypeInv == TypeOK /\ Phases

LEMMA EmptyRecorderType ==
  EmptyRecorder \in Manifests
BY DEF EmptyRecorder, Manifests

LEMMA FirstSchemaType ==
  FirstSchema \in Schemas
BY ValuesAssumption DEF FirstSchema

LEMMA ExpectedPaths ==
  ASSUME NEW s \in Schemas
  PROVE  Expected(s) \subseteq Paths
BY DEF Paths

LEMMA FallbackSparesStubs ==
  ASSUME NEW keep \in BOOLEAN, NEW p \in FallbackFiles(keep)
  PROVE  p \in Paths /\ p[2] \notin Stubs
BY SweepSparesStubs DEF FallbackFiles

LEMMA InitTypes ==
  ASSUME Init
  PROVE  TypeInv
<1>1. TypeOK
  BY FirstSchemaType, EmptyRecorderType, ValuesAssumption, BoundsAssumption
  DEF Init, TypeOK, Idle, Contents, Readable, Renders
<1>2. Phases
  BY DEF Init, Phases, Idle
<1> QED
  BY <1>1, <1>2 DEF TypeInv

(* The steps of generate that only move on, and the users' steps. *)
LEMMA EditsKeepTypes ==
  ASSUME TypeInv, EditSchema \/ \E p \in Paths : EditFile(p)
  PROVE  TypeInv'
<1>1. CASE EditSchema
  <2>1. budget' \in [runs : Nat, edits : Nat, schemas : Nat]
    BY <1>1 DEF EditSchema, TypeInv, TypeOK
  <2>2. schema' \in Schemas
    BY <1>1 DEF EditSchema
  <2>3. UNCHANGED <<disk, links, manifest, job, recorder, known, orderly, retracted>> /\ settled' = FALSE
    BY <1>1 DEF EditSchema
  <2> QED
    BY <2>1, <2>2, <2>3 DEF TypeInv, TypeOK, Phases, Idle, Readable
<1>2. ASSUME NEW p \in Paths, EditFile(p)
      PROVE  TypeInv'
  <2>1. disk' \in [Paths -> Contents \cup {Absent}]
    BY <1>2 DEF EditFile, TypeInv, TypeOK, Contents
  <2> QED
    BY <1>2, <2>1 DEF EditFile, TypeInv, TypeOK, Phases, Idle, Readable
<1> QED
  BY <1>1, <1>2

LEMMA StartGenerateKeepsTypes ==
  ASSUME TypeInv, StartGenerate
  PROVE  TypeInv'
<1>1. job' = [kind |-> "generate", step |-> "write", todo |-> Expected(schema), keep |-> FALSE]
  BY DEF StartGenerate, Idle
<1>2. Expected(schema) \subseteq Paths
  BY ExpectedPaths DEF TypeInv, TypeOK
<1>3. recorder' \in Manifests
  <2>1. Readable(manifest) => manifest.history \in [Paths -> SUBSET Renders]
    BY DEF TypeInv, TypeOK, Manifests, Readable
  <2> QED
    BY <2>1, EmptyRecorderType DEF StartGenerate, EmptyRecorder, Manifests
<1>4. TypeOK'
  <2>1. budget' \in [runs : Nat, edits : Nat, schemas : Nat]
    BY DEF StartGenerate, TypeInv, TypeOK
  <2>2. orderly' \in BOOLEAN
    BY DEF StartGenerate, TypeInv, TypeOK
  <2>3. UNCHANGED <<schema, disk, links, manifest, known, retracted>> /\ settled' = FALSE
    BY DEF StartGenerate
  <2> QED
    BY <1>1, <1>2, <1>3, <2>1, <2>2, <2>3 DEF TypeInv, TypeOK
<1>5. Phases'
  BY <1>1 DEF Phases
<1> QED
  BY <1>4, <1>5 DEF TypeInv

LEMMA RecordedType ==
  ASSUME TypeInv, NEW p, NEW content \in Renders
  PROVE  Recorded(p, content) \in Manifests
<1> DEFINE H == IF p \in StubPaths THEN recorder.history[p] \cup {content} ELSE recorder.history[p]
<1>1. p \in Paths => H \in SUBSET Renders
  BY DEF TypeInv, TypeOK, Manifests
<1>2. [recorder.history EXCEPT ![p] = H] \in [Paths -> SUBSET Renders]
  BY <1>1 DEF TypeInv, TypeOK, Manifests
<1>3. [recorder.sha EXCEPT ![p] = content] \in [Paths -> Renders \cup {Unlisted}]
  BY DEF TypeInv, TypeOK, Manifests
<1> QED
  BY <1>2, <1>3 DEF Recorded, Manifests

LEMMA WriteFileKeepsTypes ==
  ASSUME TypeInv, WriteFile
  PROVE  TypeInv'
<1>1. PICK p \in job.todo :
        /\ recorder' = Recorded(p, Rendered(schema, p))
        /\ disk' = [disk EXCEPT ![p] = Written(p, Rendered(schema, p), recorder'.history[p])]
        /\ known' = IF p \in StubPaths /\ disk[p] = Absent THEN known \cup {p} ELSE known
        /\ job' = [job EXCEPT !.todo = @ \ {p}]
  BY DEF WriteFile
<1>2. recorder' \in Manifests
  BY <1>1, RenderedIsRender, RecordedType
<1>3. disk' \in [Paths -> Contents \cup {Absent}]
  BY <1>1, RenderedIsRender DEF Written, TypeInv, TypeOK, Contents
<1>4. /\ job' \in [kind : {"none", "generate", "clean", "sweep"},
                   step : {"idle", "write", "link", "gate", "save", "delete",
                           "retract", "prune"},
                   todo : SUBSET Paths, keep : BOOLEAN]
      /\ job'.kind = "generate" /\ job'.step = "write" /\ job'.todo \subseteq job.todo
  BY <1>1 DEF WriteFile, TypeInv, TypeOK, Phases
<1>5. TypeOK'
  BY <1>1, <1>2, <1>3, <1>4 DEF WriteFile, TypeInv, TypeOK
<1>6. Phases'
  BY <1>4 DEF Phases
<1> QED
  BY <1>5, <1>6 DEF TypeInv

LEMMA LaterGenerateStepsKeepTypes ==
  ASSUME TypeInv, DropStale \/ AddLinks \/ HookGatePasses
  PROVE  TypeInv'
<1>1. CASE DropStale
  <2>1. disk' \in [Paths -> Contents \cup {Absent}]
    BY <1>1 DEF DropStale, TypeInv, TypeOK
  <2>2. job' = [job EXCEPT !.step = "link"] /\ job.kind = "generate"
    BY <1>1 DEF DropStale, TypeInv, Phases
  <2>3. UNCHANGED <<schema, links, manifest, recorder, budget, known, orderly, settled, retracted>>
    BY <1>1 DEF DropStale
  <2> QED
    BY <2>1, <2>2, <2>3 DEF TypeInv, TypeOK, Phases, Readable, Idle
<1>2. CASE AddLinks
  <2>1. links' \in [Entities -> {"top", "grouped", NoLink}]
    BY <1>2 DEF AddLinks, LinkOf, TypeInv, TypeOK
  <2>2. job' = [job EXCEPT !.step = "gate"] /\ job.kind = "generate" /\ retracted' \subseteq retracted
    BY <1>2 DEF AddLinks, TypeInv, Phases
  <2>3. UNCHANGED <<schema, disk, manifest, recorder, budget, known, orderly, settled>>
    BY <1>2 DEF AddLinks
  <2> QED
    BY <2>1, <2>2, <2>3 DEF TypeInv, TypeOK, Phases, Readable, Idle
<1>3. CASE HookGatePasses
  <2>1. job' = [job EXCEPT !.step = "save"] /\ job.kind = "generate"
    BY <1>3 DEF HookGatePasses, TypeInv, Phases
  <2>2. UNCHANGED <<schema, disk, links, manifest, recorder, budget, known, orderly, settled, retracted>>
    BY <1>3 DEF HookGatePasses
  <2> QED
    BY <2>1, <2>2 DEF TypeInv, TypeOK, Phases, Readable, Idle
<1> QED
  BY <1>1, <1>2, <1>3

(* A run that ends, saved or abandoned, leaves a fresh recorder. *)
LEMMA EndedKeepsTypes ==
  ASSUME TypeInv, job' = Idle, recorder' = EmptyRecorder,
         UNCHANGED <<schema, disk, links, budget, retracted>>,
         known' \subseteq known, orderly' \in BOOLEAN, settled' \in BOOLEAN,
         \/ manifest' = manifest
         \/ manifest' = Torn
         \/ manifest' \in Manifests
  PROVE  TypeInv'
BY EmptyRecorderType DEF TypeInv, TypeOK, Phases, Idle

LEMMA AbandonKeepsTypes ==
  ASSUME TypeInv, HookGateFails \/ CrashGenerate
  PROVE  TypeInv'
<1>1. Unwritten \subseteq known
  BY DEF Unwritten
<1> QED
  BY <1>1, EndedKeepsTypes DEF HookGateFails, CrashGenerate, Abandon

LEMMA SaveManifestKeepsTypes ==
  ASSUME TypeInv, SaveManifest
  PROVE  TypeInv'
<1> DEFINE H == [p \in Paths |-> IF recorder.sha[p] = Unlisted THEN {} ELSE recorder.history[p]]
<1>1. H \in [Paths -> SUBSET Renders]
  BY DEF TypeInv, TypeOK, Manifests
<1>2. manifest' = [recorder EXCEPT !.history = H]
  BY DEF SaveManifest
<1>3. manifest' \in Manifests
  BY <1>1, <1>2 DEF TypeInv, TypeOK, Manifests
<1>4. known' \subseteq known /\ orderly' \in BOOLEAN /\ settled' \in BOOLEAN
  BY DEF SaveManifest, TypeInv, TypeOK, Manifests
<1> QED
  BY <1>3, <1>4, EndedKeepsTypes DEF SaveManifest

LEMMA StartCleanupKeepsTypes ==
  ASSUME TypeInv, NEW keep \in BOOLEAN, StartCleanup(keep)
  PROVE  TypeInv'
<1>1. budget' \in [runs : Nat, edits : Nat, schemas : Nat]
  BY DEF StartCleanup, TypeInv, TypeOK
<1>2. UNCHANGED <<schema, disk, links, manifest, recorder, known, orderly, retracted>> /\ settled' = FALSE
  BY DEF StartCleanup
<1>3. job.kind = "none" /\ recorder = EmptyRecorder
  BY DEF StartCleanup, Idle, TypeInv, TypeOK
<1>4. /\ job' \in [kind : {"sweep", "clean"}, step : {"delete"}, todo : SUBSET Paths, keep : BOOLEAN]
      /\ job'.kind = "sweep" => \A p \in job'.todo : p[2] \notin Stubs
      /\ job'.kind = "clean" => Readable(manifest)
  <2>1. CASE manifest = NoManifest
    <3>1. job' = [kind |-> "sweep", step |-> "delete", keep |-> keep, todo |-> FallbackFiles(keep)]
      BY <2>1 DEF StartCleanup
    <3> QED
      BY <3>1, FallbackSparesStubs
  <2>2. CASE manifest # NoManifest
    <3>1. job' = [kind |-> "clean", step |-> "delete", keep |-> keep,
                  todo |-> {p \in Paths : manifest.sha[p] # Unlisted}]
      BY <2>2 DEF StartCleanup
    <3> QED
      BY <2>2, <3>1 DEF StartCleanup, Readable
  <2> QED
    BY <2>1, <2>2
<1>5. TypeOK'
  <2>1. job' \in [kind : {"none", "generate", "clean", "sweep"},
                  step : {"idle", "write", "link", "gate", "save", "delete", "retract", "prune"},
                  todo : SUBSET Paths, keep : BOOLEAN]
    BY <1>4
  <2>2. (job.kind = "clean" /\ job.step = "delete" => Readable(manifest))'
    BY <1>2, <1>4 DEF Readable
  <2> QED
    BY <1>1, <1>2, <1>3, <2>1, <2>2 DEF TypeInv, TypeOK, Readable, EmptyRecorder
<1>6. Phases'
  BY <1>4 DEF Phases
<1> QED
  BY <1>5, <1>6 DEF TypeInv

(* A step of a cleanup that only takes files, or only moves on. *)
LEMMA CleaningKeepsTypes ==
  ASSUME TypeInv, job.kind \in {"clean", "sweep"},
         job' \in [kind : {job.kind}, step : {"delete", "retract", "prune"},
                   todo : SUBSET job.todo, keep : {job.keep}],
         job'.step = "delete" => job.step = "delete" /\ manifest' = manifest,
         disk' \in [Paths -> Contents \cup {Absent}],
         links' \in [Entities -> {"top", "grouped", NoLink}],
         manifest' \in {manifest, NoManifest}, known' \subseteq known, retracted' \in SUBSET Schemas,
         UNCHANGED <<schema, recorder, budget, orderly, settled>>
  PROVE  TypeInv'
BY DEF TypeInv, TypeOK, Phases, Readable, Idle

LEMMA DeletingKeepsTypes ==
  ASSUME TypeInv, DeleteListed \/ SweepFile \/ SweepDone \/ DropManifest
  PROVE  TypeInv'
<1>1. /\ job.step = "delete"
      /\ \/ \E p \in job.todo : job' = [job EXCEPT !.todo = @ \ {p}]
         \/ job' = [job EXCEPT !.step = "retract"]
  BY DEF DeleteListed, SweepFile, SweepDone, DropManifest
<1>2. job' \in [kind : {job.kind}, step : {"delete", "retract", "prune"},
                todo : SUBSET job.todo, keep : {job.keep}]
  BY <1>1 DEF TypeInv, TypeOK
<1>3. disk' \in [Paths -> Contents \cup {Absent}]
  BY DEF DeleteListed, SweepFile, SweepDone, DropManifest, TypeInv, TypeOK
<1>4. CASE DropManifest
  BY <1>2, <1>3, <1>4, CleaningKeepsTypes DEF DropManifest, TypeInv, TypeOK
<1>5. CASE DeleteListed \/ SweepFile \/ SweepDone
  BY <1>1, <1>2, <1>3, <1>5, CleaningKeepsTypes DEF DeleteListed, SweepFile, SweepDone, TypeInv, TypeOK
<1> QED
  BY <1>4, <1>5

LEMMA LastCleanupStepsKeepTypes ==
  ASSUME TypeInv, RetractLinks \/ Prune \/ CrashCleanup
  PROVE  TypeInv'
<1>1. CASE RetractLinks
  <2>1. links' \in [Entities -> {"top", "grouped", NoLink}]
    BY <1>1 DEF RetractLinks, TypeInv, TypeOK
  <2>2. job' = [job EXCEPT !.step = "prune"] /\ job.kind \in {"clean", "sweep"}
    BY <1>1 DEF RetractLinks, TypeInv, Phases
  <2>3. retracted' \in SUBSET Schemas
    BY <1>1 DEF RetractLinks, TypeInv, TypeOK
  <2>4. UNCHANGED <<schema, disk, manifest, recorder, budget, known, orderly, settled>>
    BY <1>1 DEF RetractLinks
  <2>5. job' \in [kind : {job.kind}, step : {"delete", "retract", "prune"},
                  todo : SUBSET job.todo, keep : {job.keep}]
        /\ job'.step = "prune"
    BY <2>2 DEF TypeInv, TypeOK
  <2> QED
    BY <2>1, <2>2, <2>3, <2>4, <2>5, CleaningKeepsTypes DEF TypeInv, TypeOK
<1>2. CASE Prune
  <2>1. job' = Idle /\ disk' \in [Paths -> Contents \cup {Absent}]
    BY <1>2 DEF Prune, TypeInv, TypeOK
  <2>2. UNCHANGED <<schema, links, manifest, recorder, budget, known, orderly, settled, retracted>>
    BY <1>2 DEF Prune
  <2>3. job.kind # "generate"
    BY <1>2 DEF Prune, TypeInv, Phases
  <2> QED
    BY <2>1, <2>2, <2>3 DEF TypeInv, TypeOK, Phases, Idle
<1>3. CASE CrashCleanup
  BY <1>3 DEF CrashCleanup, TypeInv, TypeOK, Phases, Idle
<1> QED
  BY <1>1, <1>2, <1>3

LEMMA NextKeepsTypes ==
  ASSUME TypeInv, [Next]_vars
  PROVE  TypeInv'
<1>1. CASE Next
  BY <1>1, EditsKeepTypes, StartGenerateKeepsTypes, WriteFileKeepsTypes,
     LaterGenerateStepsKeepTypes, AbandonKeepsTypes, SaveManifestKeepsTypes,
     StartCleanupKeepsTypes, DeletingKeepsTypes, LastCleanupStepsKeepTypes DEF Next
<1>2. CASE UNCHANGED vars
  BY <1>2 DEF vars, TypeInv, TypeOK, Phases, Idle, Readable
<1> QED
  BY <1>1, <1>2

LEMMA AlwaysTypes == Spec => []TypeInv
<1>1. Init => TypeInv
  BY InitTypes
<1>2. TypeInv /\ [Next]_vars => TypeInv'
  BY NextKeepsTypes
<1> QED
  BY <1>1, <1>2, PTL DEF Spec

(* Every variable keeps its type, and generate alone fills the recorder.   *)
THEOREM TypeCorrect == Spec => []TypeOK
<1>1. TypeInv => TypeOK
  BY DEF TypeInv
<1> QED
  BY <1>1, AlwaysTypes, PTL

-----------------------------------------------------------------------------
(* Files edited by hand. *)

LEMMA StubIsPath ==
  ASSUME NEW p \in StubPaths
  PROVE  p \in Paths /\ p[2] \in Stubs
BY DEF StubPaths

LEMMA CustomIsNoRender ==
  Custom \notin Renders /\ Custom # Absent /\ Custom # Unlisted
BY ValuesAssumption

(* generate never writes over an edited stub. *)
LEMMA WriteKeepsCustomStubs ==
  ASSUME TypeInv, WriteFile, NEW q \in StubPaths, disk[q] = Custom
  PROVE  disk'[q] = Custom
<1>1. PICK p \in job.todo :
        /\ recorder' = Recorded(p, Rendered(schema, p))
        /\ disk' = [disk EXCEPT ![p] = Written(p, Rendered(schema, p), recorder'.history[p])]
  BY DEF WriteFile
<1>2. q \in Paths /\ disk \in [Paths -> Contents \cup {Absent}]
  BY StubIsPath DEF TypeInv, TypeOK
<1>3. CASE p # q
  BY <1>1, <1>2, <1>3
<1>4. CASE p = q
  <2>1. recorder' \in Manifests
    BY <1>1, RenderedIsRender, RecordedType
  <2>2. disk[q] \notin recorder'.history[q]
    BY <2>1, <1>2, CustomIsNoRender DEF Manifests
  <2> QED
    BY <1>1, <1>2, <1>4, <2>2, CustomIsNoRender DEF Written
<1> QED
  BY <1>3, <1>4

(* An orphan is no stub, nor a file the schema calls for. *)
LEMMA OrphanIsNoStub ==
  ASSUME TypeInv, NEW p, Orphan(p)
  PROVE  p[2] \notin Stubs
<1>1. job.keep \in BOOLEAN
  BY DEF TypeInv, TypeOK
<1>2. "components/column_def.tsx" \notin Stubs
  BY DEF Stubs, LibStubs, OtherStubs
<1> QED
  BY <1>1, <1>2, PruneSparesStubs DEF Orphan

LEMMA OrphanIsUnexpected ==
  ASSUME NEW p, Orphan(p)
  PROVE  p \notin Expected(schema)
<1> SUFFICES ASSUME p \in Expected(schema) PROVE FALSE
  OBVIOUS
<1>1. p \in Present(schema) \X Tracked /\ p[2] \in EntityFiles(schema[p[1]])
  BY DEF Expected, Orphan
<1>2. schema[p[1]] # Gone
  BY <1>1 DEF Present
<1> QED
  BY <1>1, <1>2, ColumnDefGate DEF Orphan

LEMMA PruneTakesOrphans ==
  ASSUME TypeInv, Prune, NEW p \in Paths, ~Orphan(p)
  PROVE  disk'[p] = disk[p]
BY DEF Prune

LEMMA DeleteKeepsCustom ==
  ASSUME TypeInv, DeleteListed, NEW q \in Paths, disk[q] = Custom
  PROVE  disk'[q] = Custom
<1>1. PICK p \in job.todo :
        disk' = IF Deletable(p) THEN [disk EXCEPT ![p] = Absent] ELSE disk
  BY DEF DeleteListed
<1>2. manifest.sha[q] # Custom
  BY CustomIsNoRender DEF DeleteListed, TypeInv, TypeOK, Manifests, Readable
<1>3. p = q => ~Deletable(p)
  BY <1>2 DEF Deletable
<1> QED
  BY <1>1, <1>3 DEF TypeInv, TypeOK

(* Every other step leaves the files alone. *)
LEMMA FilesElsewhere ==
  ASSUME [Next]_vars,
         ~(\E p \in Paths : EditFile(p)), ~WriteFile, ~DropStale,
         ~DeleteListed, ~SweepFile, ~Prune
  PROVE  disk' = disk
<1>1. CASE UNCHANGED vars
  BY <1>1 DEF vars
<1>2. CASE EditSchema \/ StartGenerate \/ AddLinks \/ HookGatePasses
  BY <1>2 DEF EditSchema, StartGenerate, AddLinks, HookGatePasses
<1>3. CASE HookGateFails \/ SaveManifest \/ CrashGenerate \/ CrashCleanup
  BY <1>3 DEF HookGateFails, SaveManifest, CrashGenerate, CrashCleanup
<1>4. ASSUME NEW keep \in BOOLEAN, StartCleanup(keep)
      PROVE  disk' = disk
  BY <1>4 DEF StartCleanup
<1>5. CASE DropManifest \/ SweepDone \/ RetractLinks
  BY <1>5 DEF DropManifest, SweepDone, RetractLinks
<1> QED
  BY <1>1, <1>2, <1>3, <1>4, <1>5 DEF Next

LEMMA NextKeepsCustomStubs ==
  ASSUME TypeInv, [Next]_vars, NEW q \in StubPaths, disk[q] = Custom
  PROVE  disk'[q] = Custom
<1>0. q \in Paths /\ q[2] \in Stubs /\ disk \in [Paths -> Contents \cup {Absent}]
  BY StubIsPath DEF TypeInv, TypeOK
<1>1. ASSUME NEW p \in Paths, EditFile(p)
      PROVE  disk'[q] = Custom
  BY <1>0, <1>1 DEF EditFile
<1>2. CASE WriteFile
  BY <1>2, WriteKeepsCustomStubs
<1>3. CASE DropStale
  <2>1. ~Stale(q)
    BY <1>0, StaleSparesStubs DEF Stale
  <2> QED
    BY <1>0, <1>3, <2>1 DEF DropStale
<1>4. CASE DeleteListed
  BY <1>0, <1>4, DeleteKeepsCustom
<1>5. CASE SweepFile
  <2>1. PICK p \in job.todo : disk' = [disk EXCEPT ![p] = Absent] \/ disk' = disk
    BY <1>5 DEF SweepFile
  <2>2. p # q
    BY <1>0, <1>5, <2>1 DEF SweepFile, TypeInv, Phases
  <2> QED
    BY <1>0, <2>1, <2>2
<1>6. CASE Prune
  BY <1>0, <1>6, OrphanIsNoStub, PruneTakesOrphans
<1> QED
  BY <1>1, <1>2, <1>3, <1>4, <1>5, <1>6, FilesElsewhere

(* No run of generate or cleanup, complete or not, on any schema, ever     *)
(* overwrites or deletes a write-once file that a user edited.             *)
THEOREM StubEditsSurvive == Spec => StubEditsKept
<1>1. TypeInv /\ [Next]_vars => [\A p \in StubPaths : disk[p] = Custom => disk'[p] = Custom]_vars
  BY NextKeepsCustomStubs
<1> QED
  BY <1>1, AlwaysTypes, PTL DEF Spec, StubEditsKept

LEMMA CleanKeepsCustom ==
  ASSUME TypeInv, [Next]_vars, NEW q \in Expected(schema), job.kind = "clean", disk[q] = Custom
  PROVE  disk'[q] = Custom
<1>0. q \in Paths /\ disk \in [Paths -> Contents \cup {Absent}]
  BY ExpectedPaths DEF TypeInv, TypeOK
<1>1. ~(\E p \in Paths : EditFile(p)) /\ ~WriteFile /\ ~DropStale /\ ~SweepFile
  BY DEF EditFile, WriteFile, DropStale, SweepFile, Idle, TypeInv, Phases
<1>2. CASE DeleteListed
  BY <1>0, <1>2, DeleteKeepsCustom
<1>3. CASE Prune
  BY <1>0, <1>3, OrphanIsUnexpected, PruneTakesOrphans
<1> QED
  BY <1>1, <1>2, <1>3, FilesElsewhere

(* A cleanup with a manifest keeps every edited file the schema calls for. *)
THEOREM ManifestEditsSurvive == Spec => EditsKeptByManifest
<1>1. TypeInv /\ [Next]_vars =>
        [\A p \in Expected(schema) :
           job.kind = "clean" /\ disk[p] = Custom => disk'[p] = Custom]_vars
  BY CleanKeepsCustom
<1> QED
  BY <1>1, AlwaysTypes, PTL DEF Spec, EditsKeptByManifest

-----------------------------------------------------------------------------
(* Untouched stubs.  What generate has recorded of a path, or else what    *)
(* the last manifest did, covers what a known stub holds.                  *)
Past(p) == IF Readable(manifest) THEN manifest.history[p] ELSE {}
Covered(p) == {Absent, Custom} \cup
              (IF job.kind = "generate" THEN recorder.history[p] ELSE Past(p))

KnownInv ==
  /\ \A p \in known : disk[p] \in Covered(p)
  /\ job.kind = "generate" =>
       \A p \in Paths : recorder.sha[p] = Unlisted => recorder.history[p] = Past(p)

(* A known stub that generate has passed shows the schema.                 *)
CurrentInv ==
  /\ job.kind = "generate" /\ job.step # "write" => job.todo = {}
  /\ job.kind = "generate" =>
       \A p \in known : p \in Expected(schema) \ job.todo =>
         disk[p] \in {Custom, Rendered(schema, p)}
  /\ settled => job = Idle
  /\ UntouchedStubsAreCurrent

(* The gate has been passed when the manifest is about to be saved.        *)
GateInv == job.step = "save" => \A e \in Entities : ~Lopsided(e)

StubInv == TypeInv /\ KnownInv /\ CurrentInv /\ GateInv

LEMMA InitStubs ==
  ASSUME Init
  PROVE  StubInv
BY InitTypes DEF Init, StubInv, KnownInv, CurrentInv, GateInv, UntouchedStubsAreCurrent, Idle

LEMMA KnownPaths ==
  ASSUME TypeInv, NEW p \in known
  PROVE  p \in StubPaths /\ p \in Paths /\ p[2] \in Stubs
BY StubIsPath DEF TypeInv, TypeOK

(* A step that only takes files away, or writes them by hand, outside      *)
(* generate.                                                               *)
LEMMA OutsideKeepsStubs ==
  ASSUME StubInv, TypeInv', job.kind # "generate", job'.kind # "generate", ~settled',
         known' \subseteq known,
         known' # {} => manifest' = manifest,
         \A p \in known : disk'[p] \in {disk[p], Absent, Custom}
  PROVE  StubInv'
<1>1. KnownInv'
  <2>1. ASSUME NEW p \in known'
        PROVE  (disk[p] \in Covered(p))'
    BY <2>1 DEF StubInv, KnownInv, Covered, Past, Readable
  <2> QED
    BY <2>1 DEF KnownInv
<1>2. CurrentInv'
  BY DEF CurrentInv, UntouchedStubsAreCurrent
<1>3. GateInv'
  BY DEF GateInv, TypeInv, Phases
<1> QED
  BY <1>1, <1>2, <1>3 DEF StubInv

LEMMA EditSchemaKeepsStubs ==
  ASSUME StubInv, TypeInv', EditSchema
  PROVE  StubInv'
BY OutsideKeepsStubs DEF EditSchema, Idle

LEMMA EditFileKeepsStubs ==
  ASSUME StubInv, TypeInv', NEW q \in Paths, EditFile(q)
  PROVE  StubInv'
<1>1. /\ UNCHANGED <<schema, manifest, job, recorder, known, settled>> /\ job = Idle
      /\ \A p \in Paths : disk'[p] \in {disk[p], Custom}
  BY DEF EditFile, StubInv, TypeInv, TypeOK
<1>2. KnownInv'
  BY <1>1, KnownPaths DEF StubInv, KnownInv, Covered, Past, Readable, Idle
<1>3. CurrentInv'
  BY <1>1, KnownPaths DEF StubInv, CurrentInv, UntouchedStubsAreCurrent, Idle
<1>4. GateInv'
  BY <1>1 DEF GateInv, Idle
<1> QED
  BY <1>2, <1>3, <1>4 DEF StubInv

LEMMA StartGenerateKeepsStubs ==
  ASSUME StubInv, TypeInv', StartGenerate
  PROVE  StubInv'
<1>1. /\ job' = [kind |-> "generate", step |-> "write", todo |-> Expected(schema), keep |-> FALSE]
      /\ job = Idle /\ ~settled'
      /\ UNCHANGED <<schema, disk, manifest, known>>
  BY DEF StartGenerate, Idle
<1>2. \A p \in Paths : recorder'.history[p] = Past(p) /\ Past(p)' = Past(p)
  BY DEF StartGenerate, EmptyRecorder, Past, Readable
<1>3. KnownInv'
  BY <1>1, <1>2, KnownPaths DEF StubInv, KnownInv, Covered, Idle
<1>4. CurrentInv'
  BY <1>1 DEF CurrentInv, UntouchedStubsAreCurrent
<1>5. GateInv'
  BY <1>1 DEF GateInv
<1> QED
  BY <1>3, <1>4, <1>5 DEF StubInv

LEMMA WriteFileKeepsStubs ==
  ASSUME StubInv, TypeInv', WriteFile
  PROVE  StubInv'
<1>1. PICK p \in job.todo :
        /\ recorder' = Recorded(p, Rendered(schema, p))
        /\ disk' = [disk EXCEPT ![p] = Written(p, Rendered(schema, p), recorder'.history[p])]
        /\ known' = IF p \in StubPaths /\ disk[p] = Absent THEN known \cup {p} ELSE known
        /\ job' = [job EXCEPT !.todo = @ \ {p}]
  BY DEF WriteFile
<1> DEFINE content == Rendered(schema, p)
           old == recorder.history[p]
<1>2. /\ job.kind = "generate" /\ job.step = "write" /\ ~settled
      /\ job'.kind = "generate" /\ job'.step = "write" /\ ~settled'
      /\ job'.todo = job.todo \ {p} /\ UNCHANGED <<schema, manifest>>
  BY <1>1 DEF WriteFile, StubInv, TypeInv, TypeOK, Phases, CurrentInv, Idle
<1>3. /\ p \in Paths /\ disk \in [Paths -> Contents \cup {Absent}]
      /\ recorder.sha \in [Paths -> Renders \cup {Unlisted}]
      /\ recorder.history \in [Paths -> SUBSET Renders]
  BY DEF StubInv, TypeInv, TypeOK, Manifests
<1>4. content \in Renders /\ content # Unlisted
  BY RenderedIsRender, ValuesAssumption
<1>5. /\ recorder'.sha[p] # Unlisted
      /\ recorder'.history[p] = IF p \in StubPaths THEN old \cup {content} ELSE old
      /\ \A q \in Paths \ {p} : /\ recorder'.sha[q] = recorder.sha[q]
                               /\ recorder'.history[q] = recorder.history[q]
                               /\ disk'[q] = disk[q]
      /\ disk'[p] = Written(p, content, recorder'.history[p])
  BY <1>1, <1>3, <1>4 DEF Recorded
<1>6. \A q \in known' : q = p \/ q \in known \ {p}
  BY <1>1
<1>7. \A q \in known \ {p} : q \in Paths \ {p}
  BY KnownPaths DEF StubInv
<1>8. p \in known' => /\ p \in StubPaths
                     /\ disk'[p] \in {Custom, content}
                     /\ disk'[p] \in {Custom} \cup recorder'.history[p]
  <2> SUFFICES ASSUME p \in known'
               PROVE  /\ p \in StubPaths
                      /\ disk'[p] \in {Custom, content}
                      /\ disk'[p] \in {Custom} \cup recorder'.history[p]
    OBVIOUS
  <2>1. p \in StubPaths
    BY DEF TypeInv, TypeOK
  <2>2. recorder'.history[p] = old \cup {content}
    BY <1>5, <2>1
  <2>3. CASE disk[p] = Absent \/ disk[p] \in recorder'.history[p]
    BY <1>5, <2>1, <2>2, <2>3 DEF Written
  <2>4. CASE disk[p] # Absent /\ disk[p] \notin recorder'.history[p]
    <3>1. p \in known
      BY <1>1, <2>4
    <3>2. disk[p] \in {Absent, Custom} \cup old
      BY <3>1, <1>2 DEF StubInv, KnownInv, Covered
    <3> QED
      BY <1>5, <2>1, <2>2, <2>4, <3>2 DEF Written
  <2> QED
    BY <2>1, <2>3, <2>4
<1>9. KnownInv'
  <2>1. ASSUME NEW q \in known' PROVE (disk[q] \in Covered(q))'
    <3>1. CASE q = p
      BY <1>2, <1>8, <2>1, <3>1 DEF Covered
    <3>2. CASE q # p
      BY <1>2, <1>5, <1>6, <1>7, <2>1, <3>2 DEF StubInv, KnownInv, Covered
    <3> QED
      BY <3>1, <3>2
  <2>2. ASSUME NEW q \in Paths, recorder'.sha[q] = Unlisted
        PROVE  recorder'.history[q] = Past(q)'
    BY <1>2, <1>5, <2>2 DEF StubInv, KnownInv, Past, Readable
  <2> QED
    BY <2>1, <2>2 DEF KnownInv
<1>10. CurrentInv'
  <2>1. ASSUME NEW q \in known', q \in Expected(schema), q \notin job'.todo
        PROVE  disk'[q] \in {Custom, Rendered(schema, q)}
    <3>1. CASE q = p
      BY <1>8, <2>1, <3>1
    <3>2. CASE q # p
      BY <1>2, <1>5, <1>6, <1>7, <2>1, <3>2 DEF StubInv, CurrentInv
    <3> QED
      BY <3>1, <3>2
  <2> QED
    BY <1>2, <2>1 DEF CurrentInv, UntouchedStubsAreCurrent
<1>11. GateInv'
  BY <1>2 DEF GateInv
<1> QED
  BY <1>9, <1>10, <1>11 DEF StubInv

(* A step of generate after its last file. *)
LEMMA MovingOnKeepsStubs ==
  ASSUME StubInv, TypeInv', DropStale \/ AddLinks \/ HookGatePasses
  PROVE  StubInv'
<1>1. /\ UNCHANGED <<schema, manifest, recorder, known, settled>>
      /\ job.kind = "generate" /\ job'.kind = "generate" /\ job.todo = {} /\ job'.todo = {}
      /\ ~settled
  BY DEF DropStale, AddLinks, HookGatePasses, StubInv, TypeInv, TypeOK, Phases, CurrentInv, Idle
<1>2. \A p \in known : disk'[p] = disk[p]
  <2> SUFFICES ASSUME NEW p \in known PROVE disk'[p] = disk[p]
    OBVIOUS
  <2>1. p \in Paths /\ ~Stale(p)
    BY KnownPaths, StaleSparesStubs DEF StubInv, Stale
  <2> QED
    BY <2>1 DEF DropStale, AddLinks, HookGatePasses
<1>3. KnownInv'
  BY <1>1, <1>2 DEF StubInv, KnownInv, Covered, Past, Readable
<1>4. CurrentInv'
  BY <1>1, <1>2 DEF StubInv, CurrentInv, UntouchedStubsAreCurrent
<1>5. GateInv'
  <2>1. CASE HookGatePasses
    <3>1. UNCHANGED <<schema, disk, recorder>> /\ \A e \in Entities : ~Lopsided(e)
      BY <2>1 DEF HookGatePasses
    <3> QED
      BY <3>1 DEF GateInv, Lopsided, Implemented
  <2>2. CASE DropStale \/ AddLinks
    <3>1. job'.step # "save"
      BY <2>2 DEF DropStale, AddLinks, StubInv, TypeInv, TypeOK
    <3> QED
      BY <3>1 DEF GateInv
  <2> QED
    BY <2>1, <2>2
<1> QED
  BY <1>3, <1>4, <1>5 DEF StubInv

(* A run that stops early keeps what only earlier manifests covered. *)
LEMMA AbandonKeepsStubs ==
  ASSUME StubInv, TypeInv', HookGateFails \/ CrashGenerate
  PROVE  StubInv'
<1>1. /\ UNCHANGED <<schema, disk>> /\ job.kind = "generate" /\ job' = Idle /\ ~settled'
      /\ \/ manifest' = manifest /\ known' = Unwritten
         \/ known' = {}
  BY DEF HookGateFails, CrashGenerate, Abandon, StubInv, TypeInv, Phases
<1>2. KnownInv'
  <2>1. ASSUME NEW p \in known' PROVE (disk[p] \in Covered(p))'
    <3>1. p \in known /\ recorder.sha[p] = Unlisted /\ manifest' = manifest
      BY <1>1, <2>1 DEF Unwritten
    <3>2. p \in Paths
      BY <3>1, KnownPaths DEF StubInv
    <3>3. disk[p] \in {Absent, Custom} \cup Past(p)
      BY <1>1, <3>1, <3>2 DEF StubInv, KnownInv, Covered
    <3> QED
      BY <1>1, <3>1, <3>3 DEF Covered, Past, Readable, Idle
  <2> QED
    BY <1>1, <2>1 DEF KnownInv, Idle
<1>3. CurrentInv'
  BY <1>1 DEF CurrentInv, UntouchedStubsAreCurrent, Idle
<1>4. GateInv'
  BY <1>1 DEF GateInv, Idle
<1> QED
  BY <1>2, <1>3, <1>4 DEF StubInv

LEMMA SaveManifestKeepsStubs ==
  ASSUME StubInv, TypeInv', SaveManifest
  PROVE  StubInv'
<1>1. /\ UNCHANGED <<schema, disk>> /\ job.kind = "generate" /\ job' = Idle /\ job.todo = {}
      /\ known' = {p \in known : recorder.sha[p] # Unlisted}
  BY DEF SaveManifest, StubInv, TypeInv, Phases, CurrentInv
<1>2. \A p \in known' : p \in known /\ p \in Paths /\ recorder.sha[p] # Unlisted
  BY <1>1, KnownPaths DEF StubInv
<1>3. /\ Readable(manifest)'
      /\ \A p \in known' : Past(p)' = recorder.history[p]
  <2> DEFINE H == [p \in Paths |-> IF recorder.sha[p] = Unlisted THEN {} ELSE recorder.history[p]]
  <2>1. manifest' = [recorder EXCEPT !.history = H]
    BY DEF SaveManifest
  <2>2. manifest'.history = H /\ manifest' \in Manifests
    BY <2>1 DEF StubInv, TypeInv, TypeOK, Manifests
  <2>3. Readable(manifest)'
    BY <2>2, ValuesAssumption DEF Readable
  <2> QED
    BY <1>2, <2>2, <2>3 DEF Past, Readable
<1>4. KnownInv'
  <2>1. ASSUME NEW p \in known' PROVE (disk[p] \in Covered(p))'
    BY <1>1, <1>2, <1>3, <2>1 DEF StubInv, KnownInv, Covered, Idle
  <2> QED
    BY <1>1, <2>1 DEF KnownInv, Idle
<1>5. CurrentInv'
  BY <1>1, <1>2 DEF StubInv, CurrentInv, UntouchedStubsAreCurrent, Idle
<1>6. GateInv'
  BY <1>1 DEF GateInv, Idle
<1> QED
  BY <1>4, <1>5, <1>6 DEF StubInv

LEMMA CleanupKeepsStubs ==
  ASSUME StubInv, TypeInv',
         \/ \E keep \in BOOLEAN : StartCleanup(keep)
         \/ DeleteListed \/ DropManifest \/ SweepFile \/ SweepDone \/ RetractLinks \/ Prune
         \/ CrashCleanup
  PROVE  StubInv'
<1>1. CASE \E keep \in BOOLEAN : StartCleanup(keep)
  <2>1. /\ job.kind = "none" /\ job'.kind \in {"sweep", "clean"} /\ ~settled'
        /\ UNCHANGED <<disk, known, manifest>>
    BY <1>1 DEF StartCleanup, Idle
  <2> QED
    BY <2>1, OutsideKeepsStubs
<1>2. CASE \/ DeleteListed \/ DropManifest \/ SweepFile \/ SweepDone \/ RetractLinks \/ Prune
           \/ CrashCleanup
  <2>1. job.kind \in {"clean", "sweep"} /\ ~settled /\ settled' = settled
    BY <1>2 DEF DeleteListed, DropManifest, SweepFile, SweepDone, RetractLinks, Prune, CrashCleanup,
                StubInv, TypeInv, Phases, CurrentInv, Idle
  <2>2. job'.kind # "generate"
    BY <1>2, <2>1 DEF DeleteListed, DropManifest, SweepFile, SweepDone, RetractLinks, Prune,
                CrashCleanup, StubInv, TypeInv, TypeOK, Idle
  <2>3. known' \subseteq known /\ (known' # {} => manifest' = manifest)
    BY <1>2 DEF DeleteListed, DropManifest, SweepFile, SweepDone, RetractLinks, Prune, CrashCleanup
  <2>4. \A p \in Paths : disk'[p] \in {disk[p], Absent}
    BY <1>2 DEF DeleteListed, DropManifest, SweepFile, SweepDone, RetractLinks, Prune, CrashCleanup,
                StubInv, TypeInv, TypeOK
  <2>5. \A p \in known : disk'[p] \in {disk[p], Absent, Custom}
    BY <2>4, KnownPaths DEF StubInv
  <2> QED
    BY <2>1, <2>2, <2>3, <2>5, OutsideKeepsStubs
<1> QED
  BY <1>1, <1>2

LEMMA NextKeepsStubs ==
  ASSUME StubInv, [Next]_vars
  PROVE  StubInv'
<1>1. TypeInv'
  BY NextKeepsTypes DEF StubInv
<1>2. CASE Next
  BY <1>1, <1>2, EditSchemaKeepsStubs, EditFileKeepsStubs, StartGenerateKeepsStubs,
     WriteFileKeepsStubs, MovingOnKeepsStubs, AbandonKeepsStubs, SaveManifestKeepsStubs,
     CleanupKeepsStubs DEF Next
<1>3. CASE UNCHANGED vars
  BY <1>1, <1>3 DEF vars, StubInv, KnownInv, CurrentInv, GateInv, Covered, Past, Readable, Idle,
     UntouchedStubsAreCurrent, Lopsided, Implemented
<1> QED
  BY <1>2, <1>3

LEMMA AlwaysStubs == Spec => []StubInv
<1>1. Init => StubInv
  BY InitStubs
<1>2. StubInv /\ [Next]_vars => StubInv'
  BY NextKeepsStubs
<1> QED
  BY <1>1, <1>2, PTL DEF Spec

(* After a complete generate a stub nobody edited shows today's schema.    *)
THEOREM StubsFollowTheSchema == Spec => []UntouchedStubsAreCurrent
<1>1. StubInv => UntouchedStubsAreCurrent
  BY DEF StubInv, CurrentInv
<1> QED
  BY <1>1, AlwaysStubs, PTL

(* Only saving the manifest settles the tree. *)
LEMMA OnlySavingSettles ==
  ASSUME TypeInv, [Next]_vars, settled', ~settled
  PROVE  SaveManifest
<1>1. CASE UNCHANGED vars
  BY <1>1 DEF vars
<1>2. CASE EditSchema \/ (\E p \in Paths : EditFile(p)) \/ StartGenerate \/ WriteFile
  BY <1>2 DEF EditSchema, EditFile, StartGenerate, WriteFile
<1>3. CASE DropStale \/ AddLinks \/ HookGateFails \/ HookGatePasses \/ CrashGenerate
  BY <1>3 DEF DropStale, AddLinks, HookGateFails, HookGatePasses, CrashGenerate, Abandon
<1>4. CASE \/ (\E keep \in BOOLEAN : StartCleanup(keep)) \/ DeleteListed \/ DropManifest
           \/ SweepFile \/ SweepDone \/ RetractLinks \/ Prune \/ CrashCleanup
  BY <1>4 DEF StartCleanup, DeleteListed, DropManifest, SweepFile, SweepDone, RetractLinks, Prune,
              CrashCleanup
<1> QED
  BY <1>1, <1>2, <1>3, <1>4 DEF Next

LEMMA SavingFindsBalance ==
  ASSUME StubInv, SaveManifest, NEW e \in Present(schema),
         "proxy" \notin schema[e], "edit" \in schema[e],
         Hook(e, "lib/service_after_create.ts") \in known,
         Hook(e, "lib/service_after_update.ts") \in known,
         disk[Hook(e, "lib/service_after_create.ts")] = Custom
  PROVE  disk[Hook(e, "lib/service_after_update.ts")] = Custom
<1> DEFINE create == Hook(e, "lib/service_after_create.ts")
           update == Hook(e, "lib/service_after_update.ts")
<1>1. create \in Paths /\ update \in Paths
  BY KnownPaths DEF StubInv
<1>2. e \in Entities /\ schema[e] # Gone /\ ~Lopsided(e)
  BY DEF Present, SaveManifest, StubInv, GateInv
<1>3. \A p \in Paths : recorder.history[p] \subseteq Renders
  BY DEF StubInv, TypeInv, TypeOK, Manifests
<1>4. Implemented(create)
  BY <1>1, <1>3, CustomIsNoRender DEF Implemented
<1>5. disk[update] \notin recorder.history[update]
  BY <1>1, <1>2, <1>4 DEF Lopsided, Implemented
<1>6. job.kind = "generate" /\ job.todo = {}
  BY DEF SaveManifest, StubInv, TypeInv, Phases, CurrentInv
<1>7. disk[update] \in {Absent, Custom}
  BY <1>5, <1>6 DEF StubInv, KnownInv, Covered
<1>8. update \in Expected(schema)
  <2>1. e # Shared
    BY <1>2, ValuesAssumption DEF Entities, Shared
  <2>2. "lib/service_after_update.ts" \in Tracked
    BY <1>1, <2>1 DEF Paths, Expected, Hook
  <2>3. "lib/service_after_update.ts" \in EntityFiles(schema[e])
    BY DEF EntityFiles, HookFiles, When
  <2>4. update[1] = e /\ update[2] = "lib/service_after_update.ts" /\ update \in Present(schema) \X Tracked
    BY <2>2 DEF Hook
  <2> QED
    BY <2>3, <2>4 DEF Expected
<1>9. disk[update] \in {Custom, Rendered(schema, update)}
  BY <1>6, <1>8 DEF StubInv, CurrentInv
<1> QED
  BY <1>7, <1>9, RenderedIsRender, ValuesAssumption

(* No complete generate leaves a hand-written create hook beside an        *)
(* untouched update hook of an edit that is on.                            *)
THEOREM HooksStayBalanced == Spec => HooksAreBalanced
<1> DEFINE Balanced ==
      settled' /\ ~settled =>
        \A e \in Present(schema) :
          LET create == Hook(e, "lib/service_after_create.ts")
              update == Hook(e, "lib/service_after_update.ts")
          IN  /\ "proxy" \notin schema[e] /\ "edit" \in schema[e]
              /\ {create, update} \subseteq known'
              /\ disk'[create] = Custom
              => disk'[update] = Custom
<1>1. StubInv /\ [Next]_vars => Balanced
  <2> SUFFICES ASSUME StubInv, [Next]_vars, settled', ~settled PROVE Balanced
    OBVIOUS
  <2>1. SaveManifest
    BY OnlySavingSettles DEF StubInv
  <2>2. disk' = disk /\ known' \subseteq known
    BY <2>1 DEF SaveManifest
  <2> QED
    BY <2>1, <2>2, SavingFindsBalance
<1> QED
  BY <1>1, AlwaysStubs, PTL DEF Spec, HooksAreBalanced

-----------------------------------------------------------------------------
(* In the documented order nothing generated is left behind.  While a run  *)
(* is at work the manifest lags behind the disk, so the invariant says for *)
(* each tool where an untouched file is on record: generate's recorder, or *)
(* the manifest and, during a cleanup, the files it has yet to come to.  A *)
(* sweep, and a cleanup past its list, find none.                          *)
Regenerated == {p \in Paths \ StubPaths : ~Protected(p)}

OnRecord(p) ==
  /\ job.kind = "none" => Readable(manifest) /\ manifest.sha[p] = disk[p]
  /\ job.kind = "generate" => recorder.sha[p] = disk[p]
  /\ job.kind = "clean" =>
       job.step = "delete" /\ p \in job.todo /\ manifest.sha[p] = disk[p]
  /\ job.kind # "sweep"

RecordInv == orderly => \A p \in Regenerated : disk[p] \in Renders => OnRecord(p)

LEMMA NoRenders ==
  Custom \notin Renders /\ Absent \notin Renders /\ Unlisted \notin Renders
BY ValuesAssumption

LEMMA UsersKeepRecords ==
  ASSUME TypeInv, RecordInv, EditSchema \/ \E p \in Paths : EditFile(p)
  PROVE  RecordInv'
<1>1. CASE EditSchema
  BY <1>1 DEF EditSchema, RecordInv, OnRecord, Readable
<1>2. ASSUME NEW p \in Paths, EditFile(p)
      PROVE  RecordInv'
  <2>1. UNCHANGED <<manifest, job, recorder, orderly>>
    BY <1>2 DEF EditFile
  <2>2. \A q \in Paths : disk'[q] \in Renders => disk'[q] = disk[q]
    BY <1>2, NoRenders DEF EditFile, TypeInv, TypeOK
  <2> QED
    BY <2>1, <2>2 DEF RecordInv, OnRecord, Regenerated, Readable
<1> QED
  BY <1>1, <1>2

(* An orderly generate begins without a manifest, so on a tree without     *)
(* untouched files.                                                        *)
LEMMA StartGenerateKeepsRecords ==
  ASSUME TypeInv, RecordInv, StartGenerate
  PROVE  RecordInv'
<1>1. orderly' => orderly /\ ~Readable(manifest) /\ job.kind = "none"
  BY DEF StartGenerate, Readable, Idle, TypeInv, TypeOK
<1>2. disk' = disk
  BY DEF StartGenerate
<1> QED
  BY <1>1, <1>2 DEF RecordInv, OnRecord, Regenerated

LEMMA WriteFileKeepsRecords ==
  ASSUME TypeInv, RecordInv, WriteFile
  PROVE  RecordInv'
<1>1. PICK p \in job.todo :
        /\ recorder' = Recorded(p, Rendered(schema, p))
        /\ disk' = [disk EXCEPT ![p] = Written(p, Rendered(schema, p), recorder'.history[p])]
        /\ job' = [job EXCEPT !.todo = @ \ {p}]
  BY DEF WriteFile
<1>2. job.kind = "generate" /\ job'.kind = "generate" /\ orderly' = orderly
  BY <1>1 DEF WriteFile, TypeInv, TypeOK, Phases
<1>3. recorder'.sha = [recorder.sha EXCEPT ![p] = Rendered(schema, p)]
  BY <1>1 DEF Recorded
<1>4. ASSUME NEW q \in Regenerated, orderly, disk'[q] \in Renders
      PROVE  recorder'.sha[q] = disk'[q]
  <2>1. q \in Paths /\ q \notin StubPaths
    BY <1>4 DEF Regenerated
  <2>2. disk \in [Paths -> Contents \cup {Absent}] /\ recorder.sha \in [Paths -> Renders \cup {Unlisted}]
    BY DEF TypeInv, TypeOK, Manifests
  <2>3. CASE p = q
    BY <1>1, <1>3, <2>1, <2>2, <2>3 DEF Written
  <2>4. CASE p # q
    <3>1. disk'[q] = disk[q] /\ recorder'.sha[q] = recorder.sha[q]
      BY <1>1, <1>3, <2>2, <2>4
    <3> QED
      BY <1>2, <1>4, <3>1 DEF RecordInv, OnRecord
  <2> QED
    BY <2>3, <2>4
<1> QED
  BY <1>2, <1>4 DEF RecordInv, OnRecord

LEMMA GeneratingKeepsRecords ==
  ASSUME TypeInv, RecordInv, DropStale \/ AddLinks \/ HookGatePasses
  PROVE  RecordInv'
<1>1. job.kind = "generate" /\ job'.kind = "generate" /\ UNCHANGED <<recorder, orderly>>
  BY DEF DropStale, AddLinks, HookGatePasses, TypeInv, TypeOK, Phases
<1>2. \A q \in Paths : disk'[q] \in Renders => disk'[q] = disk[q]
  BY NoRenders DEF DropStale, AddLinks, HookGatePasses
<1> QED
  BY <1>1, <1>2 DEF RecordInv, OnRecord, Regenerated

LEMMA SaveManifestKeepsRecords ==
  ASSUME TypeInv, RecordInv, SaveManifest
  PROVE  RecordInv'
<1>1. TypeInv'
  BY SaveManifestKeepsTypes
<1>2. job.kind = "generate" /\ job'.kind = "none" /\ UNCHANGED <<disk, orderly>>
  BY DEF SaveManifest, TypeInv, Phases, Idle
<1>3. manifest' \in Manifests /\ manifest'.sha = recorder.sha
  <2> DEFINE H == [p \in Paths |-> IF recorder.sha[p] = Unlisted THEN {} ELSE recorder.history[p]]
  <2>1. manifest' = [recorder EXCEPT !.history = H]
    BY DEF SaveManifest
  <2>2. H \in [Paths -> SUBSET Renders]
    BY DEF TypeInv, TypeOK, Manifests
  <2> HIDE DEF H
  <2> QED
    BY <2>1, <2>2 DEF TypeInv, TypeOK, Manifests
<1>4. Readable(manifest')
  BY <1>3, ValuesAssumption DEF Readable
<1> QED
  BY <1>2, <1>3, <1>4 DEF RecordInv, OnRecord, Readable

(* A cleanup goes through all that the manifest lists; without one there   *)
(* is nothing to find.                                                     *)
LEMMA StartCleanupKeepsRecords ==
  ASSUME TypeInv, RecordInv, NEW keep \in BOOLEAN, StartCleanup(keep)
  PROVE  RecordInv'
<1>1. job.kind = "none" /\ UNCHANGED <<disk, manifest, orderly>>
  BY DEF StartCleanup, Idle
<1>2. CASE manifest = NoManifest
  BY <1>1, <1>2 DEF RecordInv, OnRecord, Readable
<1>3. CASE manifest # NoManifest
  <2>1. job' = [kind |-> "clean", step |-> "delete", keep |-> keep,
                todo |-> {p \in Paths : manifest.sha[p] # Unlisted}]
    BY <1>3 DEF StartCleanup
  <2>2. ASSUME NEW p \in Regenerated, orderly, disk[p] \in Renders
        PROVE  manifest.sha[p] = disk[p] /\ p \in job'.todo
    <3>1. manifest.sha[p] = disk[p] /\ p \in Paths
      BY <1>1, <2>2 DEF RecordInv, OnRecord, Regenerated
    <3> QED
      BY <2>1, <2>2, <3>1, NoRenders
  <2> QED
    BY <1>1, <2>1, <2>2 DEF RecordInv, OnRecord
<1> QED
  BY <1>2, <1>3

LEMMA DeleteListedKeepsRecords ==
  ASSUME TypeInv, RecordInv, DeleteListed
  PROVE  RecordInv'
<1>1. PICK p \in job.todo :
        /\ disk' = IF Deletable(p) THEN [disk EXCEPT ![p] = Absent] ELSE disk
        /\ job' = [job EXCEPT !.todo = @ \ {p}]
  BY DEF DeleteListed
<1>2. /\ job.kind = "clean" /\ job'.kind = "clean" /\ job'.step = "delete"
      /\ job'.todo = job.todo \ {p} /\ UNCHANGED <<manifest, orderly>>
  BY <1>1 DEF DeleteListed, TypeInv, TypeOK
<1>3. ASSUME NEW q \in Regenerated, orderly, disk'[q] \in Renders
      PROVE  q \in job.todo \ {p} /\ manifest.sha[q] = disk'[q]
  <2>1. q \in Paths /\ disk \in [Paths -> Contents \cup {Absent}]
    BY DEF Regenerated, TypeInv, TypeOK
  <2>2. disk'[q] = disk[q]
    BY <1>1, <1>3, <2>1, NoRenders
  <2>3. q \in job.todo /\ manifest.sha[q] = disk[q]
    BY <1>2, <1>3, <2>2 DEF RecordInv, OnRecord
  <2>4. q = p => Deletable(p)
    BY <1>3, <2>3 DEF Deletable, Regenerated
  <2>5. q # p
    BY <1>1, <1>3, <2>1, <2>4, NoRenders
  <2> QED
    BY <2>2, <2>3, <2>5
<1> QED
  BY <1>2, <1>3 DEF RecordInv, OnRecord

(* The other steps of a cleanup find no untouched file and write none.     *)
LEMMA RestOfCleanupKeepsRecords ==
  ASSUME TypeInv, RecordInv, DropManifest \/ SweepFile \/ SweepDone \/ RetractLinks \/ Prune
  PROVE  RecordInv'
<1>1. /\ orderly' = orderly
      /\ \/ job.kind = "sweep"
         \/ job.kind = "clean" /\ (job.step # "delete" \/ job.todo = {})
  BY DEF DropManifest, SweepFile, SweepDone, RetractLinks, Prune, TypeInv, Phases
<1>2. \A q \in Regenerated : orderly => disk[q] \notin Renders
  BY <1>1 DEF RecordInv, OnRecord
<1>3. \A q \in Paths : disk'[q] \in Renders => disk'[q] = disk[q]
  BY NoRenders DEF DropManifest, SweepFile, SweepDone, RetractLinks, Prune, TypeInv, TypeOK
<1> QED
  BY <1>1, <1>2, <1>3 DEF RecordInv, Regenerated

(* A cleanup that fails leaves the manifest with all it had yet to delete. *)
LEMMA CrashCleanupKeepsRecords ==
  ASSUME TypeInv, RecordInv, CrashCleanup
  PROVE  RecordInv'
<1>1. job'.kind = "none" /\ job.kind \in {"clean", "sweep"} /\ UNCHANGED <<disk, manifest, orderly>>
  BY DEF CrashCleanup, Idle
<1>2. job.kind = "clean" /\ job.step = "delete" => Readable(manifest)
  BY DEF TypeInv, TypeOK
<1> QED
  BY <1>1, <1>2 DEF RecordInv, OnRecord, Readable

LEMMA NextKeepsRecords ==
  ASSUME TypeInv, RecordInv, [Next]_vars
  PROVE  RecordInv'
<1>1. CASE UNCHANGED vars
  BY <1>1 DEF vars, RecordInv, OnRecord, Readable
<1>2. CASE HookGateFails \/ CrashGenerate
  BY <1>2 DEF HookGateFails, CrashGenerate, Abandon, RecordInv
<1>3. CASE Next /\ ~(HookGateFails \/ CrashGenerate)
  BY <1>3, UsersKeepRecords, StartGenerateKeepsRecords, WriteFileKeepsRecords,
     GeneratingKeepsRecords, SaveManifestKeepsRecords, StartCleanupKeepsRecords,
     DeleteListedKeepsRecords, RestOfCleanupKeepsRecords, CrashCleanupKeepsRecords DEF Next
<1> QED
  BY <1>1, <1>2, <1>3

(* With a cleanup before each generate, and no generate that failed, every *)
(* untouched regenerated file outside HANDWRITTEN_ALLOWLIST is listed as   *)
(* it stands, whatever the schemas in between and however often a cleanup  *)
(* failed half way: the next cleanup finds all of them.                    *)
THEOREM NothingLeftBehind == Spec => []NoLeftovers
<1>1. Init => RecordInv
  BY NoRenders DEF Init, RecordInv, Regenerated
<1>2. TypeInv /\ RecordInv /\ [Next]_vars => RecordInv'
  BY NextKeepsRecords
<1>3. RecordInv => NoLeftovers
  BY DEF RecordInv, OnRecord, NoLeftovers, Regenerated, Idle
<1> QED
  BY <1>1, <1>2, <1>3, AlwaysTypes, PTL DEF Spec

-----------------------------------------------------------------------------
(* What a complete run leaves. *)

(* No file is written and unlinked as stale by one and the same run.        *)
LEMMA StaleFeatures ==
  ASSUME NEW S
  PROVE  FeatureFiles(S, FALSE) \cap FeatureFiles(S, TRUE) = {}
BY DEF FeatureFiles, MobileFeatures

(* The files of the web app but for those of the search and its indexes.    *)
WebFiles(S) ==
  UNION {DashboardFiles(S), AttachmentFiles(S), ConstantFiles(S), PrivacyFiles(S),
         MentionFiles(S), CheckoutFiles(S), AuditFiles(S), CommentFiles(S), DispatchFiles,
         BulkTaskFiles(S), SchedulerFiles(S), DocumentFiles, TestSupportFiles(S),
         ContainerFiles(S)}

LEMMA StaleIsNotWritten ==
  ASSUME NEW S
  PROVE  StaleFiles(S) \cap SharedFiles(S) = {}
<1> SUFFICES ASSUME NEW n \in StaleFiles(S), n \in SharedFiles(S)
             PROVE  FALSE
  OBVIOUS
<1>1. n \in WebFiles(S) \cup SearchFiles(S) \cup IndexFiles(S) \cup AppFiles(S)
  BY DEF SharedFiles, WebFiles
<1>2. n \notin WebFiles(S)
  BY DEF StaleFiles, StaleSearchFiles, SearchRoutes, StaleMobileFiles, FeatureFiles,
         MobileFeatures, When, WebFiles, DashboardFiles, AttachmentFiles, ConstantFiles,
         PrivacyFiles, MentionFiles, CheckoutFiles, AuditFiles, CommentFiles, DispatchFiles,
         BulkTaskFiles, SchedulerFiles, TaskAdminFiles, DocumentFiles, TestSupportFiles,
         ContainerFiles
<1>3. n \notin SearchFiles(S) \cup IndexFiles(S)
  BY DEF StaleFiles, StaleSearchFiles, SearchRoutes, StaleMobileFiles, FeatureFiles,
         MobileFeatures, When, SearchFiles, IndexFiles, Indexed
<1>4. n \notin AppFiles(S)
  <2>1. CASE n \in StaleMobileFiles(S)
    BY <2>1, StaleFeatures DEF StaleMobileFiles, AppFiles, FeatureFiles, MobileFeatures, When, MobileProject,
       CommentScreens, ApprovalScreens, MobileFlows
  <2>2. CASE n \in StaleSearchFiles(S)
    BY <2>2 DEF StaleSearchFiles, SearchRoutes, AppFiles, FeatureFiles, MobileFeatures, When,
       MobileProject, CommentScreens, ApprovalScreens, MobileFlows
  <2> QED
    BY <2>1, <2>2 DEF StaleFiles
<1> QED
  BY <1>1, <1>2, <1>3, <1>4

InPlace(p) ==
  /\ disk[p] # Absent
  /\ p \notin StubPaths => disk[p] \in {Custom, Rendered(schema, p)}

(* What generate has passed is in place, and stays so until the next tool   *)
(* or schema.                                                               *)
PlaceInv ==
  /\ job.kind = "generate" => \A p \in Expected(schema) \ job.todo : InPlace(p)
  /\ CompleteRunIsCurrent

LEMMA StaleIsUnexpected ==
  ASSUME NEW p \in Expected(schema)
  PROVE  ~Stale(p)
<1>1. CASE p[1] = Shared
  <2>1. p[2] \in SharedFiles(Configs(schema))
    BY <1>1, ValuesAssumption DEF Expected, Present, Entities, Shared
  <2> QED
    BY <2>1, StaleIsNotWritten DEF Stale
<1>2. CASE p[1] # Shared
  BY <1>2 DEF Stale
<1> QED
  BY <1>1, <1>2

LEMMA EditFileKeepsPlaces ==
  ASSUME StubInv, PlaceInv, NEW q \in Paths, EditFile(q)
  PROVE  PlaceInv'
<1>1. /\ UNCHANGED <<schema, job, settled>> /\ job = Idle
      /\ \A p \in Paths : disk'[p] \in {disk[p], Custom}
  BY DEF EditFile, StubInv, TypeInv, TypeOK
<1>2. Custom # Absent
  BY ValuesAssumption
<1>3. \A p \in Expected(schema) : InPlace(p) => InPlace(p)'
  BY <1>1, <1>2, ExpectedPaths DEF InPlace, StubInv, TypeInv, TypeOK
<1> QED
  BY <1>1, <1>3 DEF PlaceInv, CompleteRunIsCurrent, InPlace, Idle

LEMMA WriteFileKeepsPlaces ==
  ASSUME StubInv, PlaceInv, WriteFile
  PROVE  PlaceInv'
<1>1. PICK p \in job.todo :
        /\ recorder' = Recorded(p, Rendered(schema, p))
        /\ disk' = [disk EXCEPT ![p] = Written(p, Rendered(schema, p), recorder'.history[p])]
        /\ job' = [job EXCEPT !.todo = @ \ {p}]
  BY DEF WriteFile
<1>2. /\ job.kind = "generate" /\ job'.kind = "generate" /\ ~settled /\ ~settled'
      /\ job'.todo = job.todo \ {p} /\ UNCHANGED schema
  BY <1>1 DEF WriteFile, StubInv, TypeInv, TypeOK, Phases, CurrentInv, Idle
<1>3. p \in Paths /\ disk \in [Paths -> Contents \cup {Absent}]
  BY DEF StubInv, TypeInv, TypeOK
<1>4. Rendered(schema, p) # Absent
  BY RenderedIsRender, NoRenders
<1>5. disk'[p] = Written(p, Rendered(schema, p), recorder'.history[p])
  BY <1>1, <1>3
<1>6. InPlace(p)'
  BY <1>2, <1>4, <1>5 DEF InPlace, Written
<1>7. ASSUME NEW q \in Expected(schema) \ job.todo, q # p PROVE InPlace(q)'
  <2>1. disk'[q] = disk[q] /\ InPlace(q)
    BY <1>1, <1>2, <1>3, <1>7, ExpectedPaths DEF PlaceInv, StubInv, TypeInv, TypeOK
  <2> QED
    BY <1>2, <2>1 DEF InPlace
<1> QED
  BY <1>2, <1>6, <1>7 DEF PlaceInv, CompleteRunIsCurrent

(* A step of generate after its last file, the end of the run included.     *)
LEMMA MovingOnKeepsPlaces ==
  ASSUME StubInv, PlaceInv, DropStale \/ AddLinks \/ HookGatePasses \/ SaveManifest
  PROVE  PlaceInv'
<1>1. /\ UNCHANGED schema /\ job.kind = "generate" /\ job.todo = {}
  BY DEF DropStale, AddLinks, HookGatePasses, SaveManifest, StubInv, TypeInv, TypeOK, Phases,
         CurrentInv, Idle
<1>2. \A p \in Expected(schema) : disk'[p] = disk[p] /\ InPlace(p)
  <2> SUFFICES ASSUME NEW p \in Expected(schema) PROVE disk'[p] = disk[p] /\ InPlace(p)
    OBVIOUS
  <2>1. p \in Paths /\ ~Stale(p)
    BY ExpectedPaths, StaleIsUnexpected DEF StubInv, TypeInv, TypeOK
  <2> QED
    BY <1>1, <2>1 DEF DropStale, AddLinks, HookGatePasses, SaveManifest, PlaceInv
<1>3. \A p \in Expected(schema) : InPlace(p)'
  BY <1>1, <1>2 DEF InPlace
<1> QED
  BY <1>1, <1>3 DEF PlaceInv, CompleteRunIsCurrent, InPlace

LEMMA NextKeepsPlaces ==
  ASSUME StubInv, PlaceInv, [Next]_vars
  PROVE  PlaceInv'
<1>1. CASE UNCHANGED vars
  BY <1>1 DEF vars, PlaceInv, CompleteRunIsCurrent, InPlace
<1>2. CASE StartGenerate
  BY <1>2 DEF StartGenerate, PlaceInv, CompleteRunIsCurrent, Idle
<1>3. CASE EditSchema \/ HookGateFails \/ CrashGenerate \/ \E keep \in BOOLEAN : StartCleanup(keep)
  <2>1. ~settled' /\ job'.kind # "generate"
    BY <1>3 DEF EditSchema, HookGateFails, CrashGenerate, Abandon, StartCleanup, Idle
  <2> QED
    BY <2>1 DEF PlaceInv, CompleteRunIsCurrent
<1>4. CASE DeleteListed \/ DropManifest \/ SweepFile \/ SweepDone \/ RetractLinks \/ Prune \/ CrashCleanup
  <2>1. job.kind \in {"clean", "sweep"} /\ settled' = settled
    BY <1>4 DEF DeleteListed, DropManifest, SweepFile, SweepDone, RetractLinks, Prune, CrashCleanup,
                StubInv, TypeInv, Phases
  <2>2. ~settled'
    BY <2>1 DEF StubInv, CurrentInv, Idle
  <2>3. job'.kind # "generate"
    BY <1>4, <2>1 DEF DeleteListed, DropManifest, SweepFile, SweepDone, RetractLinks, Prune,
                      CrashCleanup, StubInv, TypeInv, TypeOK, Idle
  <2> QED
    BY <2>2, <2>3 DEF PlaceInv, CompleteRunIsCurrent
<1> QED
  BY <1>1, <1>2, <1>3, <1>4, EditFileKeepsPlaces, WriteFileKeepsPlaces, MovingOnKeepsPlaces DEF Next

(* After a complete generate, whatever came before it (other schemas, runs  *)
(* and cleanups that failed, a torn manifest), every file the schema calls  *)
(* for is there and as the schema renders it, save for what users edited.   *)
THEOREM CompleteRunsLeaveAll == Spec => []CompleteRunIsCurrent
<1>1. Init => PlaceInv
  BY DEF Init, PlaceInv, CompleteRunIsCurrent, Idle
<1>2. StubInv /\ PlaceInv /\ [Next]_vars => PlaceInv'
  BY NextKeepsPlaces
<1>3. PlaceInv => CompleteRunIsCurrent
  BY DEF PlaceInv
<1> QED
  BY <1>1, <1>2, <1>3, AlwaysStubs, PTL DEF Spec
=============================================================================
