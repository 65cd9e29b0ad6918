CONSTANTS
  EntityCount = 2
  Tracked = {"lib/types.ts", "lib/service_after_create.ts", "lib/service_after_update.ts", "lib/invalidate_handler.ts", "components/column_def.tsx"}
  TrackedShared = {"lib/search/helpers.ts", "lib/attachment/access.ts", "mobile/lib/checkout.ts", "lib/reaction_constants.ts"}
  Name <- Names
  Schemas <- TwoEntities
  MaxRuns = 3
  MaxEdits = 1
  MaxSchemas = 2
  Crashes = TRUE
  FromScratch = TRUE
  Gone = {"gone"}
  Absent = {"absent"}
  Custom = {"by hand"}
  NoLink = "none"
  NoManifest = NoManifest
  Torn = Torn
  Unlisted = {"unlisted"}
SPECIFICATION Spec
INVARIANTS TypeOK NoLeftovers
PROPERTIES StubEditsKept EditsKeptByManifest
CHECK_DEADLOCK FALSE
