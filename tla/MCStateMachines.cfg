SPECIFICATION Spec
CONSTANTS
  draft = draft
  sent = sent
  done = done
  refused = refused
  recalled = recalled
  States = {draft, sent, done, refused, recalled}
  Schemas <- MCSchemas
  Editors = {e1, e2}
  Null = Null
  Omitted = Omitted
  NoRow = NoRow
INVARIANTS
  TypeOK
  NeverStuck
PROPERTIES
  DecidedStays
CHECK_DEADLOCK FALSE
