CONSTANTS
  Identities = {i1, i2}
  Versions = {v1, v2, v3}
  NoVersion = none
  NoIdentity = nobody
  Sessions = {s1, s2}
  Terminal = TRUE
  StaleWrites = FALSE
SPECIFICATION Spec
SYMMETRY Interchangeable
INVARIANTS TypeOK CurrentIsNewest
PROPERTY RefinesHistory
CHECK_DEADLOCK FALSE
