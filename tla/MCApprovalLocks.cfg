CONSTANTS
  f1 = f1
  f2 = f2
  s1 = s1
  s2 = s2
  s3 = s3
  NoSession = NoSession
  Flows = {f1, f2}
  PrecededBy <- Parallel
  Sessions = {s1, s2, s3}
  MaxRounds = 2
  MaxRequests = 5
  TerminalReject = FALSE
  HasOnWithdrawn = TRUE
  Splittable = TRUE
SPECIFICATION Spec
CHECK_DEADLOCK FALSE
SYMMETRY SessionSymmetry
INVARIANTS TypeOK CirclesExplained
PROPERTY OnlyPendingCancelled
