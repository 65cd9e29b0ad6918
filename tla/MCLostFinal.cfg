CONSTANTS
  f1 = f1
  f2 = f2
  f3 = f3
  u1 = u1
  u2 = u2
  s1 = s1
  s2 = s2
  NoUser = NoUser
  Flows = {f1, f2}
  PrecededBy <- Parallel
  Users = {u1}
  FlowsFor <- AllFlows
  Sessions = {s1, s2}
  EntryPoints = {"action"}
  MaxRounds = 1
  TerminalReject = FALSE
  HasOnWithdrawn = TRUE
  Splittable = FALSE
  ProxyView = FALSE
  ClientRule = TRUE
  SameSecond = FALSE
SPECIFICATION Spec
CHECK_DEADLOCK FALSE
SYMMETRY SessionSymmetry
INVARIANT CompletedIsFinal
