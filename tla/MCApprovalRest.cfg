CONSTANTS
  f1 = f1
  f2 = f2
  f3 = f3
  u1 = u1
  u2 = u2
  s1 = s1
  s2 = s2
  NoUser = NoUser
  Flows = {f1, f2, f3}
  PrecededBy <- Join
  Users = {u1}
  FlowsFor <- AllFlows
  Sessions = {s1, s2}
  EntryPoints = {"rest"}
  MaxRounds = 2
  TerminalReject = TRUE
  HasOnWithdrawn = TRUE
  Splittable = FALSE
  ProxyView = FALSE
  ClientRule = FALSE
  SameSecond = FALSE
SPECIFICATION Spec
CHECK_DEADLOCK FALSE
SYMMETRY SessionSymmetry
INVARIANTS OneOpenRound FinalOnce CompletedIsFinal TurnAnnounced
