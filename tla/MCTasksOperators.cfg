CONSTANTS
  a = a
  b = b
  c = c
  r1 = r1
  r2 = r2
  p1 = p1
  p2 = p2
  Tasks = {a, b}
  Declared <- Pair
  DependsOn <- AThenB
  NotDue = {a}
  Rows = {r1, r2}
  RowsOf <- ScanOfA
  Processes = {p1, p2}
  Modes = {"route", "run_all", "run", "rerun", "resolve", "skip"}
  MaxCrashes = 1
SPECIFICATION Spec
SYMMETRY Symmetry
INVARIANT RowHandledOnce
