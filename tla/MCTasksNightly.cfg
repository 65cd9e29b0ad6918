CONSTANTS
  a = a
  b = b
  c = c
  r1 = r1
  r2 = r2
  p1 = p1
  p2 = p2
  Tasks = {a, b, c}
  Declared <- Backwards
  DependsOn <- AThenB
  NotDue = {c}
  Rows = {r1, r2}
  RowsOf <- ScanOfA
  Processes = {p1, p2}
  Modes = {"route", "run_all"}
  MaxCrashes = 1
SPECIFICATION FairSpec
INVARIANTS TypeOK ExclusiveRun CompletesOnce RunsInOrder
PROPERTIES NightCompletes RefinesNight
