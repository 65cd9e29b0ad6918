CONSTANTS
  r1 = r1
  r2 = r2
  r3 = r3
  t1 = t1
  t2 = t2
  NoRecord = NoRecord
  AnyLot = AnyLot
  Records = {r1, r2, r3}
  Pools <- TwoRows
  Tx = {t1, t2}
  Stock <- OneEach
  Quantities = {1, 2}
  Adjustments <- FirstRow
  MinStock = 1
  MaxStock = 2
  Configs <- Declarations
SPECIFICATION Spec
CHECK_DEADLOCK FALSE
SYMMETRY Symmetric
INVARIANTS TypeOK NeverOverbooked CacheIsSum HeldInFull
