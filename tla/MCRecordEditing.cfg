CONSTANTS
  Relations <- Usual
  Masters = {p, q}
  Lines = {a, b, c}
  Sessions = {s1, s2}
  MaxBatch = 1
  Overlap = FALSE
  OwnParent = FALSE
SPECIFICATION Spec
SYMMETRY Interchangeable
INVARIANTS TypeOK NoCycles DeletedOnce
PROPERTY TakenOrOverlooked
CHECK_DEADLOCK FALSE
