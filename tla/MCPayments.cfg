CONSTANTS
  Records = {r}
  Sessions = {s}
  Workers = {w1, w2, w3}
  Buckets = {1}
  Placeholder = Placeholder
  NoRecord = NoRecord
  Replays = TRUE
  MaxFailures = 1
SPECIFICATION FairSpec
INVARIANTS TypeOK SettledByStripe
PROPERTIES PaidIsConfirmed ProvisionalEnds
CHECK_DEADLOCK FALSE
