SPECIFICATION FairSpec
CONSTANTS
  Ids = {i1, i2}
  Requests = {r1, r2}
  LeaseTicks = 1
  MaxTombstones = 1
  MaxStarts = 3
INVARIANTS TypeOK CountsMatch DrainProof ShutdownDrained
PROPERTIES CancelWins AbandonedDrains RequestsEnd
CHECK_DEADLOCK FALSE
