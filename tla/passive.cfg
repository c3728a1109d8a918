SPECIFICATION FairSpec
CONSTANTS
  d1 = d1
  d2 = d2
  q = q
  Processes = {d1, d2}
  Daemons = {d1, d2}
  NoOwner = nobody
  NoWorker = nobody
  NoProject = nowhere
  Projects = {p1, p2}
  HomeProject = p1
  Events = {1, 2}
  Resources <- MCResources
  Unsafe <- MCUnsafe
  Unsupported <- MCUnsupported
  BatchSize = 2
  QuarantineAfter = 2
  MaxTrouble = 2
INVARIANTS TypeOK AcknowledgedIsApplied AppliedOnce AppliedInOrder PrunedIsGone
PROPERTIES FenceMonotone Delivered
CHECK_DEADLOCK FALSE
