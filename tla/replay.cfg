SPECIFICATION Spec
CONSTANTS
  d1 = d1
  d2 = d2
  q = q
  Processes = {d1, q}
  Daemons = {d1}
  NoOwner = nobody
  NoWorker = nobody
  NoProject = nowhere
  Projects = {p1, p2}
  HomeProject = p1
  Events = {1, 2}
  Resources <- MCResources
  Unsafe <- MCUnsafe
  Unsupported <- MCUnsupported
  BatchSize = 2
  QuarantineAfter = 2
  MaxTrouble = 2
INVARIANTS ReplayObserved
CHECK_DEADLOCK FALSE
