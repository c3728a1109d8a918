SPECIFICATION FairSpec
CONSTANTS
  Last = 2
  MaxPublications = 2
  MaxCrashes = 2
  MaxExpiries = 1
  MaxAborts = 1
  MaxForeign = 1
INVARIANTS TypeOK GuardsHeld ReleasedAtEnd
PROPERTIES AtomicSwitch RecoveryEnds
CHECK_DEADLOCK FALSE
