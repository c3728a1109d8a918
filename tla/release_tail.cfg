SPECIFICATION FairSpec
CONSTANTS
  Last = 1
  MaxPublications = 1
  MaxCrashes = 2
  MaxExpiries = 2
  MaxAborts = 0
  MaxForeign = 0
PROPERTIES RecoveryEnds
CHECK_DEADLOCK FALSE
