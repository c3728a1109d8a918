SPECIFICATION Spec
CONSTANTS
  MaxList = 5
  MaxRows = 6
INVARIANTS TypeOK StoredOnce NothingSkipped
PROPERTIES SlotsStable
CHECK_DEADLOCK FALSE
