SPECIFICATION FairSpec
CONSTANTS
  Requests = {r1}
  Tasks = {"queue", "sweep", "followUp"}
  MaxSlots = 2
  Projects = {p1, p2}
  NoProject = none
  BatchLimit = 2
  MaxRows = 2
  MaxCaptures = 2
  MaxTrouble = 1
INVARIANTS TypeOK DrainsApart NothingForgotten RestsAfterStop
PROPERTIES StopResolves AdmissionsSettle RowsWorkedOff
CHECK_DEADLOCK FALSE
