SPECIFICATION Spec
CONSTANTS
  MaxEdits = 3
  MaxFailures = 1
INVARIANTS
  TypeOK
  LivePageWorks
PROPERTIES
  EditReachesDb
  TabCatchesUp
  StopEnds
