SPECIFICATION Spec
CONSTANTS
  MaxInst = 4
  QueueSize = 2
  MaxUnits = 2
  MaxQuiet = 2
INVARIANTS
  ShownIsReached
  LoggedQueueIsReal
  CommittedIsShown
PROPERTIES
  StagesMoveForward
