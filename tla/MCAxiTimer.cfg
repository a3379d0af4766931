SPECIFICATION FairSpec
CONSTANTS
  HALF = 2
  PERIOD = 2
  MaxReads = 1
  Writes <- MCWrites
  Reads <- MCReads
  None = None
  NoStrobe = NoStrobe
INVARIANTS
  TypeOK
  WriteAnsweredOnce
  ReadAnsweredOnce
  IrqIsComparison
PROPERTIES
  TimeStepsByOne
  WriteAccepted
  TimeAdvances
