SPECIFICATION FairSpec
CONSTANTS
  SIZE = 2
  DELAY = 2
  Tags <- MCTags
  Ops <- MCOps
  Zero = "zero"
  NoEntry = NoEntry
  NoReq = NoReq
  NoRsp = NoRsp
INVARIANTS
  TypeOK
  PopsOnlyDueEntry
PROPERTIES
  ServiceSpec
  EveryRequestAnswered
