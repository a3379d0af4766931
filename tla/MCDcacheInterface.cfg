SPECIFICATION FairSpec
CONSTANTS
  Tids <- MCTids
  InstrTypes <- MCInstrTypes
  Prefetches <- MCPrefetches
  CounterStates = 8
  NoReq = NoReq
  NoTid = NoTid
INVARIANTS
  TypeOK
  NeverRespondedTwice
  PendingIsOwed
  CoreAndDcacheAgree
  InFlightCountsPending
PROPERTIES
  RequestEventuallyTaken
  ServiceSpec
