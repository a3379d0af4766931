SPECIFICATION FairSpec
CONSTANTS
  SIZE = 2
  DELAY = 1
  Calls = {1, 2}
  NoEntry = NoEntry
  NoReq = NoReq
  NoRsp = NoRsp
  NoCall = NoCall
  Zero = Zero
INVARIANTS
  PortsAgree
PROPERTIES
  HostServiceSpec
  SyscallReturns
\* $finish ends the simulation.
CHECK_DEADLOCK FALSE
