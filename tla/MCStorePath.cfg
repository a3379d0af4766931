SPECIFICATION StoreSpec
CONSTANTS
  BASE = 4
  LineBytes = 32
  VlenBytes = 16
  MemSizes <- MCMemSizes
  Addrs <- MCAddrs
  Words <- MCWords
  Registers <- MCRegisters
  AtomicOps <- MCAtomicOps
  ByteAnd <- MCAnd
  ByteOr <- MCOr
  ByteXor <- MCXor
  Buffers <- MCBuffers
  Segments <- MCSegments
  Top = 64
  MaxOps = 3
INVARIANTS
  MemoryHoldsBytes
  AtomicReturnsOldLine
  HostWritesString
\* The program may end, and MaxOps ends it.
CHECK_DEADLOCK FALSE
