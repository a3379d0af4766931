\* Violated: the mask of the prologue of write_block is shifted right by too
\* little when the block ends within the word in which it begins.
SPECIFICATION StoreSpec
CONSTANTS
  BASE = 4
  LineBytes = 32
  VlenBytes = 16
  MemSizes <- MCMemSizes
  Addrs <- MCAddrs
  Words <- MCWords
  Registers <- MCRegisters
  AtomicOps <- MCAtomicOps
  ByteAnd <- MCAnd
  ByteOr <- MCOr
  ByteXor <- MCXor
  Buffers <- MCBuffers
  Segments <- MCShortSegments
  Top = 64
  MaxOps = 3
INVARIANTS
  MemoryHoldsBytes
CHECK_DEADLOCK FALSE
