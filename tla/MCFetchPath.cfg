SPECIFICATION Spec
CONSTANTS
  Lines <- MCLines
  NcLines <- MCNcLines
  MappedLines <- MCMappedLines
  ZeroLine = "zero"
  NoData = "nodata"
  Words = {0, 1}
  NoPc = NoPc
INVARIANTS
  FetchGetsItsInstruction
  HitHoldsLine
  OneRequestInMemory
  WaitsForItsOwnGrant
PROPERTIES
  FetchAnswered
