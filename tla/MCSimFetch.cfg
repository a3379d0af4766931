SPECIFICATION SimSpec
CONSTANTS
  Lines <- MCLines
  NcLines <- MCNcLines
  MappedLines <- MCLines
  BromLines <- MCBromLines
  ProgLines <- MCProgLines
  BROM_DELAY = 3
  INST_DELAY = 5
  ZeroLine = "zero"
  NoData = "nodata"
  Words = {0}
  NoPc = NoPc
INVARIANTS
  GrantAnswersOldest
  NoRequestLost
PROPERTIES
  FetchPathSpec
