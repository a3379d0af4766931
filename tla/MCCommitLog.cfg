SPECIFICATION Spec
CONSTANTS
  BASE = 4
  AddrValues = 16
  symtab <- MCsymtab
  Kinds <- MCKinds
  Flags <- MCFlags
  WriteToHost = 9
INVARIANTS
  FileHoldsTrace
PROPERTIES
  TraceSpec
