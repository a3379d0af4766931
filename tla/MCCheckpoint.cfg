SPECIFICATION Spec
CONSTANTS
  Period = 2
  MaxCycles = 13
  None = None
  Torn = Torn
  Programs <- MCPrograms
  Stores <- MCStores
INVARIANTS
  LastTwoSaved
PROPERTIES
  RestoredAsSaved
