\* Violated: the flag is saved before it is inverted, so a restored simulation
\* writes its first checkpoint over the file it was restored from.
SPECIFICATION Spec
CONSTANTS
  Period = 2
  MaxCycles = 13
  None = None
  Torn = Torn
  Programs <- MCPrograms
  Stores <- MCStores
PROPERTIES
  OverwritesOldest
