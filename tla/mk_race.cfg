CONSTANTS
  p1 = p1
  p2 = p2
  Procs = {p1, p2}
  MaxKeys = 2
  MaxFaults = 1
  MaxCrashes = 1
SPECIFICATION Spec
INVARIANTS PhraseRestores
SYMMETRY Symmetry
