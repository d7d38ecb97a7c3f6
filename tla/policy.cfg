CONSTANTS
  p1 = p1
  p2 = p2
  f1 = f1
  f2 = f2
  f3 = f3
  usual = usual
  moved = moved
  device = device
  MaxEdits = 3
  NoFile = NoFile
  NoPolicy = NoPolicy
  Garbage = Garbage
  Loaders = {p1}
  Files = {f1, f2}
  Texts <- MCTexts
  Helpers = {usual, moved}
  Backends = {device}
  ModeBits = {"other_write", "owner_exec"}
  Inputs = {0, 1, 4, 9}
SPECIFICATION Spec
INVARIANTS PolicyTypeOK ReadWasHeld InForceWasHeld PinsAsPrescribed
PROPERTIES CalmLoadObeys
SYMMETRY FileSymmetry
