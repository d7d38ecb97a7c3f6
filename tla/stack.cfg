CONSTANTS
  p1 = p1
  Procs = {p1}
  MaxKeys = 3
  MaxFaults = 1
  MaxCrashes = 0
  Controls = {"required", "requisite", "sufficient", "optional"}
  Places <- MCPlaces
SPECIFICATION StackSpec
INVARIANTS StackTypeOK VerdictIsTheDecision SameTokenEitherWay KeyHasFile InitStartsAgain
PROPERTIES ShownKeysStay
