CONSTANTS
  a = a
  b = b
  p1 = p1
  p2 = p2
  NoTail = NoTail
  MaxZeros = 1
  Uids = {1}
  Ops = {}
  Tails = {a, b}
  Limits = {2}
  Procs = {p1, p2}
  Hosts = {p1}
  Entries <- Plain
  Tokens <- Plain
  Modes = {"try"}
  Origins = {"current"}
  Kinds = {"change"}
  Callers = {"root", "owner"}
  MaxFaults = 0
  MaxCrashes = 0
SPECIFICATION PamSpec
INVARIANTS AtMostOneAttempt RemainingVerifies
PROPERTIES RightPinCostsNothing LoginSpec
SYMMETRY TailSymmetry
