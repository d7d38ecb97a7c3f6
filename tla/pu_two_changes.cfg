CONSTANTS
  a = a
  b = b
  p1 = p1
  p2 = p2
  NoTail = NoTail
  MaxZeros = 1
  Uids = {1}
  Ops = {}
  Tails = {a, b}
  Limits = {2}
  Procs = {p1, p2}
  Entries <- Plain
  Origins = {"current"}
  Kinds = {"change"}
  Callers = {"root"}
  MaxFaults = 0
  MaxCrashes = 0
SPECIFICATION UtilSpec
INVARIANT OkSetupLasts
