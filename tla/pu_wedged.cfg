CONSTANTS
  a = a
  b = b
  p1 = p1
  p2 = p2
  NoTail = NoTail
  MaxZeros = 1
  Uids = {1}
  Ops = {}
  Tails = {a}
  Limits = {1, 2}
  Procs = {p1}
  Entries <- Plain
  Origins = {"none", "legacy", "current"}
  Kinds = {"setup", "delete"}
  Callers = {"root", "owner"}
  MaxFaults = 0
  MaxCrashes = 1
SPECIFICATION UtilSpec
INVARIANT SetupProceeds
