CONSTANTS
  a = a
  b = b
  p1 = p1
  p2 = p2
  NoTail = NoTail
  MaxZeros = 1
  Uids = {1}
  Ops = {}
  Tails = {a, b}
  Limits = {2}
  Procs = {p1}
  Hosts = {p1}
  Entries <- Alike
  Tokens <- Left
  Modes = {"try", "use"}
  Origins = {"none", "legacy", "current"}
  Kinds = {"setup", "change", "delete", "test"}
  Callers = {"root", "owner", "elevated"}
  MaxFaults = 1
  MaxCrashes = 1
SPECIFICATION PamFairSpec
INVARIANTS PamTypeOK OkMeansStored PromptCountsRight
PROPERTIES OnlyManagersChangePins LoginSpec CommandsEnd LoginsEnd
