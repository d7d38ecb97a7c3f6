CONSTANTS
  a = a
  b = b
  p1 = p1
  p2 = p2
  NoTail = NoTail
  MaxZeros = 1
  Uids = {1}
  Ops = {}
  Tails = {a, b}
  Limits = {1, 2}
  Procs = {p1}
  Hosts = {p1}
  Entries <- Zeroed
  Tokens <- Plain
  Modes = {"try", "use"}
  Origins = {"none", "current"}
  Kinds = {"setup", "change", "delete", "test", "status"}
  Callers = {"root", "owner", "elevated", "other"}
  MaxFaults = 0
  MaxCrashes = 0
SPECIFICATION PamSpec
INVARIANTS IncorrectMeansWrong ChangeLeavesAPin RightPinLogsIn MaxTriesMeansLocked AuthErrLeavesAttempts
SYMMETRY TailSymmetry
