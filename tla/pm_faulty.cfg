CONSTANTS
  a = a
  b = b
  p1 = p1
  p2 = p2
  Tails = {a, b}
  NoTail = NoTail
  MaxZeros = 2
  Limits = {1, 2}
  Uids = {1}
  Procs = {p1}
  Ops = {"setup", "verify", "delete", "delete_auth"}
  Entries <- Zeroed
  Origins = {"none", "legacy", "current", "newer"}
  MaxFaults = 2
  MaxCrashes = 1
SPECIFICATION FairSpec
INVARIANTS TypeOK StoredIsChosen SetupVerifiable AcceptedStaysAccepted LockReportTrue
PROPERTIES DeleteNeedsThePin VaultSpec MigrationCompletes
