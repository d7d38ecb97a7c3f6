CONSTANTS
  a = a
  b = b
  p1 = p1
  p2 = p2
  Tails = {a}
  NoTail = NoTail
  MaxZeros = 2
  Limits = {2}
  Uids = {1}
  Procs = {p1, p2}
  Ops = {"verify"}
  Entries <- OneZeroed
  Origins = {"legacy"}
  MaxFaults = 0
  MaxCrashes = 0
SPECIFICATION Spec
INVARIANT ProvisionedStaysVerifiable
