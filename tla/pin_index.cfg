CONSTANTS
  Base = 16777216
  UidMax = 8388607
  NvLast = 33554431
  U32Max = 1073741823
  Uids <- Ends
SPECIFICATION Spec
INVARIANTS NoAliasing EverySlotCanBeTagged
CHECK_DEADLOCK FALSE
