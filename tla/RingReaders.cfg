SPECIFICATION FairSpec
CONSTANTS
  eterm = eterm
  daemon = daemon
  r1 = r1
  Cap = 3
  Writers = {eterm, daemon}
  Readers = {r1}
  MaxTotal = 4
  MaxLen = 4
  SingleWriter = TRUE
  CrashAt = {"idle", "copy", "publish"}
INVARIANTS SeqlockInv SnapshotConsistent RingHoldsTail NeverStale QuietReadExact
PROPERTY ReadReturns
