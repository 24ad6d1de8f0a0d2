\* An unlimited database that becomes a ring when the filesystem is full, with
\* and without the cap persisted, closed and reopened; no power cut.
SPECIFICATION FairSpec
CONSTANTS
  MaxSlots = 4
  ConfigMax = 0
  LegacyEvery = 2
  Rpb = 2
  Stride = 2
  Ops = {"write", "sync", "close"}
  Env = {"enospc", "capfail", "growfail"}
  MaxTs = 7
  MaxLaps = 2
INVARIANTS
  ViewIsNewest
  TimestampsTrue
  RingAligned
PROPERTIES
  OperationsReturn
