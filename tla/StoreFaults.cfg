\* Capping, clearing, unreadable blocks and failing block, cap and sidecar
\* writes, with power cuts.
SPECIFICATION Spec
CONSTANTS
  MaxSlots = 3
  ConfigMax = 3
  LegacyEvery = 2
  Rpb = 2
  Stride = 2
  Ops = {"write", "sync", "close", "clear"}
  Env = {"crash", "lowspace", "enospc", "capfail", "readfail", "growfail", "sidefail"}
  MaxTs = 4
  MaxLaps = 2
INVARIANTS
  Durable
  RingAligned
