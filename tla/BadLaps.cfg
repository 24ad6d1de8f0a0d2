\* Past two laps of the ring a persisted header is no longer believed.
SPECIFICATION Spec
CONSTANTS
  MaxSlots = 2
  ConfigMax = 2
  LegacyEvery = 2
  Rpb = 2
  Stride = 2
  Ops = {"write"}
  Env = {}
  MaxTs = 5
  MaxLaps = 3
INVARIANTS
  Durable
