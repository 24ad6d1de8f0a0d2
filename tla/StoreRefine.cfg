\* The surviving records implement RingLog.
SPECIFICATION Spec
CONSTANTS
  MaxSlots = 2
  ConfigMax = 2
  LegacyEvery = 2
  Rpb = 2
  Stride = 2
  Ops = {"write", "close", "delete"}
  Env = {"crash"}
  MaxTs = 4
  MaxLaps = 2
PROPERTIES
  ImplementsRingLog
