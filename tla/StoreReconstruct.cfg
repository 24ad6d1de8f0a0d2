\* Headers beyond two laps of the ring, rebuilt when the file is reopened, with
\* and without a capacity cap before.
SPECIFICATION Spec
CONSTANTS
  MaxSlots = 3
  ConfigMax = 3
  LegacyEvery = 2
  Rpb = 2
  Stride = 2
  Ops = {"write", "close"}
  Env = {"lowspace", "enospc"}
  MaxTs = 12
  MaxLaps = 3
PROPERTIES
  ReconstructKeepsRecords
