\* The data area grows after an overflow region was appended behind it.
SPECIFICATION HistorySpec
CONSTANTS
  MaxSlots = 3
  LegacyEvery = 2
  ConfigMax = 3
  ConfigCols <- OneColumn
  Schemas = {}
  ExtraCols <- ExtraSchemas
  Capacities = {}
  Rooms = {}
  BlockSpace = 12
  Zero = Zero
  Env = {"growing"}
  MaxTs = 3
  MaxAlters = 1
INVARIANTS
  ColumnsHonest
