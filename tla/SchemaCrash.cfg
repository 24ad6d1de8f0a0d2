\* Every change of schema and capacity cut at every point.
SPECIFICATION HistorySpec
CONSTANTS
  MaxSlots = 3
  LegacyEvery = 2
  ConfigMax = 2
  ConfigCols <- OneColumn
  Schemas <- MigratedSchemas
  ExtraCols <- ExtraSchemas
  Capacities = {0, 1, 3}
  Rooms = {1, 3}
  BlockSpace = 12
  Zero = Zero
  Env = {"crash", "extrafail", "setupfail", "copyfail", "finalfail", "renamefail", "reopenfail", "foldfail", "regionfail"}
  MaxTs = 3
  MaxAlters = 2
INVARIANTS
  TypeOK
  AlteredIsDurable
  ColumnsHonest
  MigSwept
  CopyIsWhole
PROPERTIES
  DatabaseStays
  ImplementsAlterLog
  AlterReturns
