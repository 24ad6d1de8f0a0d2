\* Every write and fold cut at every point; the filesystem may refuse a TSH2
\* slot, a fold, a create, a reopen, an unlink or a growing block write.
SPECIFICATION Spec
CONSTANTS
  MaxSlots = 3
  ConfigMax = 3
  LegacyEvery = 2
  Rpb = 2
  Stride = 2
  Ops = {"write", "sync", "close", "delete"}
  Env = {"crash", "sidefail", "foldfail", "creatfail", "reopenfail", "unlinkfail", "growfail"}
  MaxTs = 5
  MaxLaps = 2
INVARIANTS
  TypeOK
  Durable
  AckedSurvive
  ViewOrdered
  HealedByWrite
PROPERTIES
  SeqGrows
