\* Two tasks use the database while a third closes, deletes and reopens it.
SPECIFICATION Spec
CONSTANTS
  u1 = u1
  u2 = u2
  k1 = k1
  a1 = a1
  a2 = a2
  None = None
  Users = {u1, u2}
  Openers = {k1}
  Closers = {k1}
  Deleters = {k1}
  UserCalls = {"write", "sync", "query", "migrate"}
  Handles = {a1, a2}
  Env = {"timeout", "openfail", "reopenfail", "swapfail"}
  MaxOpens = 3
SYMMETRY Symmetry
\* Once MaxOpens is used up a closed database stays closed.
CHECK_DEADLOCK FALSE
INVARIANTS
  TypeOK
  UseIsExclusive
  StragglersBail
  ParkedIsFree
  ClosingHasCloser
  MigratingHasMigrator
  OpenIsReachable
  OneOpenFile
PROPERTIES
  QueryKeepsFile
