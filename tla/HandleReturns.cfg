\* One user and one keeper, scheduled fairly: every call returns.
SPECIFICATION FairSpec
CONSTANTS
  u1 = u1
  k1 = k1
  a1 = a1
  a2 = a2
  None = None
  Users = {u1}
  Openers = {k1}
  Closers = {k1}
  Deleters = {k1}
  UserCalls = {"write", "sync", "query", "migrate"}
  Handles = {a1, a2}
  Env = {"timeout", "reopenfail", "swapfail"}
  MaxOpens = 3
\* Once MaxOpens is used up a closed database stays closed.
CHECK_DEADLOCK FALSE
PROPERTIES
  CallsReturn
