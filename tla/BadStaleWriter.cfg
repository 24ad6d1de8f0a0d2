\* A writer preempted between its is_open test and the generation capture.
SPECIFICATION Spec
CONSTANTS
  u1 = u1
  k1 = k1
  a1 = a1
  None = None
  Users = {u1}
  Openers = {k1}
  Closers = {k1}
  Deleters = {}
  UserCalls = {"write"}
  Handles = {a1}
  Env = {}
  MaxOpens = 2
SYMMETRY Symmetry
\* Once MaxOpens is used up a closed database stays closed.
CHECK_DEADLOCK FALSE
INVARIANTS
  NoStaleWrite
