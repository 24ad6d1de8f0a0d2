\* Every window over a ring that fills and goes round and over an unlimited log
\* that grows while it is read, with unreadable blocks and holes; the result
\* type of the aggregates is one the sum can overflow.
SPECIFICATION Spec
CONSTANTS
  MaxSlots = 4
  Capacities = {0, 4}
  Rpb = 2
  Values <- SignedValues
  MaxInt = 7
  Env = {"unreadable", "wiped", "nested"}
  MaxTs = 4
  MaxWrites = 6
INVARIANTS
  TypeOK
  QueryExact
  AggregatesTrue
  SumsTrue
