\* The Unix build: an exclusive lock, and a killed process takes its child along.
SPECIFICATION StoreSpec
CONSTANTS
  Procs = {p1, p2}
  i1 = i1
  i2 = i2
  v1 = v1
  v2 = v2
  Ids = {i1, i2}
  Fields = {gen_status, result_json}
  Vals = {v1, v2}
  Keep = Keep
  NoRow = NoRow
  Exclusive = TRUE
  MaxOrphans = 0
INVARIANTS TypeOK DecisionsHold
PROPERTIES TableSpec UpdateTouchesOnlyItsFields LockIsReleased
