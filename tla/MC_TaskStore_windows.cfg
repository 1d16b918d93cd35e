\* The Windows build: lockFile excludes nobody.
SPECIFICATION StoreSpec
CONSTANTS
  Procs = {p1, p2}
  i1 = i1
  i2 = i2
  v1 = v1
  v2 = v2
  Ids = {i1, i2}
  Fields = {gen_status, result_json}
  Vals = {v1, v2}
  Keep = Keep
  NoRow = NoRow
  Exclusive = FALSE
  MaxOrphans = 0
PROPERTIES UpdateTouchesOnlyItsFields
