\* No exclusion (the Windows build) and sqlite3 children that outlive their parent.
SPECIFICATION StoreSpec
CONSTANTS
  Procs = {p1, p2}
  i1 = i1
  i2 = i2
  v1 = v1
  v2 = v2
  Ids = {i1, i2}
  Fields = {gen_status}
  Vals = {v1, v2}
  Keep = Keep
  NoRow = NoRow
  Exclusive = FALSE
  MaxOrphans = 1
SYMMETRY IdSymmetry
PROPERTIES RowsNeverLost
