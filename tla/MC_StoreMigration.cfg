\* Two processes, two tasks of which each store may have a version.
SPECIFICATION Spec
CONSTANTS
  Procs = {p1, p2}
  Ids = {t1, t2}
  MaxVersion = 2
INVARIANTS TypeOK LostOnlyWhenCut OpenStoreIsComplete
PROPERTIES DatabaseOnlyGrows
