SPECIFICATION Spec
CONSTANTS
  NoFlag = NoFlag
  NoValue = NoValue
  Nil = Nil
  NoItem = Nil
  NoRequest = NoRequest
  Procs = {"p1", "p2"}
  Numbers = {"0", "2", "5"}
  LinesOf <- McLinesOf
  Files <- McFiles
  Removable <- McRemovable
  Acceptances <- McAcceptances
  MayReject <- McMayReject
  Found <- McFound
  LocalId <- McLocalId
  KeyOrder <- McKeyOrder
  MaxNesting = 8
INVARIANT PromptsAsGiven
CHECK_DEADLOCK FALSE
