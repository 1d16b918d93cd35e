SPECIFICATION Spec
CONSTANTS
  Procs = {p1, p2}
  Hooks = {h1}
  Keys = {k1, k2}
  OldKeys = {k1}
  NoKey = NoKey
  NoToken = NoToken
  Absent = Absent
  Undecodable = Undecodable
  Nobody = Nobody
  Roles = {"login", "relogin", "import", "logout", "submit"}
CHECK_DEADLOCK FALSE
INVARIANTS SuccessHasCause PageKeyIsOnFile CallbacksAreWaitedFor
PROPERTIES RegisterSpec LoginEnds
