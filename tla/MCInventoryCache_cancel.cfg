CONSTANTS
  Env = {e1}
  Unreliable = {}
  Caller = {c1, c2}
  Request = {c1}
  Modes = {"cached", "read", "refresh"}
  TTL = 2
  MaxClock = 2
  NoSnapshot = NoSnapshot
  NoCaller = NoCaller
SPECIFICATION Spec
INVARIANT OnlyUnreachableHaveErrors
