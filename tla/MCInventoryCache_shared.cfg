CONSTANTS
  Env = {e1}
  Unreliable = {e1}
  Caller = {c1, c2}
  Request = {c1}
  Modes = {"cached", "read", "refresh"}
  TTL = 2
  MaxClock = 2
  NoSnapshot = NoSnapshot
  NoCaller = NoCaller
SPECIFICATION FairSpec
INVARIANTS
  UnlockedReadSafe
  BoundedStaleness
PROPERTIES
  
  Throttled
  RegisterSpec
  EveryCallAnswered
