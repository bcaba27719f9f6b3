CONSTANTS
  Request = {request}
  Modes = {"cached"}
  Ticker = Ticker
  Download = Download
  MaxLoads = 2
  MaxEdits = 1
  Nil = Nil
  Free = Free
SPECIFICATION ServeFairSpec
INVARIANTS
  NeverAhead
PROPERTIES
  ServedCatchesUp
CHECK_DEADLOCK FALSE
