CONSTANTS
  Caller = {request, steady}
  Request = {request}
  argo = argo
  flux = flux
  tool = tool
  Component = {argo, flux, tool}
  Tracked = {argo, flux}
  Platforms <- MCPlatforms
  Pinned <- MCPinned
  Concurrency = 1
  MaxChanges = 1
  MaxFailures = 1
  Unreadable = Unreadable
  NoInventory = NoInventory
  NoFetch = NoFetch
SPECIFICATION FairSpec
INVARIANTS
  AnswerDecides
PROPERTIES
  CachedInputRecovers
  EveryInputReturns
