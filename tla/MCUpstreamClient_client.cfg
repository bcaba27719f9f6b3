CONSTANTS
  w1 = w1
  w2 = w2
  serve = serve
  Process = {serve}
  Worker = {w1, w2}
  Home <- MCHome
  Slug = {"argo"}
  CacheDir = {serve}
  TTL = 1
  Window = 1
  Pages = 2
  MaxClock = 1
  MaxForgotten = 1
  NoEntry = NoEntry
  Torn = Torn
  Failed = Failed
SPECIFICATION FairSpec
INVARIANTS
  FreshUnlessUnreachable
  KnownNeverFails
  FreshFileSpares
  FewRefusals
PROPERTY EveryCallReturns
