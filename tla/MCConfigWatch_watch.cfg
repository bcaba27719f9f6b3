CONSTANTS
  Content <- MCContent
  Malformed <- MCMalformed
  History <- Repairs
  MaxErrors = 2
  NoService = NoService
  NoPrint = NoPrint
SPECIFICATION FairSpec
INVARIANTS
  WatchedMeansServed
  ReloadsPaid
PROPERTIES
  SourceSpec
  Converges
\* serve exits when its first load fails.
CHECK_DEADLOCK FALSE
