CONSTANTS
  Content <- MCContent
  Malformed <- MCMalformed
  History <- OneEdit
  MaxErrors = 1
  NoService = NoService
  NoPrint = NoPrint
SPECIFICATION Spec
INVARIANT ValidChangeReloaded
\* serve exits when its first load fails.
CHECK_DEADLOCK FALSE
