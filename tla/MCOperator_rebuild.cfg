\* When nobody edits, the loop blocks on an empty channel for good.
CHECK_DEADLOCK FALSE
CONSTANTS
  Name <- MCName
  History <- MCHistory
  PlatformName = AnyPlatform
  AnyPlatform = AnyPlatform
  NoService = NoService
SPECIFICATION FairSpec
INVARIANTS
  QuietMeansCurrent
  GaugeTruthful
PROPERTIES
  SourceSpec
  FollowsCluster
