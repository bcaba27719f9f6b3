SPECIFICATION MCSpec
CONSTANTS
  Suffixes <- MCSuffixes
  NoSuffix = ""
  Prereleases <- MCPrereleases
  Components <- MCComponents
  Files <- MCFiles
  FirstRelease <- one
  Order <- MCOrder
  Production <- MCProduction
  SupportedMinors <- MCSupportedMinors
  MaxNewer = 1
  Deployable <- MCDeployable
  Start <- MCStart
  StartReleases <- MCStartReleases
  Pins <- MCPins
  Flaky <- MCProduction
  Lesser <- MCLesser
  Upstream <- MCUpstream
  MaxEdits = 3
  Releases <- MCReleases
  Beside = TRUE
  NoRelease = NoRelease
CHECK_DEADLOCK FALSE
INVARIANTS CompliantMeansSatisfied CutIsFulfilled DraftIsFulfilled FulfilledTwiceUnchanged UpdatesAgree UpdatedIsApplied
PROPERTIES OthersDoNotMatter
