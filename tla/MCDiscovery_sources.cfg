SPECIFICATION FairSpec
CONSTANTS
  Suffixes <- MCSuffixes
  NoSuffix = ""
  Prereleases <- MCPrereleases
  Name <- MCName
  Ref <- MCRef
  Object <- MCObject
  Is <- MCIs
  Start <- MCStart
  Layers <- MCLayers
  Before <- MCBefore
  OwnName <- MCOwnName
  Landscapes <- MCLandscapes
  PackageAPI = "group"
  HideUnclassified = FALSE
  MaxChanges = 1
  NoInventory = NoInventory
INVARIANTS MissingIsTold TrustedVersion QuietIsExact
PROPERTIES EveryDiscoveryEnds
