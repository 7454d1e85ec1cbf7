SPECIFICATION FairSpec
CONSTANTS
  Instance = {i1, i2}
  Versions <- MCVersions
  Targets <- MCTargets
  KindOf <- MCKindOf
  SizeOf <- MCSizeOf
  Packed <- MCPacked
  Unsettable = {"tagged"}
  BlockSize = 2
  HalfInt = 8
  TmpSize = 6
  Step = 2
  MaxTries = 1
  Lost = TRUE
  NoTarget = NoTarget
  NoRange = NoRange
  BadRange = BadRange
INVARIANTS
  GetTypeOK
  WholeAnswersRight
  DownloadRight
  FoundUnlessFull
PROPERTY
  DownloadEnds
