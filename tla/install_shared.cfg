SPECIFICATION FairSpec
CONSTANTS
  Installer = {i1, i2}
  Archives <- MCArchives
  SizeOf <- MCSizeOf
  EnvChunks = {0, 1, 4, 5}
  SuperblockSize = 1
  MinPart = 2
  MaxPart = 4
  MaxParts = 3
  MaxObject = 10
  RebuildAnytime = FALSE
  Faults = {"create", "part", "complete", "put", "reply", "crash"}
  NoArchive = NoArchive
  NoObject = NoObject
INVARIANTS
  InstallTypeOK
  ObjectWhole
  PartsLegal
PROPERTY
  InstallEnds
