SPECIFICATION FairCacheSpec
CONSTANTS
  Proc = {p1}
  FilePages = 6
  MetaPage = 3
  ChunkSizes = {2}
  HdModes = {"LSEEK"}
  Requests <- OneRequest
  Tables <- MCTables
  PaddedTail = TRUE
  SoloInstall = TRUE
  Faults = {}
  Hole = Hole
  Torn = Torn
  Tail = Tail
  Super = Super
  NoProc = NoProc
  NoReq = NoReq
  NoBytes = NoBytes
  IOError = IOError
PROPERTY
  ReadReturns
