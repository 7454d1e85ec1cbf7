SPECIFICATION CacheSpec
CONSTANTS
  Proc = {p1, p2}
  FilePages = 6
  MetaPage = 3
  ChunkSizes = {2}
  HdModes = {"LSEEK"}
  Requests <- OneRequest
  Tables <- MCTables
  PaddedTail = TRUE
  SoloInstall = FALSE
  Faults = {}
  Hole = Hole
  Torn = Torn
  Tail = Tail
  Super = Super
  NoProc = NoProc
  NoReq = NoReq
  NoBytes = NoBytes
  IOError = IOError
INVARIANT
  StartNeverPanics
