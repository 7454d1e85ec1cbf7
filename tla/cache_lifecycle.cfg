SPECIFICATION FairCacheSpec
CONSTANTS
  Proc = {p1, p2}
  FilePages = 6
  MetaPage = 3
  ChunkSizes = {2, 3}
  HdModes = {"LSEEK"}
  Requests <- MCRequests
  Tables <- MCTables
  PaddedTail = TRUE
  SoloInstall = TRUE
  Faults = {"head", "range", "stream", "crash"}
  Hole = Hole
  Torn = Torn
  Tail = Tail
  Super = Super
  NoProc = NoProc
  NoReq = NoReq
  NoBytes = NoBytes
  IOError = IOError
INVARIANTS
  CacheTypeOK
  OpenedComplete
  FuseHookedOnce
  AnswersFetched
PROPERTIES
  CacheImplementsFile
  ForcedStartOpens
  FinishedCacheOpens
  StartEnds
