SPECIFICATION FairSpec
CONSTANTS
  Proc = {p1, p2}
  FilePages = 7
  MetaPage = 5
  ChunkSizes = {2, 3}
  HdModes = {"ALLZERO", "LSEEK"}
  Requests <- MCRequests
  Faults = {"range", "lock", "stream", "crash"}
  Hole = Hole
  Torn = Torn
  Tail = Tail
  Super = Super
  NoProc = NoProc
  NoReq = NoReq
  NoBytes = NoBytes
  IOError = IOError
INVARIANTS
  TypeOK
  OneWriter
  
  
PROPERTIES
  GoodPagesStay
  CopiesEndWhole
  LockWaitEnds
  CachedReadAnswered
  ImplementsArchiveFile
