SPECIFICATION Spec
CONSTANTS
  Proc = {p1}
  FilePages = 7
  MetaPage = 5
  ChunkSizes = {2}
  HdModes = {"LSEEK"}
  Requests <- ShortFirstBlock
  Faults = {}
  Hole = Hole
  Torn = Torn
  Tail = Tail
  Super = Super
  NoProc = NoProc
  NoReq = NoReq
  NoBytes = NoBytes
  IOError = IOError
INVARIANT
  ReadsCorrect
