SPECIFICATION FairSpec
CONSTANTS
  MaxVersion = 3
  LastPage = 5
  ChunkPages = 2
  MetaStart = 4
  IdPage = 4
  Blocks <- MCBlocks
  At <- MCAt
  Paths <- MCPaths
  Kind <- MCKind
  Content <- MCContent
  AttrNames <- MCAttrNames
  Attrs <- MCAttrs
  Begins <- MCBegins
  Requests <- MCRequests
  Faults = {"head", "range", "stream", "io", "kill"}
  Hole = Hole
  Mixed = Mixed
  NoReq = NoReq
  NoReply = NoReply
INVARIANT FsTypeOK CacheFresh ReleasedAtReply
PROPERTY ImplementsReadOnlyFs RequestEnds
