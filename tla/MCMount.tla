------------------------------ MODULE MCMount ------------------------------
(* An archive of three chunks with two files, a link and the directory they *)
(* are in, mounted, killed and mounted again while another is installed.   *)
EXTENDS Mount

\* Chunks of two pages: b1 lies in page 0, behind the superblock; b2 ends where chunk 1
\* begins; b3 runs into chunk 2, where the metadata copy begins, as does the fragment t.
MCBlocks == {"b1", "b2", "b3", "t"}
MCAt == [b \in MCBlocks |->
  CASE b = "b1" -> [first |-> 0, last |-> 0, stop |-> 0]
    [] b = "b2" -> [first |-> 0, last |-> 1, stop |-> 2]
    [] b = "b3" -> [first |-> 2, last |-> 4, stop |-> 4]
    [] b = "t"  -> [first |-> 4, last |-> 4, stop |-> 4]]

MCPaths == {"top", "f", "g", "l"}
MCKind == [f \in MCPaths |-> CASE f = "top" -> "dir" [] f = "l" -> "link" [] OTHER -> "file"]
MCContent == [f \in MCPaths |->
  CASE f = "top" -> <<"f", "g", "l">> [] f = "f" -> <<"b1", "b2", "b3", "t">>
    [] f = "g" -> <<"t">> [] f = "l" -> << >>]
MCAttrNames == {"user.a", "user.ab"}
MCAttrs == [f \in MCPaths |->
  CASE f = "f" -> <<"user.a", "user.ab">> [] f = "l" -> <<"user.ab", "user.a">> [] OTHER -> << >>]
MCBegins == {<<"user.a", "user.ab">>} \cup {<<n, n>> : n \in MCAttrNames}

\* Reads of a whole file, of its parts, over its end and behind it; values and targets with
\* room for nothing, too little, and enough.
Op(op, paths) == [op : {op}, path : paths]
Read(f, off, size) == [op |-> "read", path |-> f, off |-> off, size |-> size]
MCRequests ==
  [op : {"open"}, write : BOOLEAN]
  \cup Op("getattr", {"f", "top", "gone"}) \cup Op("readdir", {"top"})
  \cup {Read("f", 0, 4), Read("f", 0, 1), Read("f", 1, 2), Read("f", 3, 2), Read("g", 1, 1)}
  \cup [op : {"readlink"}, path : {"l"}, size : {2, 3}]
  \cup [op : {"getxattr"}, path : {"l"}, name : {"user.a"}, size : {0, 1, 2}]
  \cup [op : {"getxattr"}, path : {"f"}, name : {"user.a", "user.b"}, size : {2}]
  \cup [op : {"listxattr"}, path : {"f"}, size : {0, 4}]
  \cup [op : {"listxattr"}, path : {"g"}, size : {0}]
============================================================================
