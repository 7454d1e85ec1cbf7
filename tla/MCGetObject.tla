---------------------------- MODULE MCGetObject ----------------------------
(***************************************************************************)
(* Instances of GetObject for TLC.                                         *)
(***************************************************************************)
EXTENDS GetObject

\* Blocks of 2: files of whole blocks, with a short last block, packed with a fragment,
\* and longer than an i32 holds; the packed file is shorter in the new version.
MCVersions == {"old", "new"}
MCTargets == {"even", "odd", "packed", "tagged", "empty", "big", "dir", "link", "none"}
MCPacked == {"packed"}
MCKind ==
  [t \in MCTargets |-> IF t \in {"dir", "link", "none"} THEN t ELSE "file"]
MCKindOf == [v \in MCVersions |-> MCKind]
MCSize(v) ==
  [t \in MCTargets |->
    CASE t = "even" -> 4 [] t = "odd" -> 3 [] t = "packed" -> IF v = "old" THEN 5 ELSE 3
      [] t = "tagged" -> 2 [] t = "empty" -> 0 [] t = "big" -> 9
      [] t = "dir" -> 1 [] t = "link" -> 3 [] t = "none" -> 0]
MCSizeOf == [v \in MCVersions |-> MCSize(v)]
============================================================================
