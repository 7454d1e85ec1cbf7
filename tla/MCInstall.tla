----------------------------- MODULE MCInstall -----------------------------
(***************************************************************************)
(* Instances of Install for TLC.                                           *)
(***************************************************************************)
EXTENDS Install

\* With parts of 2 to 4, at most 3 of them, and objects of up to 10: a file shorter than a
\* superblock, one that is put in one piece, one of exactly two chunks of 2, one with a
\* short last chunk, one that needs a larger chunk from the environment, one that is too
\* large for S3 but not for the code, and one that is too large for both.
MCArchives == {"empty", "single", "even", "odd", "long", "vast", "huge"}
MCSizeOf ==
  [a \in MCArchives |->
    CASE a = "empty" -> 0 [] a = "single" -> 2 [] a = "even" -> 4 [] a = "odd" -> 5
      [] a = "long" -> 8 [] a = "vast" -> 11 [] a = "huge" -> 13]
============================================================================
