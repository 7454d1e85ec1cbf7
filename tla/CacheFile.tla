---------------------------- MODULE CacheFile ----------------------------
(***************************************************************************)
(* The sparse local cache file of one archive, the processes that share    *)
(* it, and the address arithmetic of repo.rs over it.                      *)
(*                                                                         *)
(* The unit of every position is a PAGE: one block of the local file       *)
(* system, the granularity at which lseek(SEEK_HOLE) tells holes from      *)
(* data.  A chunk (1 << chunk_log bytes) is at least one squashfs block    *)
(* and therefore a whole number of pages.  The archive's bytes are not     *)
(* modelled: page g of the archive is the number g, so a page of the cache *)
(* file that holds g at place g holds the archive's bytes, and any other   *)
(* content reads differently from the archive.                             *)
(***************************************************************************)
EXTENDS Integers, FiniteSets

CONSTANTS
  Proc,        \* the processes that share the cache file
  FilePages,   \* length of the archive object, in pages
  ChunkSizes,  \* the values of 1 << chunk_log the processes are started with, in pages
  HdModes,     \* the values of HoleDetectMode in use, of "ALLZERO" and "LSEEK"
  MetaPage,    \* the page that sb.inode_table_start lies in
  Faults,      \* what may fail: "head", "range", "lock", "stream", "crash" (see the actions)
  Hole,        \* content of a page never written: SEEK_HOLE finds it
  Torn,        \* written in part: it counts as data, and the rest reads as zeros
  Tail,        \* the last page, allocated by the zero byte at its end
  Super,       \* page 0 with the superblock, and zeros behind it or behind what follows it
  NoProc       \* nobody holds the file lock

ASSUME GeometryAssumption ==
  /\ FilePages \in Nat \ {0}
  /\ ChunkSizes \subseteq Nat \ {0}
  /\ MetaPage \in 0 .. FilePages - 1

ASSUME ModeAssumption == HdModes \subseteq {"ALLZERO", "LSEEK"}

ASSUME SentinelAssumption ==
  /\ Hole \notin Int /\ Torn \notin Int /\ Tail \notin Int /\ Super \notin Int
  /\ Hole # Torn /\ Hole # Tail /\ Hole # Super
  /\ Torn # Tail /\ Torn # Super /\ Tail # Super
  /\ NoProc \notin Proc

VARIABLES
  page,   \* page[g]: what the cache file holds at page g
  flock,  \* the process holding the exclusive lock on the file, or NoProc
  local,  \* local[p]: the Local of process p, see Locals
  wpos,   \* wpos[p]: the next page p's stream from S3 is written to
  pc      \* pc[p]: where process p is in the code

Pages == 0 .. FilePages - 1
Content == Pages \cup {Hole, Torn, Tail, Super}

\* What a process is configured with, and the two function slots of its sqfs_file_t:
\* "file" is the read function of libsquashfs, "archive" is archive_read_at, and "none"
\* stands for a slot whose content is not called (the write function).
Locals == [hdmode : HdModes, chunk : ChunkSizes,
           read_at : {"file", "archive"}, write_at : {"none", "file", "archive"}]

\* (x >> chunk_log) << chunk_log
AlignDown(c, x) == (x \div c) * c

\* The end of the range asked for when the data wanted ends at x: the boundary of
\* x's chunk, plus one chunk.
AlignedEndNoChunk(c, x) == AlignDown(c, x)   \* seeded fault: without "+ chunk_size"
AlignedEnd(c, x) == AlignDown(c, x) + c

\* S3 answers the part of a range that lies inside the object.
StreamEnd(x) == IF x < FilePages THEN x ELSE FilePages

\* Where the metadata copy of Local::new starts: inode_table_start aligned down.
MetaStartUnaligned(c) == MetaPage + 1     \* seeded fault: the boundary page is lost
MetaStart(c) == AlignDown(c, MetaPage)

Good(g) == page[g] = g

\* What lseek takes for data although it may not hold the archive's bytes.
Unfinished == {Torn, Tail, Super}

\* A write that covers page g, and one that stops inside it: a stream is written in pieces
\* of any length, and whoever reads, breaks off or dies meets the file between two of them.
\* Rewriting the first bytes of a page that is already right leaves it right, and page 0
\* keeps its superblock.
WritePage(g) == page' = [page EXCEPT ![g] = g]
TearPage(g) ==
  page' = [page EXCEPT ![g] =
             IF @ \in {Hole, Tail} THEN (IF g = 0 THEN Super ELSE Torn) ELSE @]

Goto(p, label) == pc' = [pc EXCEPT ![p] = label]

\* flock(2): released when the file is closed or its owner dies.
Unlock(p) == flock' = IF flock = p THEN NoProc ELSE flock
==========================================================================
