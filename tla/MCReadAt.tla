----------------------------- MODULE MCReadAt -----------------------------
(***************************************************************************)
(* Instances of ReadAt for TLC.                                            *)
(***************************************************************************)
EXTENDS ReadAt

DataRead(first, last, stop) == [first |-> first, last |-> last, stop |-> stop, meta |-> FALSE]
MetaRead(first, last) == [first |-> first, last |-> last, stop |-> last, meta |-> TRUE]

\* Seven pages, the inode table in page 5: chunks of two pages put the metadata copy at
\* page 4, chunks of three at page 3.  The data blocks overlap pages and chunks: the
\* first two pages up to the very end of the second, behind which there may be a hole, one
\* that straddles a chunk boundary, and one that ends where the metadata begins.
MCRequests ==
  {DataRead(0, 1, 2), DataRead(1, 2, 2), DataRead(2, 3, 4), MetaRead(5, 6)}

\* Blocks that lie inside one chunk of two pages.
InChunkRequests == {DataRead(0, 1, 1), DataRead(2, 2, 2), DataRead(3, 3, 4), MetaRead(5, 5)}

\* A first block so short that it shares page 0 with the superblock.
ShortFirstBlock == {DataRead(0, 0, 0), DataRead(2, 3, 3)}
===========================================================================
