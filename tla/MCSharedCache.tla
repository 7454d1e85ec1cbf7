--------------------------- MODULE MCSharedCache ---------------------------
(***************************************************************************)
(* Instances of SharedCache for TLC.                                       *)
(***************************************************************************)
EXTENDS SharedCache

DataRead(first, last, stop) == [first |-> first, last |-> last, stop |-> stop, meta |-> FALSE]
MetaRead(first, last) == [first |-> first, last |-> last, stop |-> last, meta |-> TRUE]

\* Six pages, the inode table in page 3, so that the metadata copy starts a page below it
\* with chunks of two pages.  The data is one block, which spans two chunks of two pages and
\* ends in the first page of the metadata.
MCRequests == {DataRead(0, 3, 3), MetaRead(3, 5)}
OneRequest == {DataRead(0, 1, 1)}

\* The fragment table ends in page 3, the id table in page 4, and the xattr table in the last
\* page: version 1 opens with the fragment and the xattr table, version 2 with the id table
\* only, and reads the xattr table later.
MCTables == [v1 |-> {3, 5}, v2 |-> {4}]
============================================================================
