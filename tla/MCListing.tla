----------------------------- MODULE MCListing -----------------------------
(***************************************************************************)
(* Instances of Listing for TLC.                                           *)
(***************************************************************************)
EXTENDS Listing

\* Below directory 1: the file 1/2, the directory 1/3 with three files, the file 1/4 and
\* the directory 1/5 with one file that is not in the other version, where 1/3/3 is gone
\* and 1/6 is new.  The prefix is 1/ and the beginning of the names 3 to 6.
MCFiles ==
  [old |-> {<<1, 2>>, <<1, 3, 1>>, <<1, 3, 2>>, <<1, 3, 3>>, <<1, 4>>, <<1, 5, 1>>, <<2>>},
   new |-> {<<1, 2>>, <<1, 3, 1>>, <<1, 3, 2>>, <<1, 4>>, <<1, 6>>, <<2>>}]
MCVersions == {"old", "new"}
MCTop == <<1>>
MCEntries == 3 .. 6
=============================================================================
