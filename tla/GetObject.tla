----------------------------- MODULE GetObject -----------------------------
(***************************************************************************)
(* HeadObject and GetObject of the lambda: head_object_handler and         *)
(* get_object_handler of main.rs over do_extract_one of squashfs_v1.rs,    *)
(* answering one client that asks for the length of an object and then     *)
(* downloads it, whole or range by range.                                  *)
(*                                                                         *)
(* The client, S3 and the calling of instances are external: any instance  *)
(* may answer any request, answers get lost and are asked for again, and   *)
(* an instance is replaced by a new one, with an empty temporary directory *)
(* and perhaps another version of the archive in its cache.  The key has a *)
(* mapping, and Local::new and the hook are those of SharedCache: here a   *)
(* read of the archive gives the archive's bytes, or an error.             *)
(*                                                                         *)
(* Sizes are in units; the unit k of an object of version v is <<v, k>>.   *)
(***************************************************************************)
EXTENDS Integers, Sequences

CONSTANTS
  Instance,    \* the lambda instances
  Versions,    \* the versions of the archive
  Targets,     \* the keys the client asks for
  KindOf,      \* KindOf[v][t]: "file", "dir", "link" or "none"
  SizeOf,      \* SizeOf[v][t]: the size in the inode
  Packed,      \* the files whose end is packed in a fragment block
  Unsettable,  \* the files with metadata that may not be settable on the output
  BlockSize,   \* sb.block_size
  HalfInt,     \* 2^31: an i32 holds -HalfInt .. HalfInt - 1
  TmpSize,     \* the space in the temporary directory of an instance
  Step,        \* the length of the ranges the client asks for
  MaxTries,    \* how often the client asks in vain before it gives up
  Lost,        \* do answers get lost
  NoTarget, NoRange, BadRange

ASSUME ObjectsAssumption ==
  /\ KindOf \in [Versions -> [Targets -> {"file", "dir", "link", "none"}]]
  /\ SizeOf \in [Versions -> [Targets -> Nat]]
  /\ BlockSize \in Nat \ {0} /\ HalfInt \in Nat \ {0}
  /\ Lost \in BOOLEAN
  /\ TmpSize \in Nat /\ Step \in Nat \ {0} /\ MaxTries \in Nat

ASSUME SentinelAssumption ==
  /\ NoTarget \notin Targets
  /\ NoRange # BadRange
  /\ {NoRange, BadRange} \cap [first : Nat, last : Nat] = {}

VARIABLES
  version,  \* version[i]: the version of the archive in i's cache
  free,     \* free[i]: what is left of i's temporary directory
  pc,       \* where the request is: with the client, in a handler, or answered
  by,       \* the instance the request is with, or was with last
  target,   \* the key the client asks for
  range,    \* the range header of the request
  blk,      \* i of do_extract_one: the blocks done
  rest,     \* file_size of do_extract_one: what is left to extract
  out,      \* the temporary file of the request
  reply,    \* the answer
  size,     \* the content-length the client was given by HeadObject
  have,     \* what the client has downloaded
  tries,    \* how often it has asked in vain
  skipped,  \* history: how many blocks were left out of the output of this request
  gaps      \* history: and of the outputs that what the client has is from

extractVars == <<blk, rest, out>>
clientVars == <<target, size, have, tries, gaps>>
vars == <<version, free, pc, by, range, extractVars, reply, clientVars, skipped>>

Ended == {"idle", "whole", "refused"}
Labels ==
  Ended \cup {"head", "headed", "ask", "extract", "block", "meta", "respond", "answered"}

NoReply == [status |-> 0, length |-> 0, body |-> << >>]
Status(code) == [status |-> code, length |-> 0, body |-> << >>]

Init ==
  /\ version \in [Instance -> Versions]
  /\ free = [i \in Instance |-> TmpSize]
  /\ pc = "idle"
  /\ by \in Instance
  /\ target = NoTarget
  /\ range = NoRange
  /\ blk = 0 /\ rest = 0 /\ out = << >>
  /\ reply = NoReply
  /\ size = 0 /\ have = << >> /\ tries = 0
  /\ skipped = 0 /\ gaps = 0

Content(v, t) == [k \in 1 .. SizeOf[v][t] |-> <<v, k>>]
Kind == KindOf[version[by]][target]
FileSize == SizeOf[version[by]][target]

---------------------------------------------------------------------------
(* head_object_handler *)

\* "as i32".
AsI32(n) == ((n + HalfInt) % (2 * HalfInt)) - HalfInt

\* Everything but a directory has a length, that of a symbolic link is its target's name's.
HeadObject(i) ==
  /\ pc = "head"
  /\ by' = i
  /\ reply' = IF KindOf[version[i]][target] \in {"none", "dir"} THEN Status(404)
              ELSE [status |-> 200, length |-> AsI32(SizeOf[version[i]][target]), body |-> << >>]
  /\ pc' = "headed"
  /\ UNCHANGED <<version, free, range, extractVars, clientVars, skipped>>

---------------------------------------------------------------------------
(* get_object_handler, up to the extraction *)

Reply(r) ==
  /\ reply' = r
  /\ pc' = "answered"
  /\ blk' = 0 /\ rest' = 0 /\ out' = << >>

\* The request reaches an instance, with its range.
GetObject(i, r) ==
  /\ pc = "ask"
  /\ by' = i
  /\ range' = r
  /\ pc' = "extract"
  /\ UNCHANGED <<version, free, extractVars, reply, clientVars, skipped>>

---------------------------------------------------------------------------
(* do_extract_one *)

\* The output file is created, then the path looked up: it must be a regular file.  Any
\* error is answered with 404.
BeginExtract ==
  /\ pc = "extract"
  /\ Kind = "file"
  /\ rest' = FileSize
  /\ pc' = "block"
  /\ UNCHANGED <<version, free, by, range, blk, out, reply, clientVars, skipped>>

NotExtracted ==
  /\ pc = "extract"
  /\ Kind = "file" => free[by] = 0
  /\ Reply(Status(404))
  /\ UNCHANGED <<version, free, by, range, clientVars, skipped>>

\* blk_cnt: the blocks of the file; a fragment holds what does not fill a block.
BlockCount ==
  IF target \in Packed THEN FileSize \div BlockSize
                       ELSE (FileSize + BlockSize - 1) \div BlockSize

\* The length of the next block, or of the fragment after the last one.
NextLength == IF rest < BlockSize THEN rest ELSE BlockSize
MoreBlocks == blk < BlockCount \/ rest > 0

\* write(2), called once for each block, writes what there is space for; with no space at
\* all it fails.
WrittenAlways(n) == n   \* seeded fault: the space is not looked at
Written(n) == IF n <= free[by] THEN n ELSE free[by]
Writable(n) == n = 0 \/ Written(n) > 0
Write(at, n) ==
  /\ out' = out \o SubSeq(Content(version[by], target), at + 1, at + n)
  /\ free' = [free EXCEPT ![by] = @ - n]

ExtractFromStart ==   \* seeded fault: the fragment's place is not added to its block's
  /\ pc = "block" /\ MoreBlocks
  /\ Writable(NextLength)
  /\ Write(IF blk < BlockCount THEN FileSize - rest ELSE 0, Written(NextLength))
  /\ rest' = rest - NextLength
  /\ blk' = blk + 1
  /\ UNCHANGED <<version, pc, by, range, reply, clientVars, skipped>>
ExtractBlock ==
  /\ pc = "block" /\ MoreBlocks
  /\ Writable(NextLength)
  /\ Write(FileSize - rest, Written(NextLength))
  /\ rest' = rest - NextLength
  /\ blk' = blk + 1
  /\ UNCHANGED <<version, pc, by, range, reply, clientVars, skipped>>

\* Any read of the archive may fail.  The error of sqfs_data_reader_get_block is negative
\* and not recognised: the block is taken for one of no bytes.
StartOver ==   \* seeded fault: a block that cannot be read begins the file anew
  /\ pc = "block" /\ MoreBlocks
  /\ rest' = FileSize /\ blk' = 0 /\ out' = << >>
  /\ free' = [free EXCEPT ![by] = @ + Len(out)]
  /\ skipped' = 1
  /\ UNCHANGED <<version, pc, by, range, reply, clientVars>>
SkipBlock ==
  /\ pc = "block" /\ MoreBlocks
  /\ rest' = rest - NextLength
  /\ blk' = blk + 1
  /\ skipped' = skipped + 1
  /\ UNCHANGED <<version, free, pc, by, range, out, reply, clientVars>>

WriteFailsShort ==   \* seeded fault: a short write is an error, as with write_all
  /\ pc = "block" /\ MoreBlocks
  /\ Written(NextLength) < NextLength
  /\ Reply(Status(404))
  /\ UNCHANGED <<version, free, by, range, clientVars, skipped>>
WriteFails ==
  /\ pc = "block" /\ MoreBlocks
  /\ ~Writable(NextLength)
  /\ Reply(Status(404))
  /\ UNCHANGED <<version, free, by, range, clientVars, skipped>>

BlocksDone ==
  /\ pc = "block" /\ ~MoreBlocks
  /\ pc' = "meta"
  /\ UNCHANGED <<version, free, by, range, extractVars, reply, clientVars, skipped>>

\* Permissions, times and extended attributes of the output; one that cannot be set is an
\* error, and a 404.
SetMetadata ==
  /\ pc = "meta"
  /\ pc' = "respond"
  /\ UNCHANGED <<version, free, by, range, extractVars, reply, clientVars, skipped>>

SetMetadataFails ==
  /\ target \in Unsettable
  /\ pc = "meta"
  /\ Reply(Status(404))
  /\ UNCHANGED <<version, free, by, range, clientVars, skipped>>

---------------------------------------------------------------------------
(* get_object_handler, after the extraction: the range is one of the file as the inode *)
(* has it, and is read from the temporary file, which stays where it is. *)

\* HttpRange::parse: a range that begins inside the file is cut at its end.
Satisfiable(r) == r = NoRange \/ (r # BadRange /\ r.first < FileSize)
Offset(r) == IF r = NoRange THEN 0 ELSE r.first
Length(r) ==
  IF r = NoRange THEN FileSize
  ELSE (IF r.last < FileSize THEN r.last ELSE FileSize - 1) - r.first + 1

\* ByteStream: exactly so many bytes must be there.
Streamable(r) == Offset(r) + Length(r) <= Len(out)

RespondFromStart ==   \* seeded fault: offset is not passed on to the stream
  /\ pc = "respond"
  /\ Reply(IF ~Satisfiable(range) THEN Status(416)
           ELSE IF ~Streamable(range) THEN Status(400)
           ELSE [status |-> IF range = NoRange THEN 200 ELSE 206,
                 length |-> Length(range),
                 body |-> SubSeq(out, 1, Length(range))])
  /\ UNCHANGED <<version, free, by, range, clientVars, skipped>>
Respond ==
  /\ pc = "respond"
  /\ Reply(IF ~Satisfiable(range) THEN Status(416)
           ELSE IF ~Streamable(range) THEN Status(400)
           ELSE [status |-> IF range = NoRange THEN 200 ELSE 206,
                 length |-> Length(range),
                 body |-> SubSeq(out, Offset(range) + 1, Offset(range) + Length(range))])
  /\ UNCHANGED <<version, free, by, range, clientVars, skipped>>

Handler ==
  \/ BeginExtract \/ NotExtracted \/ ExtractBlock \/ SkipBlock \/ WriteFails \/ BlocksDone
  \/ SetMetadata \/ SetMetadataFails \/ Respond

---------------------------------------------------------------------------
(* The client, and the instances around it *)

\* A download begins with the length.
Begin(t) ==
  /\ pc \in Ended
  /\ target' = t
  /\ size' = 0 /\ have' = << >> /\ tries' = 0 /\ gaps' = 0
  /\ pc' = "head"
  /\ UNCHANGED <<version, free, by, range, extractVars, reply, skipped>>

Received ==
  /\ reply' = NoReply /\ range' = NoRange /\ skipped' = 0
  /\ UNCHANGED <<version, free, by, extractVars>>

ReceiveHead ==
  /\ pc = "headed"
  /\ size' = reply.length
  /\ pc' = IF reply.status = 200 /\ reply.length >= 0 THEN "ask" ELSE "refused"
  /\ Received
  /\ UNCHANGED <<target, have, tries, gaps>>

\* The object whole, or the next range of it.
NextRange == [first |-> Len(have), last |-> Len(have) + Step - 1]
Wishes == (IF have = << >> THEN {NoRange, BadRange} ELSE {})
          \cup (IF Len(have) < size THEN {NextRange} ELSE {})

Receive ==
  /\ pc = "answered" /\ reply.status \in {200, 206}
  /\ have' = have \o reply.body
  /\ pc' = IF reply.status = 200 \/ Len(have') >= size THEN "whole" ELSE "ask"
  /\ tries' = 0
  /\ gaps' = gaps + skipped
  /\ Received
  /\ UNCHANGED <<target, size>>

\* An error, or no answer: the client asks again, and gives up in the end.
ReceiveError ==
  /\ pc \in {"headed", "answered"}
  /\ Lost \/ reply.status \notin {200, 206}
  /\ IF tries < MaxTries
       THEN pc' = (IF pc = "headed" THEN "head" ELSE "ask") /\ tries' = tries + 1
       ELSE pc' = "refused" /\ UNCHANGED tries
  /\ Received
  /\ UNCHANGED <<target, size, have, gaps>>

\* An instance that is not at work ends, and another one starts in its place.
Replace(i, v) ==
  /\ pc \in Ended \cup {"head", "ask"}
  /\ version' = [version EXCEPT ![i] = v]
  /\ free' = [free EXCEPT ![i] = TmpSize]
  /\ UNCHANGED <<pc, by, range, extractVars, reply, clientVars, skipped>>

\* The request under way, and the answer to it.
Serve ==
  \/ \E i \in Instance : HeadObject(i)
  \/ \E i \in Instance, r \in Wishes : GetObject(i, r)
  \/ Handler
  \/ ReceiveHead \/ Receive \/ ReceiveError

Next ==
  \/ Serve
  \/ \E t \in Targets : Begin(t)
  \/ \E i \in Instance, v \in Versions : Replace(i, v)

Spec == Init /\ [][Next]_vars

\* A request that reached an instance is worked on, and the client goes on with the answer.
FairSpec == Spec /\ WF_vars(Serve)

---------------------------------------------------------------------------
(* Properties *)

\* Every variable has its type; the temporary file is never longer than the file, and no
\* instance uses more space than it has.
GetTypeOK ==
  /\ version \in [Instance -> Versions]
  /\ free \in [Instance -> 0 .. TmpSize]
  /\ pc \in Labels /\ by \in Instance
  /\ target \in Targets \cup {NoTarget}
  /\ tries \in 0 .. MaxTries
  /\ pc \in {"head", "ask"} \cup Ended => reply = NoReply /\ range = NoRange
  /\ pc \in {"block", "meta", "respond"} =>
       Kind = "file" /\ rest \in 0 .. FileSize /\ Len(out) + rest <= FileSize
  /\ size >= -HalfInt /\ size < HalfInt
  /\ skipped \in Nat /\ gaps \in Nat

Slice(first, length) == SubSeq(Content(version[by], target), first + 1, first + length)

\* Whatever failed on the way, an answer of 200 carries the whole file: blocks that are
\* skipped and writes that are cut short leave a temporary file that is too short for it.
WholeAnswersRight ==
  pc = "answered" /\ reply.status = 200 =>
    Kind = "file" /\ reply.body = Content(version[by], target)

\* A download that ends has every unit at its place, although each part may have been
\* extracted by another instance, from another version; and if HeadObject and the parts
\* came from one version, it is the file.  That is so unless a block was skipped in the
\* extraction for one of its ranges: the answer is a 206 all the same, and units that come
\* later in the file stand in the place of those that are missing.  It says nothing of a
\* length that HeadObject gave wrong: a client that is told less has less.
DownloadRight ==
  pc = "whole" =>
    /\ \A k \in DOMAIN have : have[k][2] >= k
    /\ gaps = 0 =>
         /\ \A k \in DOMAIN have : have[k][2] = k
         /\ \A v \in Versions :
              (/\ have # << >>
               /\ \A k \in DOMAIN have : have[k][1] = v
               /\ size = SizeOf[v][target]) => have = Content(v, target)

\* A file that is there, and has nothing unsettable, is said not to be found only by an
\* instance whose temporary directory is full: the files extracted before are never
\* removed from it.
FoundUnlessFull ==
  pc = "answered" /\ reply.status = 404 /\ Kind = "file" /\ target \notin Unsettable =>
    free[by] = 0

\* A download ends.
DownloadEnds == pc = "head" ~> pc \in Ended
==============================================================================
