------------------------------- MODULE Mount -------------------------------
(***************************************************************************)
(* A FUSE mount of an archive under whose key another archive may be       *)
(* installed at any time: the operations ops_* of s3archivefs-fuse with    *)
(* the reader they call (squashfs.rs), over one cache file that outlives   *)
(* the mount and that the command line may make anew with force.           *)
(*                                                                         *)
(* The versions of the archive are numbered in the order they are          *)
(* installed.  The unit is the page, as in CacheFile, and what matters of  *)
(* a page in the cache is the version it was fetched from, and whether it  *)
(* was written as a whole: a stream that breaks off, or a process that is  *)
(* killed, leaves a page in part, and lseek takes it for data from then    *)
(* on.  One process uses the cache at a time, it finds holes with lseek,   *)
(* and the FUSE loop has one thread; what several processes do to one      *)
(* file is SharedCache's.                                                  *)
(*                                                                         *)
(* The bytes of a block, the stat of a path, the target of a link and the  *)
(* value of an attribute are named by what they are of.                    *)
(***************************************************************************)
EXTENDS Integers, SequencesExt

CONSTANTS
  MaxVersion,   \* how many archives are installed in turn
  LastPage,     \* the last page of the archive
  ChunkPages,   \* 1 << chunk_log, in pages
  MetaStart,    \* the page the metadata copy starts at, the first of a chunk
  IdPage,       \* the page of the id table, which the reader is opened with
  Blocks,       \* the data blocks and fragments
  At,           \* At[b]: the pages b begins and ends in, and that of the byte after it
  Paths,        \* the paths the archive has
  Kind,         \* Kind[f]: "file", "dir" or "link"
  Content,      \* Content[f]: the blocks of a file, the names in a directory
  AttrNames,    \* the names of extended attributes
  Attrs,        \* Attrs[f]: those of f, in their order
  Begins,       \* the pairs of attribute names of which one begins with the other
  Requests,     \* what the kernel asks, see RequestAssumption
  Faults,       \* what may fail: "head", "range", "stream", "io", "kill"
  Hole, Mixed, NoReq, NoReply

Pages == 0 .. LastPage
MetaPages == MetaStart .. LastPage
Versions == 1 .. MaxVersion

ASSUME ArchiveAssumption ==
  /\ MaxVersion \in Nat \ {0} /\ LastPage \in Nat /\ ChunkPages \in Nat \ {0}
  /\ MetaStart \in Pages /\ MetaStart % ChunkPages = 0 /\ IdPage \in MetaPages
  /\ \A b \in Blocks : At[b].first \in Pages /\ At[b].last \in At[b].first .. LastPage
                       /\ At[b].stop \in At[b].last .. LastPage
  /\ \A f \in Paths : Kind[f] \in {"file", "dir", "link"}
  /\ \A f \in Paths : Kind[f] = "file" => Content[f] \in Seq(Blocks)
  /\ \A f \in Paths : Kind[f] = "dir" => Content[f] \in Seq(Paths)
  /\ \A f \in Paths : Attrs[f] \in Seq(AttrNames)

\* Bytes that are not the archive's: of another version, or the zeros of a page in part.
Garbage == "garbage"

\* What a call is answered with: a code, the data, and its size.
Codes == {"ok", "EACCES", "EIO", "ENOENT", "ENODATA", "ERANGE"}
Items == Blocks \cup Paths \cup AttrNames \cup {Garbage}
FsAnswers == [code : Codes, data : Seq(Items), size : Nat]

ASSUME SentinelAssumption ==
  /\ Hole \notin Versions /\ Mixed \notin Versions /\ Hole # Mixed
  /\ NoReply \notin FsAnswers

\* The kernel looks a path up before it asks more of it, so that it knows its kind; off and
\* size count blocks, names or, for a link's target and an attribute, halves of it.
ASSUME RequestAssumption ==
  /\ NoReq \notin Requests
  /\ \A r \in Requests :
       /\ r.op \in {"open", "getattr", "read", "readdir", "readlink", "getxattr", "listxattr"}
       /\ r.op = "open" => r.write \in BOOLEAN
       /\ r.op = "read" => r.path \in Paths /\ Kind[r.path] = "file"
       /\ r.op = "readdir" => r.path \in Paths /\ Kind[r.path] = "dir"
       /\ r.op = "read" => r.off \in Nat /\ r.size \in Nat

VARIABLES
  object,   \* the version under the key in S3
  exists,   \* is there a cache file
  page,     \* page[g]: the version page g of the file was fetched from, Hole or Mixed
  torn,     \* the pages that are written in part, with zeros for the rest
  fileSb,   \* the version of the superblock in the file
  born,     \* observes: the version of the superblock the file was made with
  copied,   \* observes: the version its metadata was copied from
  role,     \* the process: "mount", or a "command" of the command line, or one with "force"
  sb,       \* the version of the superblock the process has in its memory
  pc,       \* where the process is
  req,      \* the request being served
  bytes,    \* the blocks, or the names, collected for it so far
  held,     \* what libsquashfs has allocated for it and was not given back
  reply,    \* the answer
  spoilt    \* observes: what the file, or the disk, kept from the request; see Call

fileVars == <<object, exists, page, torn, fileSb, born, copied>>
procVars == <<role, sb>>
reqVars == <<req, bytes, held, reply, spoilt>>
mountVars == <<fileVars, procVars, pc, reqVars>>

NoVersion == 0

Init ==
  /\ object = 1
  /\ exists = FALSE
  /\ page = [g \in Pages |-> Hole] /\ torn = {}
  /\ fileSb = NoVersion /\ born = NoVersion /\ copied = NoVersion
  /\ role = "mount" /\ sb = NoVersion
  /\ pc = "dead"
  /\ req = NoReq /\ bytes = << >> /\ held = {} /\ reply = NoReply /\ spoilt = {}

Goto(label) == pc' = label

---------------------------------------------------------------------------
(* Local::new, at the granularity at which another version can come between *)

\* main of s3archivefs-fuse, which never forces, or a command of s3archivefs.
Start(r) ==
  /\ pc = "dead"
  /\ role' = r
  /\ Goto("exists")
  /\ UNCHANGED <<fileVars, sb, reqVars>>

CheckExists ==
  /\ pc = "exists"
  /\ Goto(IF exists /\ role # "force" THEN "open" ELSE "head")
  /\ UNCHANGED <<fileVars, procVars, reqVars>>

\* The superblock in the object's metadata.
GetMetadata ==
  /\ pc = "head"
  /\ sb' = object
  /\ Goto("create")
  /\ UNCHANGED <<fileVars, role, reqVars>>

\* The file is created, or truncated if forced, gets its length by a zero byte at its end,
\* and the superblock is written: the page at either end counts as data from now on.
CreateKeeping ==   \* seeded fault: not truncated when forced
  /\ pc = "create"
  /\ exists' = TRUE
  /\ page' = [page EXCEPT ![LastPage] = Mixed, ![0] = sb]
  /\ torn' = torn \cup {0}
  /\ fileSb' = sb /\ born' = sb /\ copied' = NoVersion
  /\ Goto("metacopy")
  /\ UNCHANGED <<object, procVars, reqVars>>
NewFile(s) == [g \in Pages |-> IF g = 0 THEN s ELSE IF g = LastPage THEN Mixed ELSE Hole]
Create ==
  /\ pc = "create"
  /\ exists' = TRUE
  /\ page' = NewFile(sb) /\ torn' = {0}
  /\ fileSb' = sb /\ born' = sb /\ copied' = NoVersion
  /\ Goto("metacopy")
  /\ UNCHANGED <<object, procVars, reqVars>>

\* A stream of the object's current version is written over the pages done, and over the
\* beginning of those in part.
Written(done, part) ==
  [g \in Pages |->
     IF g \in done \/ (g \in part /\ page[g] \in {Hole, object}) THEN object
     ELSE IF g \in part THEN Mixed ELSE page[g]]
Write(done, part) ==
  /\ page' = Written(done, part)
  /\ torn' = (torn \ done) \cup {g \in part : page[g] = Hole}
  /\ fileSb' = IF 0 \in done \cup part THEN object ELSE fileSb

\* The first page of the chunk of page g, and the last one there is of it.
AlignDown(g) == (g \div ChunkPages) * ChunkPages
ChunkStarts == {g \in Pages : AlignDown(g) = g}
ChunkEnd(g) ==
  LET last == AlignDown(g) + ChunkPages - 1 IN IF last < LastPage THEN last ELSE LastPage

\* A stream that starts at page g and ends early, at or in page n.
WriteUpTo(g, n) == \E part \in SUBSET {n} : Write(g .. n - 1, part)

CopyMeta ==
  /\ pc = "metacopy"
  /\ Write(MetaPages, {})
  /\ copied' = object
  /\ Goto("open")
  /\ UNCHANGED <<object, exists, born, procVars, reqVars>>

\* The process ends, in a panic or otherwise; its memory and its request are gone.
End ==
  /\ Goto("dead")
  /\ role' = "mount" /\ sb' = NoVersion
  /\ req' = NoReq /\ bytes' = << >> /\ held' = {} /\ reply' = NoReply /\ spoilt' = {}

StartFails ==
  /\ \/ "head" \in Faults /\ pc = "head"
     \/ "range" \in Faults /\ pc = "metacopy"
  /\ End
  /\ UNCHANGED fileVars

MetaBreaks(n) ==
  /\ "stream" \in Faults
  /\ pc = "metacopy" /\ n \in MetaPages
  /\ WriteUpTo(MetaStart, n)
  /\ End
  /\ UNCHANGED <<object, exists, born, copied>>

\* A page that has the bytes it had in the archive of the process's superblock.
Sound(g) == page[g] = sb /\ g \notin torn

\* new_from_file: the superblock of the file, and the id table.  A table of another version,
\* or one that is there in part, may pass for one; what lies behind it is not looked at.
Open ==
  /\ pc = "open"
  /\ page[IdPage] # Hole
  /\ sb' = fileSb
  /\ Goto("ready")
  /\ UNCHANGED <<fileVars, role, reqVars>>

OpenFails ==
  /\ pc = "open"
  /\ page[IdPage] # fileSb \/ IdPage \in torn \/ "io" \in Faults
  /\ End
  /\ UNCHANGED fileVars

---------------------------------------------------------------------------
(* The operations: what they have in common *)

Ok(data) == [code |-> "ok", data |-> data, size |-> Len(data)]
Size(n) == [code |-> "ok", data |-> << >>, size |-> n]
Err(code) == [code |-> code, data |-> << >>, size |-> 0]

\* The call returns, and leaves behind what it has not given back.
Return(a, left) ==
  /\ reply' = a
  /\ held' = left
  /\ bytes' = << >>
  /\ Goto("done")
  /\ UNCHANGED <<procVars, req, spoilt>>

\* It returns without what it has been kept from.
ReturnWithout(x, a, left) ==
  /\ reply' = a
  /\ held' = left
  /\ bytes' = << >>
  /\ spoilt' = spoilt \cup x
  /\ Goto("done")
  /\ UNCHANGED <<procVars, req>>

\* The metadata in the file is of the superblock the process works with.
MetaFits == \A g \in MetaPages : Sound(g)

PagesOf(b) == At[b].first .. At[b].last
TornBlocks == {b \in Blocks : PagesOf(b) \cap torn # {}}

\* A read is kept from the blocks that the file has in part when it is called, and a readdir
\* from the directory that the disk does not give it.
Call(r) ==
  /\ pc = "ready" /\ role = "mount"
  /\ req' = r
  /\ spoilt' = IF r.op = "read" THEN TornBlocks ELSE {}
  /\ Goto(IF r.op = "open" THEN "open_op" ELSE "lookup")
  /\ UNCHANGED <<fileVars, procVars, bytes, held, reply>>

\* ops_open does not look at the archive.
OpenOp ==
  /\ pc = "open_op"
  /\ Return(IF req.write THEN Err("EACCES") ELSE Size(0), held)
  /\ UNCHANGED fileVars

\* sqfs_dir_reader_find_by_path; readdir keeps the directory reader.
Lookup ==
  /\ pc = "lookup" /\ MetaFits /\ req.path \in Paths
  /\ held' = IF req.op = "readdir" THEN {"inode", "dr"} ELSE {"inode"}
  /\ Goto(req.op)
  /\ UNCHANGED <<fileVars, procVars, req, bytes, reply, spoilt>>

\* Every error is taken for a path that is not there, and by ops_readdir for a directory
\* with nothing in it, whose reader is forgotten.
NotFound(op) ==
  CASE op = "getxattr" -> Err("ENODATA") [] op = "readdir" -> Ok(<< >>) [] OTHER -> Err("ENOENT")
LookupFails ==
  /\ pc = "lookup"
  /\ req.path \notin Paths \/ ~MetaFits \/ "io" \in Faults
  /\ IF req.op = "readdir" THEN ReturnWithout({req.path}, NotFound(req.op), {"dr"})
                           ELSE Return(NotFound(req.op), {})
  /\ UNCHANGED fileVars

\* Metadata of another version: whatever it is taken for, the call may read, and so fetch,
\* any chunks of the file, and answers something.  (That such a fetch may break off is left
\* out: only a file made anew is fresh again.)
Misread(i, j) ==
  /\ pc = "lookup" /\ ~MetaFits
  /\ Write(i .. ChunkEnd(j), {})
  /\ Return(Ok(<<Garbage>>), {})
  /\ UNCHANGED <<object, exists, born, copied>>

\* A table that does not load is a panic, which ends the mount.
HasAttrs(f) == Attrs[f] # << >>
LooksAtAttrs(f) ==
  \/ pc \in {"getattr", "getxattr", "listxattr"} /\ f = req.path
  \/ pc = "entries" /\ Len(bytes) < Len(Content[req.path]) /\ f = Content[req.path][Len(bytes) + 1]
TablePanics ==
  /\ \/ pc = "lookup" /\ ~MetaFits
     \/ "io" \in Faults /\ (pc = "read" \/ \E f \in Paths : HasAttrs(f) /\ LooksAtAttrs(f))
  /\ End
  /\ UNCHANGED fileVars

---------------------------------------------------------------------------
(* read *)

LoadFragments ==
  /\ pc = "read"
  /\ held' = held \cup {"data"}
  /\ Goto("blocks")
  /\ UNCHANGED <<fileVars, procVars, req, bytes, reply, spoilt>>

\* The loop asks again, behind what it has, until it has size or is at the end.
NextBlockAgain == req.off + 1   \* seeded fault: always from the offset of the request
NextBlock == req.off + Len(bytes) + 1
More == Len(bytes) < req.size /\ NextBlock <= Len(Content[req.path])
Block == Content[req.path][NextBlock]

\* lseek(SEEK_HOLE): a page in part is no hole.
Holes(b) == {g \in PagesOf(b) : page[g] = Hole}

\* archive_read_at fetches from the chunk of the first hole to the end of the chunk of the
\* byte behind the block.
FetchFirst(b) == AlignDown(Min(Holes(b)))
FetchLast(b) == ChunkEnd(At[b].stop)
Missing == pc = "blocks" /\ More /\ Holes(Block) # {}

FetchBlock ==
  /\ Missing
  /\ Write(FetchFirst(Block) .. FetchLast(Block), {})
  /\ Goto("raw")
  /\ UNCHANGED <<object, exists, born, copied, procVars, reqVars>>

\* The file is read once nothing is missing, or after the fetch, whatever it brought.  Zeros
\* may be what an uncompressed block is left with.
Present == pc = "raw" \/ (pc = "blocks" /\ More /\ Holes(Block) = {})
ReadBlock ==
  /\ Present
  /\ bytes' = Append(bytes, IF \A g \in PagesOf(Block) : Sound(g) THEN Block ELSE Garbage)
  /\ Goto("blocks")
  /\ UNCHANGED <<fileVars, procVars, req, held, reply, spoilt>>

\* Nothing more is given back: inode and data reader are what read still has.
ReadReturns(a) == Return(a, held \ {"inode", "data"})

BlockUnreadable ==
  /\ \/ "range" \in Faults /\ Missing
     \/ Present /\ ("io" \in Faults \/ \E g \in PagesOf(Block) : ~Sound(g))
  /\ ReadReturns(Err("EIO"))
  /\ UNCHANGED fileVars

\* The stream breaks at, or in, page n.
FetchBreaks(n) ==
  /\ "stream" \in Faults
  /\ Missing /\ n \in FetchFirst(Block) .. FetchLast(Block)
  /\ WriteUpTo(FetchFirst(Block), n)
  /\ ReadReturns(Err("EIO"))
  /\ UNCHANGED <<object, exists, born, copied>>

ReadEndFull ==   \* seeded fault: the end of the file, a read of nothing, is not looked at
  /\ pc = "blocks" /\ Len(bytes) = req.size
  /\ ReadReturns(Ok(bytes))
  /\ UNCHANGED fileVars
ReadEnd ==
  /\ pc = "blocks" /\ ~More
  /\ ReadReturns(Ok(bytes))
  /\ UNCHANGED fileVars

ReadStep ==
  \/ LoadFragments \/ FetchBlock \/ ReadBlock \/ BlockUnreadable \/ ReadEnd
  \/ \E n \in Pages : FetchBreaks(n)

---------------------------------------------------------------------------
(* readdir, getattr, readlink, getxattr, listxattr *)

OpenDir ==
  /\ pc = "readdir"
  /\ held' = held \ {"inode"}
  /\ Goto("entries")
  /\ UNCHANGED <<fileVars, procVars, req, bytes, reply, spoilt>>

\* A directory that does not open is empty, and its reader is forgotten.
OpenDirFails ==
  /\ "io" \in Faults
  /\ pc = "readdir"
  /\ ReturnWithout({req.path}, Ok(<< >>), held \ {"inode"})
  /\ UNCHANGED fileVars

\* What generic_inode_to_stat leaves behind: its xattr reader, if it needs one.
StatLeaves(f) == IF HasAttrs(f) THEN {"xr"} ELSE {}

NextEntry ==
  /\ pc = "entries" /\ Len(bytes) < Len(Content[req.path])
  /\ LET name == Content[req.path][Len(bytes) + 1] IN
       /\ bytes' = Append(bytes, name)
       /\ held' = held \cup StatLeaves(name)
  /\ UNCHANGED <<fileVars, procVars, pc, req, reply, spoilt>>

ReaddirEndKeeping ==   \* seeded fault: DirReader has no Drop
  /\ pc = "entries" /\ Len(bytes) = Len(Content[req.path])
  /\ Return(Ok(bytes), held)
  /\ UNCHANGED fileVars
ReaddirEnd ==
  /\ pc = "entries" /\ Len(bytes) = Len(Content[req.path])
  /\ Return(Ok(bytes), held \ {"dr"})
  /\ UNCHANGED fileVars

\* An entry that cannot be read is taken for the end of the directory.
EntryFails ==
  /\ "io" \in Faults
  /\ pc = "entries"
  /\ ReturnWithout({req.path}, Ok(bytes), held \ {"dr"})
  /\ UNCHANGED fileVars

Stat ==
  /\ pc = "getattr"
  /\ Return(Ok(<<req.path>>), (held \ {"inode"}) \cup StatLeaves(req.path))
  /\ UNCHANGED fileVars

\* A target, or an attribute, is two halves.
ItemSize == 2

\* The target needs room for its terminating zero; what is not a link has an empty target.
Target(r) ==
  IF Kind[r.path] # "link" THEN Size(0)
  ELSE IF ItemSize + 1 > r.size THEN Err("EIO") ELSE Ok(<<r.path>>)

Readlink ==
  /\ pc = "readlink"
  /\ Return(Target(req), held \ {"inode"})
  /\ UNCHANGED fileVars

\* The attributes of f whose name begins with n: strncmp has the length of n.
Matches(f, n) == {i \in DOMAIN Attrs[f] : <<n, Attrs[f][i]>> \in Begins}

\* The answer that has the value of attribute n, to a caller with room for size.
Value(n, size) ==
  IF size = 0 THEN Size(ItemSize)
  ELSE IF size < ItemSize THEN Err("ERANGE") ELSE [Size(ItemSize) EXCEPT !.data = <<n>>]

\* The first match; a file that has attributes, but not this one, gives an empty value.
Getxattr ==
  /\ pc = "getxattr"
  /\ LET found == Matches(req.path, req.name) IN
     Return(IF ~HasAttrs(req.path) THEN Err("ENODATA")
            ELSE IF found = {} THEN Size(0)
            ELSE Value(Attrs[req.path][Min(found)], req.size), held \ {"inode"})
  /\ UNCHANGED fileVars

\* No attributes is an error; a call with room for nothing asks for the size.
Names(r) ==
  IF ~HasAttrs(r.path) THEN Err("ENOENT")
  ELSE [Size(ItemSize * Len(Attrs[r.path])) EXCEPT
          !.data = IF r.size = 0 THEN << >> ELSE Attrs[r.path]]

Listxattr ==
  /\ pc = "listxattr"
  /\ Return(Names(req), held \ {"inode"})
  /\ UNCHANGED fileVars

---------------------------------------------------------------------------

\* FUSE takes the answer.
TakeKeeping ==   \* seeded fault: the request outlives its answer
  /\ pc = "done"
  /\ held' = {} /\ reply' = NoReply /\ spoilt' = {}
  /\ Goto("ready")
  /\ UNCHANGED <<fileVars, procVars, req, bytes>>
Take ==
  /\ pc = "done"
  /\ req' = NoReq /\ held' = {} /\ reply' = NoReply /\ spoilt' = {}
  /\ Goto("ready")
  /\ UNCHANGED <<fileVars, procVars, bytes>>

\* The mount is taken down, or the command has done its work.
Exit ==
  /\ pc = "ready"
  /\ End
  /\ UNCHANGED fileVars

\* Between two steps, or while a stream is copied to page n.
Kill ==
  /\ "kill" \in Faults
  /\ pc # "dead"
  /\ End
  /\ UNCHANGED fileVars

KillCopying(n) ==
  /\ "kill" \in Faults
  /\ \/ pc = "metacopy" /\ n \in MetaPages /\ WriteUpTo(MetaStart, n)
     \/ /\ Missing /\ n \in FetchFirst(Block) .. FetchLast(Block)
        /\ WriteUpTo(FetchFirst(Block), n)
  /\ End
  /\ UNCHANGED <<object, exists, born, copied>>

\* Another archive is installed under the key.
Install ==
  /\ object < MaxVersion
  /\ object' = object + 1
  /\ UNCHANGED <<exists, page, torn, fileSb, born, copied, procVars, pc, reqVars>>

StartStep ==
  \/ CheckExists \/ GetMetadata \/ Create \/ CopyMeta \/ StartFails \/ Open \/ OpenFails
  \/ \E n \in Pages : MetaBreaks(n)

OpStep ==
  \/ OpenOp \/ Lookup \/ LookupFails \/ TablePanics
  \/ \E i, j \in ChunkStarts : i <= j /\ Misread(i, j)
  \/ ReadStep
  \/ OpenDir \/ OpenDirFails \/ NextEntry \/ ReaddirEnd \/ EntryFails
  \/ Stat \/ Readlink \/ Getxattr \/ Listxattr

Next ==
  \/ \E r \in {"mount", "command", "force"} : Start(r)
  \/ StartStep
  \/ \E r \in Requests : Call(r)
  \/ OpStep
  \/ Take \/ Exit \/ Kill \/ Install
  \/ \E n \in Pages : KillCopying(n)

Spec == Init /\ [][Next]_mountVars

\* S3 answers or fails, and the process goes on.
FairSpec == Spec /\ WF_mountVars(StartStep \/ OpStep)

---------------------------------------------------------------------------
(* Properties *)

Ops == {"read", "readdir", "getattr", "readlink", "getxattr", "listxattr"}
Starting == {"exists", "head", "create", "metacopy", "open"}
Serving == {"open_op", "lookup", "raw", "blocks", "entries"} \cup Ops

\* Every variable has its type; there is a request exactly while one is served, and an
\* answer exactly when it is done.
FsTypeOK ==
  /\ object \in Versions
  /\ exists \in BOOLEAN
  /\ page \in [Pages -> Versions \cup {Hole, Mixed}] /\ torn \subseteq Pages
  /\ fileSb \in Versions \cup {NoVersion} /\ born \in 0 .. object /\ copied \in 0 .. object
  /\ role \in {"mount", "command", "force"}
  /\ sb \in Versions \cup {NoVersion}
  /\ pc \in {"dead", "ready", "done"} \cup Starting \cup Serving
  /\ req \in Requests \cup {NoReq} /\ held \subseteq {"inode", "dr", "data", "xr"}
  /\ spoilt \subseteq Blocks \cup Paths
  /\ req # NoReq <=> pc \in Serving \cup {"done"}
  /\ reply # NoReply <=> pc = "done"

\* The cache was made of the archive that is now under the key.
Fresh == born = object /\ copied = object

\* Then everything in it is of that archive, and its metadata is complete, and so is the
\* superblock a process that serves from it works with: what older archives, and copies
\* that ended early, left in the file is gone.
CacheFresh ==
  Fresh =>
    /\ fileSb = object
    /\ \A g \in Pages : page[g] \in {object, Hole}
    /\ \A g \in MetaPages : page[g] = object /\ g \notin torn
    /\ pc \in Serving \cup {"ready", "done"} => sb = object

\* A call gives back what it had from libsquashfs before it answers; what it does not is the
\* xattr reader of every stat of a file with attributes, and the directory reader of a
\* directory that is not found.
Leaks(r) ==
  CASE r.op = "getattr" -> {"xr"} [] r.op = "readdir" -> {"xr", "dr"} [] OTHER -> {}
ReleasedAtReply ==
  pc = "done" =>
    /\ held \subseteq Leaks(req)
    /\ "dr" \in held => reply.data = << >>

\* What the archive has to say to a request, but for what it was kept from.
RightContent(r) == SubSeq(Content[r.path], r.off + 1, Min({r.off + r.size, Len(Content[r.path])}))
AgreesBut(x, data, right) ==
  /\ Len(data) = Len(right)
  /\ \A i \in DOMAIN right : data[i] = right[i] \/ right[i] \in x
RightNames(x, r, names) ==
  IF r.path \in x THEN IsPrefix(names, Content[r.path]) ELSE names = Content[r.path]
RightValue(r) ==
  IF r.name \in Range(Attrs[r.path]) THEN Value(r.name, r.size) ELSE Err("ENODATA")
RightAnswer(r, x, a) ==
  \/ r.op = "open" /\ a = IF r.write THEN Err("EACCES") ELSE Size(0)
  \/ /\ r.op # "open" /\ r.path \in Paths
     /\ CASE r.op = "read" -> a = Ok(a.data) /\ AgreesBut(x, a.data, RightContent(r))
          [] r.op = "readdir" -> a = Ok(a.data) /\ RightNames(x, r, a.data)
          [] r.op = "getattr" -> a = Ok(<<r.path>>)
          [] r.op = "readlink" -> a = Target(r)
          [] r.op = "getxattr" -> a = RightValue(r)
          [] r.op = "listxattr" -> a = Names(r)

\* What getxattr is known to answer instead: where a file has attributes, the value of the
\* first whose name begins with the one asked for, and an empty value where none does.
KnownAnswer(r, a) ==
  /\ r.op = "getxattr" /\ r.path \in Paths /\ HasAttrs(r.path)
  /\ LET found == Matches(r.path, r.name) IN
     \/ found = {} /\ a = Size(0)
     \/ /\ found # {} /\ Attrs[r.path][Min(found)] # r.name
        /\ a = Value(Attrs[r.path][Min(found)], r.size)

FsErrors == {Err("EIO"), Err("ENOENT"), Err("ENODATA")}

\* The mount is a ReadOnlyFs: while the cache is fresh no call is answered with anything
\* but what the archive has, or an error, whatever was fetched, broken off, killed or
\* started again before; and an answer is given once, to the call that is outstanding.
\* Excepted by name are the blocks that lie in a page in part when they are read, a
\* directory of which the disk does not give an entry, and KnownAnswer: there the code
\* answers wrongly.
Fs == INSTANCE ReadOnlyFs WITH
        call <- req, answer <- reply, stale <- ~Fresh, spoilt <- spoilt,
        Right <- RightAnswer, Known <- KnownAnswer, Errors <- FsErrors, Answers <- FsAnswers
ImplementsReadOnlyFs == Fs!Spec

\* Every call is answered, or the mount has ended; and so does every start.
RequestEnds == pc \in Starting \cup Serving ~> pc \in {"dead", "ready", "done"}
===========================================================================
