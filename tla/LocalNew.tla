----------------------------- MODULE LocalNew -----------------------------
(***************************************************************************)
(* Local::new of repo.rs: how a process finds the cache file, or makes it  *)
(* (a sparse file of the archive's length with the superblock and the      *)
(* metadata in it), opens it with libsquashfs and hooks archive_read_at in *)
(* front of the file's read function.                                      *)
(*                                                                         *)
(* Every expect of the code ends the process: label "panicked".  Opening   *)
(* is libsquashfs's and is modelled by what it needs: a superblock, and    *)
(* the tables this version of the archive reader loads and checks.  A      *)
(* process that goes on with a superblock it has not read is at label      *)
(* "undefined", and what it does from there on is not modelled.            *)
(*                                                                         *)
(* A file that exists but is still empty is not told apart from one whose  *)
(* length is set: neither has a superblock to open.                        *)
(***************************************************************************)
EXTENDS CacheFile

CONSTANTS
  Tables,      \* Tables[v]: the metadata pages version v cannot open the file without
  PaddedTail   \* is the last byte of the archive a zero (mksquashfs pads to 4 KiB)

\* squashfs_v1.rs is behind the command line and the lambda, squashfs.rs behind FUSE.
Versions == {"v1", "v2"}

ASSUME TablesAssumption ==
  /\ Tables \in [Versions -> SUBSET (MetaPage .. FilePages - 1)]
  /\ PaddedTail \in BOOLEAN

VARIABLES
  exists,  \* is there a file at the cache path
  opt      \* opt[p]: p's arguments to Local::new that Local does not keep

newVars == <<exists, opt>>

Options == [force : BOOLEAN, ver : Versions]

InstallLabels == {"exists", "head", "create", "length", "super", "metarange", "metacopy"}
NewLabels == InstallLabels \cup {"open", "hook", "panicked", "undefined"}

\* A process is started on the cache path, with its chunk size, mode and options.
StartNew(p, l, o) ==
  /\ pc[p] \in {"dead", "panicked"}
  /\ local' = [local EXCEPT ![p] = l]
  /\ opt' = [opt EXCEPT ![p] = o]
  /\ Goto(p, "exists")
  /\ UNCHANGED <<page, flock, wpos, exists>>

\* The path is tested once, and the answer used long after.
CheckExistsNoForce(p) ==   \* seeded fault: force is forgotten when the file is there
  /\ pc[p] = "exists"
  /\ Goto(p, IF exists THEN "open" ELSE "head")
  /\ UNCHANGED <<page, flock, local, wpos, exists, opt>>
CheckExists(p) ==
  /\ pc[p] = "exists"
  /\ Goto(p, IF exists /\ ~opt[p].force THEN "open" ELSE "head")
  /\ UNCHANGED <<page, flock, local, wpos, exists, opt>>

\* Remote::get_metadata: HeadObject, and the superblock in the object's metadata.
GetMetadata(p) ==
  /\ pc[p] = "head"
  /\ Goto(p, "create")
  /\ UNCHANGED <<page, flock, local, wpos, exists, opt>>

Panic(p) ==
  /\ Goto(p, "panicked")
  /\ wpos' = [wpos EXCEPT ![p] = 0]
  /\ UNCHANGED <<page, flock, local, exists, opt>>

GetMetadataFails(p) ==
  /\ "head" \in Faults
  /\ pc[p] = "head"
  /\ Panic(p)

\* OpenOptions: create, and truncate only if forced.
CreateFileElsewhere(p) ==   \* seeded fault: made under another name than the one tested
  /\ pc[p] = "create"
  /\ page' = IF opt[p].force THEN [g \in Pages |-> Hole] ELSE page
  /\ Goto(p, "length")
  /\ UNCHANGED <<flock, local, wpos, exists, opt>>
CreateFile(p) ==
  /\ pc[p] = "create"
  /\ exists' = TRUE
  /\ page' = IF opt[p].force THEN [g \in Pages |-> Hole] ELSE page
  /\ Goto(p, "length")
  /\ UNCHANGED <<flock, local, wpos, opt>>

\* One zero byte at filesize - 1 gives the file its length.
SetLength(p) ==
  /\ pc[p] = "length"
  /\ page' = [page EXCEPT ![FilePages - 1] =
                CASE @ = Hole -> Tail
                  [] @ = FilePages - 1 /\ ~PaddedTail -> Torn
                  [] OTHER -> @]
  /\ Goto(p, "super")
  /\ UNCHANGED <<flock, local, wpos, exists, opt>>

WriteSuperblock(p) ==
  /\ pc[p] = "super"
  /\ page' = [page EXCEPT ![0] = IF Good(0) THEN @ ELSE Super]
  /\ Goto(p, "metarange")
  /\ UNCHANGED <<flock, local, wpos, exists, opt>>

\* GetObject of everything from the aligned start of the metadata on.
GetMetaRange(p) ==
  /\ pc[p] = "metarange"
  /\ wpos' = [wpos EXCEPT ![p] = MetaStart(local[p].chunk)]
  /\ Goto(p, "metacopy")
  /\ UNCHANGED <<page, flock, local, exists, opt>>

GetMetaRangeFails(p) ==
  /\ "range" \in Faults
  /\ pc[p] = "metarange"
  /\ Panic(p)

\* The metadata is copied in the order of the file, in pieces of any length, and without
\* the file lock.
CopyMetaPart(p) ==
  /\ pc[p] = "metacopy" /\ wpos[p] < FilePages
  /\ TearPage(wpos[p])
  /\ UNCHANGED <<flock, local, wpos, pc, exists, opt>>

CopyMetaPage(p) ==
  /\ pc[p] = "metacopy" /\ wpos[p] < FilePages
  /\ WritePage(wpos[p])
  /\ wpos' = [wpos EXCEPT ![p] = @ + 1]
  /\ UNCHANGED <<flock, local, pc, exists, opt>>

CopyMetaDoneLate(p) ==   \* seeded fault: "filesize" for "filesize - 1", a page that never comes
  /\ pc[p] = "metacopy" /\ wpos[p] > FilePages
  /\ wpos' = [wpos EXCEPT ![p] = 0]
  /\ Goto(p, "open")
  /\ UNCHANGED <<page, flock, local, exists, opt>>
CopyMetaDone(p) ==
  /\ pc[p] = "metacopy" /\ wpos[p] >= FilePages
  /\ wpos' = [wpos EXCEPT ![p] = 0]
  /\ Goto(p, "open")
  /\ UNCHANGED <<page, flock, local, exists, opt>>

CopyMetaFails(p) ==
  /\ "stream" \in Faults
  /\ pc[p] = "metacopy" /\ wpos[p] < FilePages
  /\ Panic(p)

\* read_at becomes archive_read_at, and the read_at there was goes to the write_at slot.
Hook(l) == [l EXCEPT !.read_at = "archive", !.write_at = l.read_at]

\* new_from_sparse: superblock and tables are read through the file's own read function.
\* A table whose page is written in part may load, or be found broken, depending on where
\* in the page it ends.  Version 1 hooks the file at its end.
HasSuperblock == page[0] \in {Super, 0}
TableThere(g) == page[g] \in {g, Torn}
CanOpen(p) == HasSuperblock /\ \A g \in Tables[opt[p].ver] : TableThere(g)
MustOpen(p) == HasSuperblock /\ \A g \in Tables[opt[p].ver] : Good(g)

Opened(p) ==
  /\ Goto(p, "hook")
  /\ local' = [local EXCEPT ![p] = IF opt[p].ver = "v1" THEN Hook(@) ELSE @]

OpenUnchecked(p) ==   \* seeded fault: the return codes of the table readers are ignored
  /\ pc[p] = "open" /\ HasSuperblock
  /\ Opened(p)
  /\ UNCHANGED <<page, flock, wpos, exists, opt>>
Open(p) ==
  /\ pc[p] = "open" /\ CanOpen(p)
  /\ Opened(p)
  /\ UNCHANGED <<page, flock, wpos, exists, opt>>

\* The error of sqfs_super_read is negative and not recognised.  Version 2 then finds no
\* compressor in a superblock of zeros; version 1 has whatever the stack held, which may
\* look like one.
OpenFails(p) ==
  /\ pc[p] = "open" /\ ~MustOpen(p)
  /\ \/ Goto(p, "panicked")
     \/ ~HasSuperblock /\ opt[p].ver = "v1" /\ Goto(p, "undefined")
  /\ UNCHANGED <<page, flock, local, wpos, exists, opt>>

SetHookNever(p) ==   \* seeded fault: no hook in either version
  /\ pc[p] = "hook"
  /\ Goto(p, "ready")
  /\ UNCHANGED <<page, flock, local, wpos, exists, opt>>
SetHook(p) ==
  /\ pc[p] = "hook"
  /\ local' = [local EXCEPT ![p] = Hook(@)]
  /\ Goto(p, "ready")
  /\ UNCHANGED <<page, flock, wpos, exists, opt>>

NewStep(p) ==
  \/ CheckExists(p) \/ GetMetadata(p) \/ CreateFile(p) \/ SetLength(p)
  \/ WriteSuperblock(p) \/ GetMetaRange(p) \/ CopyMetaPart(p) \/ CopyMetaPage(p)
  \/ CopyMetaDone(p) \/ Open(p) \/ OpenFails(p) \/ SetHook(p)

NewFault(p) == GetMetadataFails(p) \/ GetMetaRangeFails(p) \/ CopyMetaFails(p)
===========================================================================
