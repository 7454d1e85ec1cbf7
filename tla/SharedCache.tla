---------------------------- MODULE SharedCache ----------------------------
(***************************************************************************)
(* The whole life of one cache file: processes are started on its path at  *)
(* any time, find it or make it (LocalNew), read the archive through it    *)
(* (ReadAt), exit, panic or are killed, and are started again, perhaps     *)
(* with another chunk size, another mode, the other archive reader or      *)
(* force.  Nothing but the file outlives a process.                        *)
(***************************************************************************)
EXTENDS ReadAt, LocalNew

CONSTANT SoloInstall   \* is the deployment rule MayStart observed

ASSUME SoloAssumption == SoloInstall \in BOOLEAN

cacheVars == <<vars, newVars>>

\* The options as the process starts: nothing hooked yet.
Unhooked == {l \in Locals : l.read_at = "file" /\ l.write_at = "none"}

CacheInit ==
  /\ page = [g \in Pages |-> Hole]
  /\ exists = FALSE
  /\ flock = NoProc
  /\ pc = [p \in Proc |-> "dead"]
  /\ local \in [Proc -> Unhooked]
  /\ opt = [p \in Proc |-> [force |-> FALSE, ver |-> "v2"]]
  /\ wpos = [p \in Proc |-> 0]
  /\ req = [p \in Proc |-> NoReq]
  /\ from = [p \in Proc |-> 0]
  /\ got = [p \in Proc |-> NoBytes]

\* A rule for whoever runs the processes, not for the code: the file is made (or made
\* anew) by one process while no other is alive.  The code does nothing to enforce it.
MayStart(p, o) ==
  \A q \in Proc \ {p} :
    /\ pc[q] \notin InstallLabels
    /\ ~exists \/ o.force => pc[q] \in {"dead", "panicked"}

Start(p, l, o) ==
  /\ SoloInstall => MayStart(p, o)
  /\ StartNew(p, l, o)
  /\ UNCHANGED callVars

\* A command ends after its work; a process is killed in the middle of anything.
Exit(p) ==
  /\ pc[p] \in {"ready", "undefined"}
  /\ Die(p, "dead")
  /\ UNCHANGED newVars

Kill(p) ==
  /\ "crash" \in Faults
  /\ pc[p] \notin {"dead", "panicked"}
  /\ Die(p, "dead")
  /\ UNCHANGED newVars

CacheNext ==
  \E p \in Proc :
    \/ \E l \in Unhooked, o \in Options : Start(p, l, o)
    \/ NewStep(p) /\ UNCHANGED callVars
    \/ NewFault(p) /\ UNCHANGED callVars
    \/ ReadStep(p) /\ UNCHANGED newVars
    \/ Exit(p)
    \/ Kill(p)

CacheSpec == CacheInit /\ [][CacheNext]_cacheVars

\* The process runs, and S3 answers in the end.
FairCacheSpec ==
  /\ CacheSpec
  /\ \A p \in Proc :
       /\ WF_cacheVars(NewStep(p) /\ UNCHANGED callVars)
       /\ WF_cacheVars((LocalStep(p) \/ RemoteStep(p)) /\ UNCHANGED newVars)

---------------------------------------------------------------------------
(* Properties *)

\* Every variable has its type, in and out of Local::new.
CacheTypeOK ==
  /\ page \in [Pages -> Content]
  /\ exists \in BOOLEAN
  /\ flock \in Proc \cup {NoProc}
  /\ local \in [Proc -> Locals]
  /\ opt \in [Proc -> Options]
  /\ wpos \in [Proc -> 0 .. FilePages]
  /\ pc \in [Proc -> ReadLabels \cup NewLabels]
  /\ req \in [Proc -> Requests \cup {NoReq}]
  /\ from \in [Proc -> Pages]
  /\ ~exists => page = [g \in Pages |-> Hole]

\* A process that got through Local::new has a superblock and all the metadata below the
\* last table its reader loads, however many attempts to make the file were interrupted
\* before: the copy is in the order of the file, so a table that loads has everything
\* below it.  Of its own page it has the front, at least.  Of what lies above nothing is
\* said: version 2 opens with the id table and meets the xattr table behind it later.
OpenedComplete ==
  \A p \in Proc :
    pc[p] \in (ReadLabels \ {"dead"}) \cup {"hook"} =>
      /\ page[0] \in {Super, 0}
      /\ \A t \in Tables[opt[p].ver] : TableThere(t) /\ \A g \in MetaPage .. t - 1 : Good(g)

\* A start with force that gets its answers from S3 opens the file it has made, whatever
\* state it found: -f is the way out of a cache that no longer opens.
ForcedStartOpens ==
  [][\A p \in Proc : pc[p] = "open" /\ pc'[p] = "panicked" => ~opt[p].force]_cacheVars

\* A cache file that is finished stays finished, through kills at any point, failed fetches
\* and starts with other options, until a start with force; and a start that finds it
\* finished opens it.
Finished == HasSuperblock /\ \A g \in MetaPage .. FilePages - 1 : Good(g)
ForcedCreate == \E p \in Proc : pc[p] = "create" /\ pc'[p] = "length" /\ opt[p].force
FinishedCacheOpens ==
  [][Finished =>
       /\ Finished' \/ ForcedCreate
       /\ \A p \in Proc : pc[p] = "open" => pc'[p] \notin {"panicked", "undefined"}]_cacheVars

\* Behind FUSE, and nowhere else, the hook is installed once: archive_read_at in front,
\* the file's own read behind it.
FuseHookedOnce ==
  \A p \in Proc :
    pc[p] \in ReadLabels \ {"dead"} /\ opt[p].ver = "v2" => local[p] \in Hooked

\* The cache is invisible through all of this, but for pages in the middle of a write, or
\* left there by an interrupted one, and for metadata above the tables that the process has
\* opened the file with.
CachePartial ==
  [p \in Proc |->
     Partial[p] \cup {g \in Pages : g >= MetaPage /\ \A t \in Tables[opt[p].ver] : t < g}]
CacheArchive ==
  INSTANCE ArchiveFile WITH call <- req, answer <- got, partial <- CachePartial
CacheImplementsFile == CacheArchive!Spec

\* A start ends: with the archive open (or what is taken for it), in a panic, or killed.
StartEnds ==
  \A p \in Proc : pc[p] = "exists" ~> pc[p] \in {"ready", "panicked", "undefined", "dead"}

\* With no failure of S3 in the model, no start panics: what the README says of pointing
\* at the same cache file again, and of sharing it.
StartNeverPanics == \A p \in Proc : pc[p] # "panicked"

\* A call of archive_read_at returns, in the end.
ReadReturns == \A p \in Proc : pc[p] \in {"detect", "read"} ~> pc[p] \in {"done", "dead"}
===========================================================================
