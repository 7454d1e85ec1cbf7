------------------------ MODULE SharedCacheProofs ------------------------
(***************************************************************************)
(* Theorems about SharedCache: any number of processes that make, open,    *)
(* read and abandon one cache file, with any archive, chunk sizes, modes   *)
(* and faults.  First what opens; then what is read: what ReadAtProofs     *)
(* shows of processes that start with a complete file and their hooks in   *)
(* place, here where nothing is taken for granted.                         *)
(***************************************************************************)
EXTENDS SharedCache, ReadAtProofs

---------------------------------------------------------------------------
(* Types *)

\* The labels of a call of archive_read_at, and those that need the file.
CallLabels == ReadLabels \ {"dead", "ready"}
FileLabels == (ReadLabels \cup NewLabels) \ {"dead", "panicked", "exists", "head", "create"}

\* A process in a call has one, for data unless it only reads; and it has the file.
Placed(p) ==
  /\ pc[p] \in CallLabels => req[p] \in Requests
  /\ pc[p] \in {"detect", "request", "lock", "copy"} => ~req[p].meta
  /\ pc[p] \in FileLabels => exists

CacheTyped == CacheTypeOK /\ \A p \in Proc : Placed(p)

CacheStep(p) ==
  \/ \E l \in Unhooked, o \in Options : Start(p, l, o)
  \/ NewStep(p) /\ UNCHANGED callVars
  \/ NewFault(p) /\ UNCHANGED callVars
  \/ ReadStep(p) /\ UNCHANGED newVars
  \/ Exit(p)
  \/ Kill(p)

LEMMA StepOfOne == CacheNext => \E p \in Proc : CacheStep(p)
BY DEF CacheNext, CacheStep

\* Where a fetch starts and ends.
LEMMA ChunkStart ==
  ASSUME NEW c \in ChunkSizes, NEW x \in Pages
  PROVE  AlignDown(c, x) \in Pages /\ AlignDown(c, x) <= x
<1>1. c \in Nat \ {0} /\ x \in Nat /\ x < FilePages
  BY GeometryAssumption DEF Pages
<1>2. AlignDown(c, x) \in Nat /\ AlignDown(c, x) <= x
  BY <1>1, AlignDownFacts
<1>. QED BY <1>1, <1>2, GeometryAssumption DEF Pages

LEMMA FetchStart ==
  ASSUME CacheTypeOK, NEW p \in Proc
  PROVE  /\ RangeStart(p) \in Pages /\ RangeStart(p) <= from[p]
         /\ MetaStart(local[p].chunk) \in Pages /\ MetaStart(local[p].chunk) <= MetaPage
<1>1. local[p].chunk \in ChunkSizes /\ from[p] \in Pages /\ MetaPage \in Pages
  BY GeometryAssumption DEF CacheTypeOK, Locals, Pages
<1>. QED BY <1>1, ChunkStart DEF RangeStart, MetaStart

LEMMA CopyInside ==
  ASSUME CacheTypeOK, NEW p \in Proc, req[p] \in Requests, wpos[p] < RangeEnd(p)
  PROVE  wpos[p] \in Pages /\ wpos[p] + 1 \in 0 .. FilePages
<1>1. wpos[p] \in Nat /\ FilePages \in Nat
  BY GeometryAssumption DEF CacheTypeOK
<1>2. req[p].stop \in Nat
  <2>1. req[p].last \in Nat
    BY RequestAssumption, GeometryAssumption DEF Pages
  <2>. QED BY <2>1, RequestAssumption
<1>3. local[p].chunk \in Nat \ {0}
  BY GeometryAssumption DEF CacheTypeOK, Locals
<1>4. AlignDown(local[p].chunk, req[p].stop) \in Nat
  BY <1>2, <1>3, AlignDownFacts
<1>5. AlignedEnd(local[p].chunk, req[p].stop) \in Nat
  BY <1>3, <1>4 DEF AlignedEnd
<1>6. RangeEnd(p) <= FilePages
  BY <1>1, <1>5 DEF RangeEnd, StreamEnd
<1>7. RangeEnd(p) \in Nat
  BY <1>1, <1>5 DEF RangeEnd, StreamEnd
<1>. QED BY <1>1, <1>6, <1>7 DEF Pages

\* The state of a process that a step of another leaves alone.
Untouched(q) ==
  /\ pc'[q] = pc[q] /\ local'[q] = local[q] /\ opt'[q] = opt[q]
  /\ wpos'[q] = wpos[q] /\ req'[q] = req[q] /\ from'[q] = from[q]

LEMMA OthersUntouched ==
  ASSUME CacheTypeOK, NEW p \in Proc, NEW q \in Proc, q # p, CacheStep(p)
  PROVE  Untouched(q)
<1>. USE DEF Untouched, CacheTypeOK, callVars, newVars, Goto, Finish, Fetch, Panic, Die
<1>1. ASSUME NEW l \in Unhooked, NEW o \in Options, Start(p, l, o) PROVE Untouched(q)
  BY <1>1 DEF Start, StartNew
<1>2. CASE NewStep(p) /\ UNCHANGED callVars
  BY <1>2 DEF NewStep, CheckExists, GetMetadata, CreateFile, SetLength, WriteSuperblock,
       GetMetaRange, CopyMetaPart, CopyMetaPage, CopyMetaDone, Open, OpenFails, Opened, SetHook
<1>3. CASE NewFault(p) /\ UNCHANGED callVars
  BY <1>3 DEF NewFault, GetMetadataFails, GetMetaRangeFails, CopyMetaFails
<1>4. CASE ReadStep(p) /\ UNCHANGED newVars
  <2>1. CASE LocalStep(p)
    BY <1>4, <2>1 DEF LocalStep, DetectHole, DetectZero, TryLock, LockTimeout, RawRead, Return
  <2>2. CASE RemoteStep(p)
    BY <1>4, <2>2 DEF RemoteStep, GetRange, CopyPage, CopyPart, CopyDone
  <2>3. CASE FaultStep(p)
    BY <1>4, <2>3 DEF FaultStep, GetRangeFails, LockFails, CopyFails
  <2>4. ASSUME NEW r \in Requests, BeginRead(p, r) PROVE Untouched(q)
    BY <1>4, <2>4 DEF BeginRead
  <2>. QED BY <1>4, <2>1, <2>2, <2>3, <2>4 DEF ReadStep
<1>5. CASE Exit(p) \/ Kill(p)
  BY <1>5 DEF Exit, Kill
<1>. QED BY <1>1, <1>2, <1>3, <1>4, <1>5 DEF CacheStep

LEMMA CacheTypeInit == CacheInit => CacheTyped
<1>. SUFFICES ASSUME CacheInit PROVE CacheTyped
  OBVIOUS
<1>1. 0 \in Pages /\ 0 \in 0 .. FilePages
  BY GeometryAssumption DEF Pages
<1>2. local \in [Proc -> Locals]
  BY DEF CacheInit, Unhooked
<1>. QED BY <1>1, <1>2 DEF CacheInit, CacheTyped, CacheTypeOK, Placed, Content, Options,
          Versions, ReadLabels, NewLabels, InstallLabels, CallLabels, FileLabels

LEMMA HookType ==
  ASSUME NEW l \in Locals
  PROVE  Hook(l) \in Locals
<1>1. l.read_at \in {"none", "file", "archive"}
  BY DEF Locals
<1>. QED BY <1>1 DEF Hook, Locals

\* A step of Local::new.
LEMMA NewType ==
  ASSUME CacheTyped, NEW p \in Proc, NewStep(p) \/ NewFault(p), UNCHANGED callVars
  PROVE  CacheTypeOK' /\ Placed(p)'
<1>. USE DEF CacheTyped, CacheTypeOK, Placed, Goto, Panic, callVars, newVars,
            ReadLabels, NewLabels, InstallLabels, CallLabels, FileLabels
<1>0. 0 \in Pages /\ 0 \in 0 .. FilePages /\ FilePages - 1 \in Pages
  BY GeometryAssumption DEF Pages
<1>1. CASE CheckExists(p)
  BY <1>1 DEF CheckExists
<1>2. CASE GetMetadata(p) \/ GetMetadataFails(p) \/ GetMetaRangeFails(p)
  BY <1>0, <1>2 DEF GetMetadata, GetMetadataFails, GetMetaRangeFails
<1>3. CASE CreateFile(p)
  <2>1. page' \in [Pages -> Content]
    BY <1>3 DEF CreateFile, Content
  <2>. QED BY <1>3, <2>1 DEF CreateFile
<1>4. CASE SetLength(p)
  <2>1. page' \in [Pages -> Content]
    BY <1>0, <1>4 DEF SetLength, Content
  <2>. QED BY <1>4, <2>1 DEF SetLength
<1>5. CASE WriteSuperblock(p)
  <2>1. page' \in [Pages -> Content]
    BY <1>0, <1>5 DEF WriteSuperblock, Content
  <2>. QED BY <1>5, <2>1 DEF WriteSuperblock
<1>6. CASE GetMetaRange(p)
  <2>1. MetaStart(local[p].chunk) \in 0 .. FilePages
    BY FetchStart, GeometryAssumption DEF Pages
  <2>. QED BY <1>6, <2>1 DEF GetMetaRange
<1>7. CASE CopyMetaPage(p)
  <2>1. wpos[p] \in Pages /\ wpos[p] + 1 \in 0 .. FilePages
    BY <1>7, GeometryAssumption DEF CopyMetaPage, Pages
  <2>2. page' \in [Pages -> Content]
    BY <1>7, <2>1 DEF CopyMetaPage, WritePage, Content
  <2>. QED BY <1>7, <2>1, <2>2 DEF CopyMetaPage
<1>8. CASE CopyMetaDone(p) \/ CopyMetaFails(p)
  BY <1>0, <1>8 DEF CopyMetaDone, CopyMetaFails
<1>9. CASE Open(p)
  <2>1. Hook(local[p]) \in Locals
    BY HookType
  <2>. QED BY <1>9, <2>1 DEF Open, Opened
<1>10. CASE OpenFails(p)
  BY <1>10 DEF OpenFails
<1>11. CASE SetHook(p)
  <2>1. Hook(local[p]) \in Locals
    BY HookType
  <2>. QED BY <1>11, <2>1 DEF SetHook
<1>12. CASE CopyMetaPart(p)
  <2>1. page' \in [Pages -> Content]
    BY <1>12 DEF CopyMetaPart, TearPage, Content
  <2>. QED BY <1>12, <2>1 DEF CopyMetaPart
<1>. QED BY <1>1, <1>2, <1>3, <1>4, <1>5, <1>6, <1>7, <1>8, <1>9, <1>10, <1>11,
            <1>12
         DEF NewStep, NewFault

\* A step of archive_read_at.
LEMMA ReadType ==
  ASSUME CacheTyped, NEW p \in Proc, ReadStep(p), UNCHANGED newVars
  PROVE  CacheTypeOK' /\ Placed(p)'
<1>. USE DEF CacheTyped, CacheTypeOK, Placed, Goto, Finish, Fetch, callVars, newVars,
            ReadLabels, NewLabels, InstallLabels, CallLabels, FileLabels
<1>0. 0 \in Pages /\ 0 \in 0 .. FilePages
  BY GeometryAssumption DEF Pages
<1>1. ASSUME NEW r \in Requests, BeginRead(p, r) PROVE CacheTypeOK' /\ Placed(p)'
  BY <1>1, RequestAssumption DEF BeginRead, Entry
<1>2. CASE DetectHole(p)
  <2>1. req[p] \in Requests
    BY <1>2 DEF DetectHole
  <2>2. Range(req[p]) \subseteq Pages
    BY <2>1, RequestAssumption, GeometryAssumption DEF Range, Pages
  <2>. QED BY <1>2, <2>2 DEF DetectHole
<1>3. CASE DetectZero(p)
  <2>1. req[p] \in Requests
    BY <1>3 DEF DetectZero
  <2>2. req[p].first \in Pages
    BY <2>1, RequestAssumption
  <2>. QED BY <1>3, <2>2 DEF DetectZero
<1>4. CASE TryLock(p)
  BY <1>4 DEF TryLock
<1>5. CASE LockTimeout(p) \/ GetRangeFails(p) \/ LockFails(p)
  BY <1>0, <1>5 DEF LockTimeout, GetRangeFails, LockFails
<1>6. CASE RawRead(p)
  BY <1>0, <1>6 DEF RawRead, Entry
<1>7. CASE Return(p)
  BY <1>7 DEF Return
<1>8. CASE GetRange(p)
  <2>1. RangeStart(p) \in 0 .. FilePages
    BY FetchStart, GeometryAssumption DEF Pages
  <2>. QED BY <1>8, <2>1 DEF GetRange
<1>9. CASE CopyPage(p)
  <2>1. wpos[p] \in Pages /\ wpos[p] + 1 \in 0 .. FilePages
    BY <1>9, CopyInside DEF CopyPage
  <2>2. page' \in [Pages -> Content]
    BY <1>9, <2>1 DEF CopyPage, WritePage, Content
  <2>. QED BY <1>9, <2>1, <2>2 DEF CopyPage
<1>10. CASE CopyPart(p)
  <2>2. page' \in [Pages -> Content]
    BY <1>10 DEF CopyPart, TearPage, Content
  <2>. QED BY <1>10, <2>2 DEF CopyPart
<1>11. CASE CopyDone(p) \/ CopyFails(p)
  <2>1. flock' \in Proc \cup {NoProc}
    BY <1>11 DEF CopyDone, CopyFails, Unlock
  <2>. QED BY <1>0, <1>11, <2>1 DEF CopyDone, CopyFails
<1>. QED BY <1>1, <1>2, <1>3, <1>4, <1>5, <1>6, <1>7, <1>8, <1>9, <1>10, <1>11
         DEF ReadStep, LocalStep, RemoteStep, FaultStep

LEMMA OwnType ==
  ASSUME CacheTyped, NEW p \in Proc, CacheStep(p)
  PROVE  CacheTypeOK' /\ Placed(p)'
<1>. USE DEF CacheTyped, CacheTypeOK, Placed, Goto, callVars, newVars,
            ReadLabels, NewLabels, InstallLabels, CallLabels, FileLabels
<1>1. ASSUME NEW l \in Unhooked, NEW o \in Options, Start(p, l, o)
      PROVE  CacheTypeOK' /\ Placed(p)'
  BY <1>1 DEF Start, StartNew, Unhooked
<1>2. CASE NewStep(p) /\ UNCHANGED callVars
  BY <1>2, NewType
<1>3. CASE NewFault(p) /\ UNCHANGED callVars
  BY <1>3, NewType
<1>4. CASE ReadStep(p) /\ UNCHANGED newVars
  BY <1>4, ReadType
<1>5. CASE Exit(p) \/ Kill(p)
  <2>1. 0 \in Pages /\ 0 \in 0 .. FilePages
    BY GeometryAssumption DEF Pages
  <2>2. flock' \in Proc \cup {NoProc}
    BY <1>5 DEF Exit, Kill, Die, Unlock
  <2>. QED BY <1>5, <2>1, <2>2 DEF Exit, Kill, Die
<1>. QED BY <1>1, <1>2, <1>3, <1>4, <1>5 DEF CacheStep

\* The file, once made, is never removed.
LEMMA FileStays ==
  ASSUME NEW p \in Proc, CacheStep(p), exists
  PROVE  exists'
BY DEF CacheStep, newVars, Start, StartNew, NewStep, CheckExists, GetMetadata, CreateFile,
       SetLength, WriteSuperblock, GetMetaRange, CopyMetaPart, CopyMetaPage, CopyMetaDone, Open,
       OpenFails, SetHook, NewFault, GetMetadataFails, GetMetaRangeFails, CopyMetaFails,
       Panic, Exit, Kill

LEMMA CacheTypeStep == CacheTyped /\ [CacheNext]_cacheVars => CacheTyped'
<1>. SUFFICES ASSUME CacheTyped, [CacheNext]_cacheVars PROVE CacheTyped'
  OBVIOUS
<1>1. CASE UNCHANGED cacheVars
  BY <1>1 DEF CacheTyped, CacheTypeOK, Placed, cacheVars, vars, callVars, newVars
<1>2. CASE CacheNext
  <2>1. PICK p \in Proc : CacheStep(p)
    BY <1>2, StepOfOne
  <2>2. CacheTypeOK' /\ Placed(p)'
    BY <2>1, OwnType
  <2>3. ASSUME NEW q \in Proc, q # p PROVE Placed(q)'
    BY <2>1, <2>3, OthersUntouched, FileStays DEF CacheTyped, Placed, Untouched
  <2>. QED BY <2>2, <2>3 DEF CacheTyped
<1>. QED BY <1>1, <1>2

\* Every reachable state is well typed, the cache file included: it is as long as the
\* archive, and nothing is in it before it is made.
THEOREM CacheTypeCorrect == CacheSpec => []CacheTypeOK
<1>1. CacheTyped => CacheTypeOK
  BY DEF CacheTyped
<1>. QED BY <1>1, CacheTypeInit, CacheTypeStep, PTL DEF CacheSpec

---------------------------------------------------------------------------
(* The hook *)

\* A version 2 process has the file's own read function in place until it is through
\* Local::new, and the hook in front of it from then on.
HookOK(p) ==
  opt[p].ver = "v2" =>
    /\ pc[p] \in InstallLabels \cup {"open", "hook"} => local[p] \in Unhooked
    /\ pc[p] \in ReadLabels \ {"dead"} => local[p] \in Hooked

LEMMA HookOnce ==
  ASSUME NEW l \in Unhooked
  PROVE  Hook(l) \in Hooked
<1>1. l \in Locals /\ l.read_at = "file"
  BY DEF Unhooked
<1>2. Hook(l) \in Locals
  BY <1>1, HookType
<1>3. Hook(l).read_at = "archive" /\ Hook(l).write_at = "file"
  BY <1>1 DEF Hook, Locals
<1>. QED BY <1>2, <1>3 DEF Hooked

LEMMA OwnHook ==
  ASSUME CacheTyped, NEW p \in Proc, CacheStep(p), HookOK(p)
  PROVE  HookOK(p)'
<1>. USE DEF CacheTyped, CacheTypeOK, HookOK, Goto, callVars, newVars,
            ReadLabels, NewLabels, InstallLabels
<1>1. ASSUME NEW l \in Unhooked, NEW o \in Options, Start(p, l, o) PROVE HookOK(p)'
  BY <1>1 DEF Start, StartNew
<1>2. CASE NewStep(p)
  <2>1. CASE Open(p)
    BY <2>1 DEF Open, Opened
  <2>2. CASE OpenFails(p)
    BY <2>2 DEF OpenFails
  <2>3. CASE SetHook(p)
    BY <2>3, HookOnce DEF SetHook
  <2>4. CASE CheckExists(p) \/ GetMetadata(p) \/ CreateFile(p) \/ SetLength(p)
    BY <2>4 DEF CheckExists, GetMetadata, CreateFile, SetLength
  <2>5. CASE \/ WriteSuperblock(p) \/ GetMetaRange(p)
             \/ CopyMetaPart(p) \/ CopyMetaPage(p) \/ CopyMetaDone(p)
    BY <2>5 DEF WriteSuperblock, GetMetaRange, CopyMetaPart, CopyMetaPage, CopyMetaDone
  <2>. QED BY <1>2, <2>1, <2>2, <2>3, <2>4, <2>5 DEF NewStep
<1>3. CASE NewFault(p)
  BY <1>3 DEF NewFault, GetMetadataFails, GetMetaRangeFails, CopyMetaFails, Panic
<1>4. CASE ReadStep(p) /\ UNCHANGED newVars
  <2>1. ASSUME NEW r \in Requests, BeginRead(p, r) PROVE HookOK(p)'
    BY <1>4, <2>1 DEF BeginRead, Entry
  <2>2. CASE LocalStep(p)
    BY <1>4, <2>2 DEF LocalStep, DetectHole, DetectZero, TryLock, LockTimeout, RawRead,
         Return, Finish, Fetch, Entry
  <2>3. CASE RemoteStep(p)
    BY <1>4, <2>3 DEF RemoteStep, GetRange, CopyPage, CopyPart, CopyDone
  <2>4. CASE FaultStep(p)
    BY <1>4, <2>4 DEF FaultStep, GetRangeFails, LockFails, CopyFails, Finish
  <2>. QED BY <1>4, <2>1, <2>2, <2>3, <2>4 DEF ReadStep
<1>5. CASE Exit(p) \/ Kill(p)
  BY <1>5 DEF Exit, Kill, Die
<1>. QED BY <1>1, <1>2, <1>3, <1>4, <1>5 DEF CacheStep

LEMMA HookStep ==
  CacheTyped /\ (\A p \in Proc : HookOK(p)) /\ [CacheNext]_cacheVars
    => (\A p \in Proc : HookOK(p))'
<1>. SUFFICES ASSUME CacheTyped, \A p \in Proc : HookOK(p), [CacheNext]_cacheVars,
                     NEW q \in Proc
              PROVE  HookOK(q)'
  OBVIOUS
<1>1. CASE UNCHANGED cacheVars
  BY <1>1 DEF HookOK, cacheVars, vars, newVars
<1>2. CASE CacheNext
  <2>1. PICK p \in Proc : CacheStep(p)
    BY <1>2, StepOfOne
  <2>2. CASE q = p
    BY <2>1, <2>2, OwnHook
  <2>3. CASE q # p
    BY <2>1, <2>3, OthersUntouched DEF HookOK, Untouched, CacheTyped
  <2>. QED BY <2>2, <2>3
<1>. QED BY <1>1, <1>2

\* However often processes are started, killed and started again on the file, one that
\* serves FUSE has been hooked exactly once: archive_read_at calls the file's own read
\* and never itself.
THEOREM HookedOnce == CacheSpec => []FuseHookedOnce
<1>1. CacheInit => CacheTyped /\ \A p \in Proc : HookOK(p)
  BY CacheTypeInit DEF CacheInit, HookOK
<1>2. (\A p \in Proc : HookOK(p)) => FuseHookedOnce
  BY DEF HookOK, FuseHookedOnce
<1>. QED BY <1>1, <1>2, CacheTypeStep, HookStep, PTL DEF CacheSpec

---------------------------------------------------------------------------
(* One maker of the file *)

\* A process that is going to write the file without the lock, or to truncate it.
Making(p) == pc[p] \in InstallLabels /\ (pc[p] = "exists" => ~exists \/ opt[p].force)

\* The deployment rule keeps others out of Local::new, and makers alone.
Alone(p) ==
  /\ pc[p] \in InstallLabels => \A q \in Proc \ {p} : pc[q] \notin InstallLabels
  /\ Making(p) => \A q \in Proc \ {p} : pc[q] \in {"dead", "panicked"}

Solo == \A p \in Proc : Alone(p)

LEMMA StillMaking ==
  ASSUME CacheTyped, NEW p \in Proc, CacheStep(p),
         \A l \in Unhooked, o \in Options : ~Start(p, l, o)
  PROVE  /\ pc[p] \notin {"dead", "panicked"}
         /\ pc'[p] \in InstallLabels => pc[p] \in InstallLabels
         /\ Making(p)' => Making(p)
<1>. USE DEF CacheTyped, CacheTypeOK, Making, Goto, callVars, newVars, InstallLabels
<1>. DEFINE Goal == /\ pc[p] \notin {"dead", "panicked"}
                    /\ pc'[p] \in InstallLabels => pc[p] \in InstallLabels
                    /\ Making(p)' => Making(p)
<1>1. CASE NewStep(p)
  <2>1. CASE CheckExists(p)
    BY <2>1 DEF CheckExists
  <2>2. CASE GetMetadata(p) \/ CreateFile(p) \/ SetLength(p) \/ WriteSuperblock(p)
    BY <2>2 DEF GetMetadata, CreateFile, SetLength, WriteSuperblock
  <2>3. CASE GetMetaRange(p) \/ CopyMetaPart(p) \/ CopyMetaPage(p) \/ CopyMetaDone(p)
    BY <2>3 DEF GetMetaRange, CopyMetaPart, CopyMetaPage, CopyMetaDone
  <2>4. CASE Open(p) \/ OpenFails(p) \/ SetHook(p)
    BY <2>4 DEF Open, Opened, OpenFails, SetHook
  <2>. QED BY <1>1, <2>1, <2>2, <2>3, <2>4 DEF NewStep
<1>2. CASE NewFault(p)
  BY <1>2 DEF NewFault, GetMetadataFails, GetMetaRangeFails, CopyMetaFails, Panic
<1>3. CASE ReadStep(p)
  <2>1. ASSUME NEW r \in Requests, BeginRead(p, r) PROVE Goal
    BY <2>1 DEF BeginRead, Entry
  <2>2. CASE LocalStep(p)
    BY <2>2 DEF LocalStep, DetectHole, DetectZero, TryLock, LockTimeout, RawRead,
         Return, Finish, Fetch, Entry
  <2>3. CASE RemoteStep(p)
    BY <2>3 DEF RemoteStep, GetRange, CopyPage, CopyPart, CopyDone
  <2>4. CASE FaultStep(p)
    BY <2>4 DEF FaultStep, GetRangeFails, LockFails, CopyFails, Finish
  <2>. QED BY <1>3, <2>1, <2>2, <2>3, <2>4 DEF ReadStep
<1>4. CASE Exit(p) \/ Kill(p)
  BY <1>4 DEF Exit, Kill, Die
<1>. QED BY <1>1, <1>2, <1>3, <1>4 DEF CacheStep

LEMMA SoloStep ==
  ASSUME SoloInstall, CacheTyped, Solo, NEW p \in Proc, CacheStep(p)
  PROVE  Solo'
<1>. USE DEF Solo, Alone
<1>1. \A q \in Proc \ {p} : Untouched(q)
  BY OthersUntouched DEF CacheTyped
<1>2. \A q \in Proc \ {p} : Making(q)' => Making(q)
  BY <1>1, FileStays DEF Making, Untouched
<1>3. ASSUME NEW l \in Unhooked, NEW o \in Options, Start(p, l, o) PROVE Solo'
  <2>1. MayStart(p, o) /\ pc[p] \in {"dead", "panicked"} /\ exists' = exists
    BY <1>3 DEF Start, StartNew
  <2>2. \A q \in Proc \ {p} : pc[q] \notin InstallLabels
    BY <2>1 DEF MayStart
  <2>3. opt'[p] = o
    BY <1>3 DEF Start, StartNew, CacheTyped, CacheTypeOK
  <2>4. Making(p)' => \A q \in Proc \ {p} : pc[q] \in {"dead", "panicked"}
    <3>1. pc'[p] = "exists"
      BY <1>3 DEF Start, StartNew, Goto, CacheTyped, CacheTypeOK
    <3>. QED BY <2>1, <2>3, <3>1 DEF MayStart, Making
  <2>5. Alone(p)'
    BY <1>1, <2>2, <2>4 DEF Untouched
  <2>6. ASSUME NEW q \in Proc \ {p} PROVE Alone(q)'
    BY <1>1, <2>2 DEF Untouched, Making
  <2>. QED BY <2>5, <2>6
<1>4. CASE \A l \in Unhooked, o \in Options : ~Start(p, l, o)
  <2>1. /\ pc[p] \notin {"dead", "panicked"}
        /\ pc'[p] \in InstallLabels => pc[p] \in InstallLabels
        /\ Making(p)' => Making(p)
    BY <1>4, StillMaking
  <2>2. Alone(p)'
    BY <1>1, <2>1 DEF Untouched
  <2>3. ASSUME NEW q \in Proc \ {p} PROVE Alone(q)'
    BY <1>1, <1>2, <2>1 DEF Untouched
  <2>. QED BY <2>2, <2>3
<1>. QED BY <1>3, <1>4

---------------------------------------------------------------------------
(* The metadata *)

\* The metadata in the file has no gap: a page of it that is there, or is begun, has all of
\* it below.
NoGap ==
  \A g \in Pages : g >= MetaPage /\ TableThere(g) => \A h \in MetaPage .. g - 1 : Good(h)

\* A stream that is being copied has written, or found, the metadata below its place; a
\* fetch for data starts no higher than the first page of it.
Streaming(p) ==
  /\ pc[p] = "request" => from[p] <= MetaPage
  /\ pc[p] \in {"lock", "copy", "metacopy"} => \A g \in MetaPage .. wpos[p] - 1 : Good(g)

\* What OpenedComplete says of one process.
Complete(p) ==
  pc[p] \in (ReadLabels \ {"dead"}) \cup {"hook"} =>
    /\ HasSuperblock
    /\ \A t \in Tables[opt[p].ver] : TableThere(t) /\ \A g \in MetaPage .. t - 1 : Good(g)

Filled == Solo /\ NoGap /\ \A p \in Proc : Streaming(p) /\ Complete(p)

LEMMA FileWrites ==
  ASSUME NEW p \in Proc, CacheStep(p)
  PROVE  \/ page' = page \/ CreateFile(p) \/ SetLength(p) \/ WriteSuperblock(p)
         \/ CopyMetaPart(p) \/ CopyMetaPage(p) \/ CopyPage(p) \/ CopyPart(p)
BY DEF CacheStep, Start, StartNew, NewStep, CheckExists, GetMetadata, GetMetaRange,
   CopyMetaDone, Open, OpenFails, SetHook, NewFault, GetMetadataFails, GetMetaRangeFails,
   CopyMetaFails, Panic, ReadStep, BeginRead, LocalStep, DetectHole, DetectZero, TryLock,
   LockTimeout, RawRead, Return, RemoteStep, GetRange, CopyDone, FaultStep, GetRangeFails,
   LockFails, CopyFails, Exit, Kill, Die

\* The two ways a stream writes.
LEMMA StreamWrites ==
  ASSUME CacheTyped, NEW p \in Proc, NEW g \in Pages
  PROVE  /\ CopyPage(p) \/ CopyMetaPage(p) =>
              page'[g] = page[g] \/ (g = wpos[p] /\ page'[g] = g)
         /\ CopyPart(p) \/ CopyMetaPart(p) =>
              \/ page'[g] = page[g]
              \/ g = wpos[p] /\ page[g] \in {Hole, Tail} /\ page'[g] \in {Super, Torn}
BY DEF CacheTyped, CacheTypeOK, CopyPage, CopyMetaPage, CopyPart, CopyMetaPart, WritePage,
       TearPage

\* Only making the file loses pages of it.
LEMMA GoodKept ==
  ASSUME CacheTyped, NEW p \in Proc, CacheStep(p), pc[p] \notin {"create", "length"}
  PROVE  /\ \A g \in Pages : Good(g) => Good(g)'
         /\ HasSuperblock => HasSuperblock'
<1>. USE DEF CacheTyped, CacheTypeOK, Good, HasSuperblock
<1>0. 0 \in Pages /\ Super \notin {Hole, Tail} /\ \A g \in Pages : g \notin {Hole, Tail, Super}
  BY GeometryAssumption, SentinelAssumption DEF Pages
<1>1. CASE page' = page
  BY <1>1
<1>2. CASE WriteSuperblock(p)
  BY <1>0, <1>2 DEF WriteSuperblock
<1>3. CASE CopyMetaPage(p) \/ CopyPage(p)
  BY <1>0, <1>3, StreamWrites
<1>4. CASE CopyPart(p) \/ CopyMetaPart(p)
  BY <1>0, <1>4, StreamWrites
<1>5. ~CreateFile(p) /\ ~SetLength(p)
  BY DEF CreateFile, SetLength
<1>. QED BY <1>1, <1>2, <1>3, <1>4, <1>5, FileWrites

\* Nor does a page that is begun, or written at all, lose that, but by making the file.
LEMMA BegunKept ==
  ASSUME CacheTyped, NEW p \in Proc, CacheStep(p), pc[p] \notin {"create", "length", "super"},
         NEW g \in Pages
  PROVE  Kept(g)
<1>. USE DEF Kept, Good, Touched, PageSound, Unfinished
<1>1. g \notin {Hole, Torn, Tail, Super}
  BY SentinelAssumption, GeometryAssumption DEF Pages
<1>2. CASE page' = page
  BY <1>2
<1>3. CASE CopyMetaPage(p) \/ CopyPage(p)
  <2>1. page'[g] \in {page[g], g}
    BY <1>3, StreamWrites
  <2>. QED BY <1>1, <2>1
<1>4. CASE CopyPart(p) \/ CopyMetaPart(p)
  <2>1. page'[g] = page[g] \/ (page[g] \in {Hole, Tail} /\ page'[g] \in {Super, Torn})
    BY <1>4, StreamWrites
  <2>. QED BY <1>1, <2>1, SentinelAssumption
<1>5. ~CreateFile(p) /\ ~SetLength(p) /\ ~WriteSuperblock(p)
  BY DEF CreateFile, SetLength, WriteSuperblock
<1>. QED BY <1>2, <1>3, <1>4, <1>5, FileWrites

\* A page that comes to be there, or begun, is where a stream is.
LEMMA NewlyThere ==
  ASSUME CacheTyped, NEW p \in Proc, CacheStep(p), NEW g \in Pages,
         TableThere(g)', ~TableThere(g)
  PROVE  pc[p] \in {"metacopy", "copy"} /\ g = wpos[p]
<1>. USE DEF CacheTyped, CacheTypeOK, TableThere
<1>0. /\ 0 \in Pages /\ FilePages - 1 \in Pages
      /\ g \notin {Hole, Torn, Tail, Super}
      /\ Torn \notin {Hole, Tail, Super}
  BY GeometryAssumption, SentinelAssumption DEF Pages
<1>1. page' # page
  OBVIOUS
<1>2. CASE CreateFile(p)
  BY <1>0, <1>2 DEF CreateFile
<1>3. CASE SetLength(p)
  <2>1. \/ page'[g] = page[g]
        \/ page[g] = Hole /\ page'[g] = Tail
        \/ page[g] = g /\ page'[g] = Torn
    BY <1>0, <1>3 DEF SetLength
  <2>. QED BY <1>0, <2>1
<1>4. CASE WriteSuperblock(p)
  <2>1. page'[g] \in {page[g], Super}
    BY <1>0, <1>4 DEF WriteSuperblock
  <2>. QED BY <1>0, <2>1
<1>5. CASE CopyMetaPage(p) \/ CopyPage(p)
  BY <1>0, <1>5, StreamWrites DEF CopyMetaPage, CopyPage
<1>6. CASE CopyMetaPart(p) \/ CopyPart(p)
  BY <1>0, <1>6, StreamWrites DEF CopyMetaPart, CopyPart
<1>. QED BY <1>1, <1>2, <1>3, <1>4, <1>5, <1>6, FileWrites

\* A page the file is about to lose: no other process cares.
LEMMA MakerAlone ==
  ASSUME Solo, NEW p \in Proc, pc[p] \in {"create", "length", "super"}
  PROVE  \A q \in Proc \ {p} : pc[q] \in {"dead", "panicked"}
BY DEF Solo, Alone, Making, InstallLabels

LEMMA NoGapStep ==
  ASSUME CacheTyped, Filled, NEW p \in Proc, CacheStep(p)
  PROVE  NoGap'
<1>. SUFFICES ASSUME NEW g \in Pages, g >= MetaPage, TableThere(g)',
                     NEW h \in MetaPage .. g - 1
              PROVE  Good(h)'
  BY DEF NoGap
<1>0. h \in Pages /\ h < g
  BY GeometryAssumption DEF Pages
<1>1. Good(h)
  <2>1. CASE TableThere(g)
    BY <2>1 DEF Filled, NoGap
  <2>2. CASE ~TableThere(g)
    BY <2>2, NewlyThere DEF Filled, Streaming
  <2>. QED BY <2>1, <2>2
<1>2. CASE page' = page
  BY <1>1, <1>2 DEF Good
<1>3. CASE CreateFile(p)
  <2>1. page' = page \/ page' = [x \in Pages |-> Hole]
    BY <1>3 DEF CreateFile
  <2>2. page' # [x \in Pages |-> Hole]
    BY SentinelAssumption, GeometryAssumption DEF TableThere, Pages
  <2>. QED BY <1>2, <2>1, <2>2
<1>4. CASE SetLength(p)
  <2>1. \A x \in Pages : x # FilePages - 1 => page'[x] = page[x]
    BY <1>4 DEF SetLength, CacheTyped, CacheTypeOK
  <2>2. h # FilePages - 1
    BY <1>0, GeometryAssumption DEF Pages
  <2>. QED BY <1>0, <1>1, <2>1, <2>2 DEF Good
<1>5. CASE pc[p] \notin {"create", "length"}
  BY <1>0, <1>1, <1>5, GoodKept
<1>6. CASE pc[p] \in {"create", "length"}
  <2>1. page' = page \/ CreateFile(p) \/ SetLength(p)
    BY <1>6, FileWrites DEF WriteSuperblock, CopyMetaPart, CopyMetaPage, CopyPage, CopyPart
  <2>. QED BY <1>2, <1>3, <1>4, <2>1
<1>. QED BY <1>5, <1>6

\* The pages a process has opened the file with.
LEMMA TablePages ==
  ASSUME CacheTyped, NEW q \in Proc, NEW t \in Tables[opt[q].ver]
  PROVE  t \in Pages /\ t >= MetaPage /\ MetaPage .. t - 1 \subseteq Pages
<1>1. opt[q].ver \in Versions
  BY DEF CacheTyped, CacheTypeOK, Options
<1>2. t \in MetaPage .. FilePages - 1
  BY <1>1, TablesAssumption
<1>. QED BY <1>2, GeometryAssumption DEF Pages

\* What a process has found in the file stays there, when the file is not being made.
LEMMA CompleteKept ==
  ASSUME CacheTyped, NEW p \in Proc, CacheStep(p), pc[p] \notin {"create", "length", "super"},
         NEW q \in Proc, Complete(q), pc[q] \in (ReadLabels \ {"dead"}) \cup {"hook"},
         opt'[q] = opt[q]
  PROVE  Complete(q)'
<1>1. HasSuperblock'
  BY GoodKept DEF Complete
<1>2. ASSUME NEW t \in Tables[opt[q].ver]
      PROVE  TableThere(t)' /\ \A g \in MetaPage .. t - 1 : Good(g)'
  <2>1. t \in Pages /\ MetaPage .. t - 1 \subseteq Pages
    BY <1>2, TablePages
  <2>2. TableThere(t) /\ \A g \in MetaPage .. t - 1 : Good(g)
    BY <1>2 DEF Complete
  <2>3. TableThere(t)'
    BY <2>1, <2>2, BegunKept DEF Kept, TableThere
  <2>4. \A g \in MetaPage .. t - 1 : Good(g)'
    BY <2>1, <2>2, GoodKept
  <2>. QED BY <2>3, <2>4
<1>. QED BY <1>1, <1>2 DEF Complete

LEMMA OthersFilled ==
  ASSUME CacheTyped, Filled, NEW p \in Proc, CacheStep(p), NEW q \in Proc, q # p
  PROVE  (Streaming(q) /\ Complete(q))'
<1>1. Untouched(q)
  BY OthersUntouched DEF CacheTyped
<1>2. CASE pc[p] \in {"create", "length", "super"}
  <2>1. pc[q] \in {"dead", "panicked"}
    BY <1>2, MakerAlone DEF Filled
  <2>. QED BY <1>1, <2>1 DEF Untouched, Streaming, Complete, ReadLabels
<1>3. CASE pc[p] \notin {"create", "length", "super"}
  <2>1. \A g \in Pages : Good(g) => Good(g)'
    BY <1>3, GoodKept
  <2>2. wpos[q] \in 0 .. FilePages
    BY DEF CacheTyped, CacheTypeOK
  <2>3. \A g \in MetaPage .. wpos[q] - 1 : g \in Pages
    BY <2>2, GeometryAssumption DEF Pages
  <2>4. Streaming(q)'
    BY <1>1, <2>1, <2>3 DEF Untouched, Streaming, Filled
  <2>5. Complete(q)'
    <3>1. CASE pc[q] \in (ReadLabels \ {"dead"}) \cup {"hook"}
      BY <1>1, <1>3, <3>1, CompleteKept DEF Filled, Untouched
    <3>2. CASE pc[q] \notin (ReadLabels \ {"dead"}) \cup {"hook"}
      BY <1>1, <3>2 DEF Complete, Untouched
    <3>. QED BY <3>1, <3>2
  <2>. QED BY <2>4, <2>5
<1>. QED BY <1>2, <1>3

\* The process itself: it opens a file whose tables are there, and everything below them.
LEMMA OwnComplete ==
  ASSUME CacheTyped, Filled, NEW p \in Proc, CacheStep(p)
  PROVE  Complete(p)'
<1>. DEFINE Through == (ReadLabels \ {"dead"}) \cup {"hook"}
<1>1. SUFFICES ASSUME pc'[p] \in Through PROVE Complete(p)'
  BY DEF Complete
<1>2. CASE Open(p)
  <2>1. page' = page /\ opt' = opt
    BY <1>2 DEF Open
  <2>2. HasSuperblock /\ \A t \in Tables[opt[p].ver] : TableThere(t)
    BY <1>2 DEF Open, CanOpen
  <2>3. ASSUME NEW t \in Tables[opt[p].ver] PROVE \A g \in MetaPage .. t - 1 : Good(g)
    BY <2>2, <2>3, TablePages DEF Filled, NoGap
  <2>. QED BY <2>1, <2>2, <2>3 DEF Complete, HasSuperblock, TableThere, Good
<1>3. CASE pc[p] \in Through /\ opt' = opt
  BY <1>3, CompleteKept DEF ReadLabels, Filled
<1>4. Open(p) \/ (pc[p] \in Through /\ opt' = opt)
  <2>. USE DEF Goto, newVars, CacheTyped, CacheTypeOK, ReadLabels, NewLabels, InstallLabels
  <2>1. ASSUME NEW l \in Unhooked, NEW o \in Options, Start(p, l, o) PROVE FALSE
    BY <1>1, <2>1 DEF Start, StartNew
  <2>2. CASE NewStep(p)
    BY <1>1, <2>2 DEF NewStep, CheckExists, GetMetadata, CreateFile, SetLength,
       WriteSuperblock, GetMetaRange, CopyMetaPart, CopyMetaPage, CopyMetaDone, OpenFails,
       SetHook
  <2>3. CASE NewFault(p)
    BY <1>1, <2>3 DEF NewFault, GetMetadataFails, GetMetaRangeFails, CopyMetaFails, Panic
  <2>4. CASE ReadStep(p) /\ UNCHANGED newVars
    BY <1>1, <2>4 DEF ReadStep, BeginRead, LocalStep, DetectHole, DetectZero, TryLock,
       LockTimeout, RawRead, Return, RemoteStep, GetRange, CopyPage, CopyPart, CopyDone,
       FaultStep, GetRangeFails, LockFails, CopyFails
  <2>5. CASE Exit(p) \/ Kill(p)
    BY <1>1, <2>5 DEF Exit, Kill, Die
  <2>. QED BY <2>1, <2>2, <2>3, <2>4, <2>5 DEF CacheStep
<1>. QED BY <1>2, <1>3, <1>4

\* A stream goes on from the page it has written.
LEMMA StreamsOn ==
  ASSUME CacheTyped, NEW p \in Proc, CacheStep(p), Streaming(p),
         pc[p] \in {"copy", "metacopy"}, pc'[p] = pc[p],
         wpos' = [wpos EXCEPT ![p] = @ + 1], wpos[p] \in Pages, WritePage(wpos[p])
  PROVE  Streaming(p)'
<1>1. \A g \in Pages : Good(g) => Good(g)'
  BY GoodKept
<1>2. wpos'[p] = wpos[p] + 1 /\ wpos[p] \in Nat
  BY GeometryAssumption DEF CacheTyped, CacheTypeOK, Pages
<1>3. ASSUME NEW g \in MetaPage .. wpos'[p] - 1 PROVE Good(g)'
  <2>1. g \in Pages /\ (g = wpos[p] \/ g \in MetaPage .. wpos[p] - 1)
    BY <1>2, GeometryAssumption DEF Pages
  <2>2. CASE g = wpos[p]
    <3>1. page'[g] = g
      BY <2>1, <2>2 DEF WritePage, CacheTyped, CacheTypeOK
    <3>. QED BY <3>1 DEF Good
  <2>3. CASE g \in MetaPage .. wpos[p] - 1
    BY <1>1, <2>1, <2>3 DEF Streaming
  <2>. QED BY <2>1, <2>2, <2>3
<1>. QED BY <1>3 DEF Streaming

LEMMA OwnStreaming ==
  ASSUME CacheTyped, Filled, NEW p \in Proc, CacheStep(p)
  PROVE  Streaming(p)'
<1>. USE DEF Goto, newVars, CacheTyped, CacheTypeOK
<1>0. Streaming(p) /\ Placed(p)
  BY DEF Filled
<1>1. CASE pc'[p] \notin {"request", "lock", "copy", "metacopy"}
  BY <1>1 DEF Streaming
<1>2. CASE DetectHole(p) \/ DetectZero(p)
  <2>1. req[p] \in Requests /\ ~req[p].meta
    BY <1>0, <1>2 DEF DetectHole, DetectZero, Placed, CallLabels, ReadLabels
  <2>2. \A g \in Range(req[p]) : g <= MetaPage
    BY <2>1, RequestAssumption, GeometryAssumption DEF Range, Pages
  <2>3. req[p].first \in Range(req[p])
    BY <2>1, RequestAssumption, GeometryAssumption DEF Range, Pages
  <2>4. pc'[p] = "request" => from'[p] \in Range(req[p])
    BY <1>2, <2>3 DEF DetectHole, DetectZero, Fetch
  <2>5. pc'[p] \in {"request", "read"}
    BY <1>2 DEF DetectHole, DetectZero, Fetch
  <2>. QED BY <2>2, <2>4, <2>5 DEF Streaming
<1>3. CASE GetRange(p)
  <2>1. wpos'[p] = RangeStart(p) /\ pc'[p] = "lock" /\ from[p] <= MetaPage
    BY <1>0, <1>3 DEF GetRange, Streaming
  <2>2. MetaPage .. wpos'[p] - 1 = {}
    BY <2>1, FetchStart, GeometryAssumption DEF Pages
  <2>. QED BY <2>1, <2>2 DEF Streaming
<1>4. CASE GetMetaRange(p)
  <2>1. wpos'[p] = MetaStart(local[p].chunk) /\ pc'[p] = "metacopy"
    BY <1>4 DEF GetMetaRange
  <2>2. MetaPage .. wpos'[p] - 1 = {}
    BY <2>1, FetchStart, GeometryAssumption DEF Pages
  <2>. QED BY <2>1, <2>2 DEF Streaming
<1>5. CASE TryLock(p)
  BY <1>0, <1>5 DEF TryLock, Streaming, Good
<1>6. CASE CopyPart(p) \/ CopyMetaPart(p)
  <2>1. /\ pc' = pc /\ wpos' = wpos /\ pc[p] \in {"copy", "metacopy"}
        /\ wpos[p] \in 0 .. FilePages
    BY <1>6 DEF CopyPart, CopyMetaPart
  <2>2. \A g \in MetaPage .. wpos[p] - 1 : g \in Pages
    BY <2>1, GeometryAssumption DEF Pages
  <2>3. \A g \in Pages : Good(g) => Good(g)'
    BY <2>1, GoodKept
  <2>. QED BY <1>0, <2>1, <2>2, <2>3 DEF Streaming
<1>7. CASE CopyPage(p)
  <2>1. wpos[p] \in Pages
    BY <1>0, <1>7, CopyInside DEF CopyPage, Placed, CallLabels, ReadLabels
  <2>. QED BY <1>0, <1>7, <2>1, StreamsOn DEF CopyPage
<1>8. CASE CopyMetaPage(p)
  <2>1. wpos[p] \in Pages
    BY <1>8, GeometryAssumption DEF CopyMetaPage, Pages
  <2>. QED BY <1>0, <1>8, <2>1, StreamsOn DEF CopyMetaPage
<1>9. \/ pc'[p] \notin {"request", "lock", "copy", "metacopy"}
      \/ DetectHole(p) \/ DetectZero(p) \/ GetRange(p) \/ GetMetaRange(p) \/ TryLock(p)
      \/ CopyPart(p) \/ CopyMetaPart(p) \/ CopyPage(p) \/ CopyMetaPage(p)
  <2>1. ASSUME NEW l \in Unhooked, NEW o \in Options, Start(p, l, o)
        PROVE  pc'[p] = "exists"
    BY <2>1 DEF Start, StartNew
  <2>2. CASE NewStep(p)
    BY <2>2 DEF NewStep, CheckExists, GetMetadata, CreateFile, SetLength,
       WriteSuperblock, CopyMetaDone, Open, Opened, OpenFails, SetHook
  <2>3. CASE NewFault(p)
    BY <2>3 DEF NewFault, GetMetadataFails, GetMetaRangeFails, CopyMetaFails, Panic
  <2>4. CASE ReadStep(p)
    BY <2>4 DEF ReadStep, BeginRead, Entry, LocalStep,
       LockTimeout, RawRead, Return, Finish, RemoteStep, CopyDone,
       FaultStep, GetRangeFails, LockFails, CopyFails
  <2>5. CASE Exit(p) \/ Kill(p)
    BY <2>5 DEF Exit, Kill, Die
  <2>. QED BY <2>1, <2>2, <2>3, <2>4, <2>5 DEF CacheStep
<1>. QED BY <1>1, <1>2, <1>3, <1>4, <1>5, <1>6, <1>7, <1>8, <1>9

LEMMA FilledStep ==
  SoloInstall /\ CacheTyped /\ Filled /\ [CacheNext]_cacheVars => Filled'
<1>. SUFFICES ASSUME SoloInstall, CacheTyped, Filled, [CacheNext]_cacheVars PROVE Filled'
  OBVIOUS
<1>1. CASE UNCHANGED cacheVars
  BY <1>1 DEF Filled, Solo, Alone, Making, NoGap, Streaming, Complete, Good, HasSuperblock,
     TableThere, cacheVars, vars, callVars, newVars
<1>2. CASE CacheNext
  <2>1. PICK p \in Proc : CacheStep(p)
    BY <1>2, StepOfOne
  <2>2. Solo' /\ NoGap'
    BY <2>1, SoloStep, NoGapStep DEF Filled
  <2>3. ASSUME NEW q \in Proc PROVE (Streaming(q) /\ Complete(q))'
    BY <2>1, OwnStreaming, OwnComplete, OthersFilled
  <2>. QED BY <2>2, <2>3 DEF Filled
<1>. QED BY <1>1, <1>2

LEMMA FilledInit == CacheInit => CacheTyped /\ Filled
<1>. SUFFICES ASSUME CacheInit PROVE CacheTyped /\ Filled
  OBVIOUS
<1>1. NoGap
  BY SentinelAssumption, GeometryAssumption DEF CacheInit, NoGap, TableThere, Pages
<1>. QED BY <1>1, CacheTypeInit DEF CacheInit, Filled, Solo, Alone, Making, Streaming,
            Complete, InstallLabels

\* When the file is only made, or made anew, while no other process uses it, whoever gets
\* through Local::new finds the superblock and all the metadata its reader loads, however
\* many attempts to make the file were interrupted, and wherever: the metadata is copied,
\* and fetched, in the order of the file, so that a table that loads has no gap below it.
THEOREM WhatOpensIsComplete == SoloInstall => (CacheSpec => []OpenedComplete)
<1>. SUFFICES ASSUME SoloInstall PROVE CacheSpec => []OpenedComplete
  OBVIOUS
<1>1. CacheTyped /\ Filled /\ [CacheNext]_cacheVars => CacheTyped' /\ Filled'
  BY CacheTypeStep, FilledStep
<1>2. CacheTyped /\ Filled => OpenedComplete
  BY DEF CacheTyped, Filled, Complete, HasSuperblock, OpenedComplete
<1>. QED BY <1>1, <1>2, FilledInit, PTL DEF CacheSpec

---------------------------------------------------------------------------
(* A finished file *)

\* How far a process is with the file it makes: one that does not truncate it has found
\* none; after the length is set the superblock comes first; and what a forced start is
\* about to open is finished.
MakeProgress(p) ==
  /\ pc[p] \in {"head", "create"} /\ ~opt[p].force => ~exists
  /\ pc[p] = "length" => page = [g \in Pages |-> Hole]
  /\ pc[p] \in {"metarange", "metacopy"} => HasSuperblock
  /\ pc[p] = "open" /\ opt[p].force => Finished

Progress == \A p \in Proc : MakeProgress(p)

\* While one process makes the file no other takes a step.
LEMMA MakerStepsAlone ==
  ASSUME SoloInstall, CacheTyped, Solo, NEW p \in Proc, Making(p),
         NEW q \in Proc, q # p, CacheStep(q)
  PROVE  FALSE
<1>1. pc[q] \in {"dead", "panicked"}
  BY DEF Solo, Alone
<1>2. PICK l \in Unhooked, o \in Options : Start(q, l, o)
  BY <1>1, StillMaking
<1>. QED BY <1>2 DEF Start, MayStart, Making

LEMMA FinishedKept ==
  ASSUME CacheTyped, NEW p \in Proc, CacheStep(p), pc[p] \notin {"create", "length"}, Finished
  PROVE  Finished'
<1>1. \A g \in Pages : Good(g) => Good(g)'
  BY GoodKept
<1>2. HasSuperblock => HasSuperblock'
  BY GoodKept
<1>3. \A g \in MetaPage .. FilePages - 1 : g \in Pages
  BY GeometryAssumption DEF Pages
<1>. QED BY <1>1, <1>2, <1>3 DEF Finished

LEMMA FinishedNotEmpty == Finished => page # [g \in Pages |-> Hole]
<1>1. 0 \in Pages /\ Hole # Super /\ Hole # 0
  BY GeometryAssumption, SentinelAssumption DEF Pages
<1>. QED BY <1>1 DEF Finished, HasSuperblock

LEMMA OthersProgress ==
  ASSUME SoloInstall, CacheTyped, Filled, Progress,
         NEW p \in Proc, CacheStep(p), NEW q \in Proc, q # p
  PROVE  MakeProgress(q)'
<1>1. Untouched(q)
  BY OthersUntouched DEF CacheTyped
<1>2. ~Making(q)
  BY MakerStepsAlone DEF Filled
<1>3. pc[q] \notin {"head", "create", "length", "metarange", "metacopy"}
  BY <1>2 DEF Making, InstallLabels
<1>4. ASSUME pc[q] = "open", opt[q].force PROVE Finished'
  <2>1. Finished
    BY <1>4 DEF Progress, MakeProgress
  <2>2. pc[p] \notin {"create", "length"}
    BY <1>4, MakerAlone DEF Filled
  <2>. QED BY <2>1, <2>2, FinishedKept
<1>. QED BY <1>1, <1>3, <1>4 DEF MakeProgress, Untouched

LEMMA OwnProgress ==
  ASSUME CacheTyped, Filled, Progress, NEW p \in Proc, CacheStep(p)
  PROVE  MakeProgress(p)'
<1>. USE DEF Goto, newVars, CacheTyped, CacheTypeOK
<1>0. MakeProgress(p) /\ Streaming(p)
  BY DEF Filled, Progress
<1>1. CASE pc'[p] \notin {"head", "create", "length", "metarange", "metacopy", "open"}
  BY <1>1 DEF MakeProgress
<1>2. CASE CheckExists(p)
  BY <1>2 DEF CheckExists, MakeProgress
<1>3. CASE GetMetadata(p)
  BY <1>0, <1>3 DEF GetMetadata, MakeProgress
<1>4. CASE CreateFile(p)
  BY <1>0, <1>4 DEF CreateFile, MakeProgress
<1>5. CASE WriteSuperblock(p)
  <2>1. 0 \in Pages
    BY GeometryAssumption DEF Pages
  <2>. QED BY <1>5, <2>1 DEF WriteSuperblock, MakeProgress, HasSuperblock, Good
<1>6. CASE GetMetaRange(p)
  BY <1>0, <1>6 DEF GetMetaRange, MakeProgress, HasSuperblock
<1>7. CASE CopyMetaPart(p) \/ CopyMetaPage(p)
  <2>1. HasSuperblock /\ pc[p] = "metacopy" /\ pc' = pc
    BY <1>0, <1>7 DEF CopyMetaPart, CopyMetaPage, MakeProgress
  <2>2. HasSuperblock'
    BY <2>1, GoodKept
  <2>. QED BY <2>1, <2>2 DEF MakeProgress
<1>8. CASE CopyMetaDone(p)
  <2>1. HasSuperblock /\ page' = page /\ pc'[p] = "open"
    BY <1>0, <1>8 DEF CopyMetaDone, MakeProgress
  <2>2. wpos[p] \in 0 .. FilePages /\ wpos[p] >= FilePages
    BY <1>8 DEF CopyMetaDone
  <2>3. \A g \in MetaPage .. FilePages - 1 : Good(g)
    BY <1>0, <1>8, <2>2, GeometryAssumption DEF CopyMetaDone, Streaming
  <2>. QED BY <2>1, <2>3 DEF MakeProgress, Finished, HasSuperblock, Good
<1>9. \/ pc'[p] \notin {"head", "create", "length", "metarange", "metacopy", "open"}
      \/ CheckExists(p) \/ GetMetadata(p) \/ CreateFile(p) \/ WriteSuperblock(p)
      \/ GetMetaRange(p) \/ CopyMetaPart(p) \/ CopyMetaPage(p) \/ CopyMetaDone(p)
  <2>1. ASSUME NEW l \in Unhooked, NEW o \in Options, Start(p, l, o)
        PROVE  pc'[p] = "exists"
    BY <2>1 DEF Start, StartNew
  <2>2. CASE NewStep(p)
    BY <2>2 DEF NewStep, SetLength, Open, Opened, OpenFails, SetHook
  <2>3. CASE NewFault(p)
    BY <2>3 DEF NewFault, GetMetadataFails, GetMetaRangeFails, CopyMetaFails, Panic
  <2>4. CASE ReadStep(p)
    BY <2>4 DEF ReadStep, BeginRead, Entry, LocalStep, DetectHole, DetectZero, Fetch,
       TryLock, LockTimeout, RawRead, Return, Finish, RemoteStep, GetRange, CopyPage,
       CopyPart, CopyDone, FaultStep, GetRangeFails, LockFails, CopyFails
  <2>5. CASE Exit(p) \/ Kill(p)
    BY <2>5 DEF Exit, Kill, Die
  <2>. QED BY <2>1, <2>2, <2>3, <2>4, <2>5 DEF CacheStep
<1>. QED BY <1>1, <1>2, <1>3, <1>4, <1>5, <1>6, <1>7, <1>8, <1>9

LifeInv == CacheTyped /\ Filled /\ Progress

LEMMA LifeInitially == CacheInit => LifeInv
BY FilledInit DEF LifeInv, CacheInit, Progress, MakeProgress

LEMMA LifeStep == SoloInstall /\ LifeInv /\ [CacheNext]_cacheVars => LifeInv'
<1>. SUFFICES ASSUME SoloInstall, LifeInv, [CacheNext]_cacheVars PROVE Progress'
  BY CacheTypeStep, FilledStep DEF LifeInv
<1>1. CASE UNCHANGED cacheVars
  BY <1>1 DEF LifeInv, Progress, MakeProgress, Finished, HasSuperblock, Good,
     cacheVars, vars, callVars, newVars
<1>2. CASE CacheNext
  <2>1. PICK p \in Proc : CacheStep(p)
    BY <1>2, StepOfOne
  <2>2. ASSUME NEW q \in Proc PROVE MakeProgress(q)'
    BY <2>1, OwnProgress, OthersProgress DEF LifeInv
  <2>. QED BY <2>2 DEF Progress
<1>. QED BY <1>1, <1>2

\* Where a process that is about to open the file goes next.
LEMMA Opening ==
  ASSUME CacheTyped, NEW p \in Proc, CacheStep(p), pc[p] = "open",
         pc'[p] \in {"panicked", "undefined"}
  PROVE  ~MustOpen(p)
<1>1. OpenFails(p)
  BY DEF CacheTyped, CacheTypeOK, Goto, newVars,
     CacheStep, Start, StartNew, NewStep, CheckExists, GetMetadata, CreateFile, SetLength,
     WriteSuperblock, GetMetaRange, CopyMetaPart, CopyMetaPage, CopyMetaDone, Open, Opened,
     SetHook,
     NewFault, GetMetadataFails, GetMetaRangeFails, CopyMetaFails,
     ReadStep, BeginRead, LocalStep, DetectHole, DetectZero, TryLock, LockTimeout, RawRead,
     Return, RemoteStep, GetRange, CopyPage, CopyPart, CopyDone, FaultStep, GetRangeFails,
     LockFails, CopyFails, Exit, Kill, Die
<1>. QED BY <1>1 DEF OpenFails

LEMMA FinishedOpens ==
  ASSUME CacheTyped, NEW p \in Proc, Finished
  PROVE  MustOpen(p)
<1>1. opt[p].ver \in Versions
  BY DEF CacheTyped, CacheTypeOK, Options
<1>2. Tables[opt[p].ver] \subseteq MetaPage .. FilePages - 1
  BY <1>1, TablesAssumption
<1>. QED BY <1>2 DEF Finished, MustOpen

\* What FinishedCacheOpens says of a step.
LEMMA FinishedStep ==
  ASSUME SoloInstall, LifeInv, CacheNext, Finished
  PROVE  /\ Finished' \/ ForcedCreate
         /\ \A q \in Proc : pc[q] = "open" => pc'[q] \notin {"panicked", "undefined"}
<1>1. PICK p \in Proc : CacheStep(p)
  BY StepOfOne
<1>. USE DEF LifeInv
<1>2. page # [g \in Pages |-> Hole]
  BY FinishedNotEmpty
<1>3. Finished' \/ ForcedCreate
  <2>1. CASE pc[p] \notin {"create", "length"}
    BY <1>1, <2>1, FinishedKept
  <2>2. CASE pc[p] = "create"
    <3>1. page' = page \/ CreateFile(p)
      BY <1>1, <2>2, FileWrites DEF SetLength, WriteSuperblock, CopyMetaPart, CopyMetaPage,
         CopyPage, CopyPart
    <3>2. CASE CreateFile(p)
      <4>1. opt[p].force
        BY <1>2, <2>2 DEF Progress, MakeProgress, CacheTyped, CacheTypeOK
      <4>2. pc'[p] = "length"
        BY <3>2 DEF CreateFile, Goto, CacheTyped, CacheTypeOK
      <4>. QED BY <2>2, <4>1, <4>2 DEF ForcedCreate
    <3>3. CASE page' = page
      BY <3>3 DEF Finished, HasSuperblock, Good
    <3>. QED BY <3>1, <3>2, <3>3
  <2>3. pc[p] # "length"
    BY <1>2 DEF Progress, MakeProgress
  <2>. QED BY <2>1, <2>2, <2>3
<1>4. ASSUME NEW q \in Proc, pc[q] = "open"
      PROVE  pc'[q] \notin {"panicked", "undefined"}
  <2>1. CASE q = p
    BY <1>1, <1>4, <2>1, Opening, FinishedOpens
  <2>2. CASE q # p
    BY <1>1, <1>4, <2>2, OthersUntouched DEF Untouched, CacheTyped
  <2>. QED BY <2>1, <2>2
<1>. QED BY <1>3, <1>4

\* A finished cache file stays finished and opens, for every reader, chunk size and mode,
\* through kills at any point, failed fetches and interrupted copies: only a start with
\* force undoes it (CreateFile's truncate), as long as the file is made by one process
\* while no other is alive.
THEOREM FinishedStays == SoloInstall => (CacheSpec => FinishedCacheOpens)
<1>. SUFFICES ASSUME SoloInstall PROVE CacheSpec => FinishedCacheOpens
  OBVIOUS
<1>1. LifeInv /\ [CacheNext]_cacheVars => LifeInv'
  BY LifeStep
<1>2. LifeInv /\ [CacheNext]_cacheVars =>
        [Finished =>
           /\ Finished' \/ ForcedCreate
           /\ \A p \in Proc :
                pc[p] = "open" => pc'[p] \notin {"panicked", "undefined"}]_cacheVars
  BY FinishedStep
<1>. QED BY <1>1, <1>2, LifeInitially, PTL DEF CacheSpec, FinishedCacheOpens

\* A start with force never fails in opening the file it has made, from any state of the
\* file it found and with any reader: what it opens is finished.
THEOREM ForcedStartSucceeds == SoloInstall => (CacheSpec => ForcedStartOpens)
<1>. SUFFICES ASSUME SoloInstall PROVE CacheSpec => ForcedStartOpens
  OBVIOUS
<1>1. LifeInv /\ [CacheNext]_cacheVars => LifeInv'
  BY LifeStep
<1>2. ASSUME LifeInv, CacheNext, NEW q \in Proc, pc[q] = "open", pc'[q] = "panicked"
      PROVE  ~opt[q].force
  <2>1. PICK p \in Proc : CacheStep(p)
    BY <1>2, StepOfOne
  <2>2. p = q
    BY <1>2, <2>1, OthersUntouched DEF Untouched, LifeInv, CacheTyped
  <2>3. ~MustOpen(q)
    BY <1>2, <2>1, <2>2, Opening DEF LifeInv
  <2>. QED BY <1>2, <2>3, FinishedOpens DEF LifeInv, Progress, MakeProgress
<1>3. LifeInv /\ [CacheNext]_cacheVars =>
        [\A p \in Proc : pc[p] = "open" /\ pc'[p] = "panicked" => ~opt[p].force]_cacheVars
  BY <1>2
<1>. QED BY <1>1, <1>3, LifeInitially, PTL DEF CacheSpec, ForcedStartOpens

---------------------------------------------------------------------------
(* The lock *)

LEMMA OwnLock ==
  ASSUME CacheTyped, NEW p \in Proc, CacheStep(p)
  PROVE  \/ TryLock(p)
         \/ Unlock(p) /\ pc'[p] # "copy"
         \/ UNCHANGED flock /\ (pc'[p] = "copy" <=> pc[p] = "copy")
<1>. DEFINE Goal == \/ TryLock(p)
                    \/ Unlock(p) /\ pc'[p] # "copy"
                    \/ UNCHANGED flock /\ (pc'[p] = "copy" <=> pc[p] = "copy")
<1>. USE DEF CacheTyped, CacheTypeOK, Goto, Finish, Fetch
<1>1. ASSUME NEW l \in Unhooked, NEW o \in Options, Start(p, l, o) PROVE Goal
  BY <1>1 DEF Start, StartNew
<1>2. CASE NewStep(p)
  BY <1>2 DEF NewStep, CheckExists, GetMetadata, CreateFile, SetLength, WriteSuperblock,
     GetMetaRange, CopyMetaPart, CopyMetaPage, CopyMetaDone, Open, Opened, OpenFails, SetHook
<1>3. CASE NewFault(p)
  BY <1>3 DEF NewFault, GetMetadataFails, GetMetaRangeFails, CopyMetaFails, Panic
<1>4. CASE ReadStep(p)
  <2>1. ASSUME NEW r \in Requests, BeginRead(p, r) PROVE Goal
    BY <2>1 DEF BeginRead, Entry
  <2>2. CASE LocalStep(p)
    BY <2>2 DEF LocalStep, DetectHole, DetectZero, LockTimeout, RawRead, Return, Entry
  <2>3. CASE RemoteStep(p)
    BY <2>3 DEF RemoteStep, GetRange, CopyPage, CopyPart, CopyDone
  <2>4. CASE FaultStep(p)
    BY <2>4 DEF FaultStep, GetRangeFails, LockFails, CopyFails
  <2>. QED BY <1>4, <2>1, <2>2, <2>3, <2>4 DEF ReadStep
<1>5. CASE Exit(p) \/ Kill(p)
  BY <1>5 DEF Exit, Kill, Die
<1>. QED BY <1>1, <1>2, <1>3, <1>4, <1>5 DEF CacheStep

LEMMA LockStep == CacheTyped /\ OneWriter /\ [CacheNext]_cacheVars => OneWriter'
<1>. SUFFICES ASSUME CacheTyped, OneWriter, [CacheNext]_cacheVars PROVE OneWriter'
  OBVIOUS
<1>1. CASE UNCHANGED cacheVars
  BY <1>1 DEF cacheVars, vars, OneWriter
<1>2. CASE CacheNext
  <2>1. PICK p \in Proc : CacheStep(p)
    BY <1>2, StepOfOne
  <2>2. \A q \in Proc : q # p => pc'[q] = pc[q]
    BY <2>1, OthersUntouched DEF Untouched, CacheTyped
  <2>3. CASE UNCHANGED flock /\ (pc'[p] = "copy" <=> pc[p] = "copy")
    BY <2>2, <2>3 DEF OneWriter
  <2>4. CASE TryLock(p)
    BY <2>2, <2>4, SentinelAssumption
       DEF TryLock, OneWriter, Goto, CacheTyped, CacheTypeOK
  <2>5. CASE Unlock(p) /\ pc'[p] # "copy"
    BY <2>2, <2>5, SentinelAssumption DEF Unlock, OneWriter
  <2>. QED BY <2>1, <2>3, <2>4, <2>5, OwnLock
<1>. QED BY <1>1, <1>2

\* One stream of archive_read_at at a time is copied into the file, and the lock does not
\* outlive its holder, whoever starts, exits, panics or is killed on the file (the copy of
\* the metadata in Local::new takes no lock: that is what SoloInstall is for).
THEOREM SharedCopiesExclude == CacheSpec => []OneWriter
<1>1. CacheInit => OneWriter
  BY SentinelAssumption DEF CacheInit, OneWriter
<1>. QED BY <1>1, LockStep, CacheTypeInit, CacheTypeStep, PTL DEF CacheSpec

---------------------------------------------------------------------------
(* What is read *)

\* A page is a hole, or the archive's, or begun, and never another page's.  (What the
\* metadata pages hold of an attempt to make the file that was interrupted is Complete's
\* concern.)
FileSound == \A g \in Pages : PageSound(g)

LEMMA FileSoundStep ==
  ASSUME CacheTyped, FileSound, NEW p \in Proc, CacheStep(p)
  PROVE  FileSound'
<1>. SUFFICES ASSUME NEW g \in Pages PROVE PageSound(g)'
  BY DEF FileSound
<1>. USE DEF PageSound, Unfinished
<1>1. /\ page \in [Pages -> Content] /\ FilePages - 1 \in Pages
      /\ page[g] \in {g, Hole, Torn, Tail, Super}
  BY GeometryAssumption DEF CacheTyped, CacheTypeOK, Pages, FileSound
<1>2. CASE page' = page
  BY <1>1, <1>2
<1>3. CASE CreateFile(p)
  BY <1>1, <1>3 DEF CreateFile
<1>4. CASE SetLength(p)
  <2>1. page'[g] \in {page[g], Tail, Torn}
    BY <1>1, <1>4 DEF SetLength
  <2>. QED BY <1>1, <2>1
<1>5. CASE WriteSuperblock(p)
  <2>1. page'[g] \in {page[g], Super}
    BY <1>1, <1>5 DEF WriteSuperblock
  <2>. QED BY <1>1, <2>1
<1>6. CASE CopyPage(p) \/ CopyMetaPage(p)
  BY <1>1, <1>6, StreamWrites
<1>7. CASE CopyPart(p) \/ CopyMetaPart(p)
  BY <1>1, <1>7, StreamWrites
<1>. QED BY <1>2, <1>3, <1>4, <1>5, <1>6, <1>7, FileWrites

\* Inside a call, the range to fetch lies in the file, starts at or before the first page
\* to fetch and ends after the last page wanted.
LEMMA FetchFacts ==
  ASSUME CacheTyped, NEW p \in Proc, pc[p] \in CallLabels
  PROVE  /\ req[p] \in Requests /\ req[p].first \in Nat /\ req[p].last \in Nat
         /\ req[p].first <= req[p].last /\ req[p].last < FilePages
         /\ Range(req[p]) \subseteq Pages
         /\ RangeStart(p) \in Nat /\ RangeStart(p) <= from[p]
         /\ from[p] \in Nat /\ from[p] < FilePages
         /\ RangeEnd(p) \in Nat /\ req[p].last < RangeEnd(p)
         /\ wpos[p] \in Nat /\ local[p].hdmode \in {"ALLZERO", "LSEEK"}
         /\ req[p].meta \in BOOLEAN
<1>1. req[p] \in Requests /\ req[p].meta \in BOOLEAN
  BY RequestAssumption DEF CacheTyped, Placed
<1>2. /\ req[p].first \in Nat /\ req[p].last \in Nat /\ req[p].stop \in Nat
      /\ req[p].first <= req[p].last /\ req[p].last < FilePages
      /\ req[p].last <= req[p].stop
  BY <1>1, RequestAssumption, GeometryAssumption DEF Pages
<1>3. Range(req[p]) \subseteq Pages
  BY <1>2, GeometryAssumption DEF Range, Pages
<1>4. from[p] \in Nat /\ from[p] < FilePages
  BY GeometryAssumption DEF CacheTyped, CacheTypeOK, Pages
<1>5. RangeStart(p) \in Nat /\ RangeStart(p) <= from[p]
  BY FetchStart, GeometryAssumption DEF CacheTyped, Pages
<1>6. local[p].chunk \in Nat \ {0}
  BY GeometryAssumption DEF CacheTyped, CacheTypeOK, Locals
<1>. DEFINE a == AlignDown(local[p].chunk, req[p].stop)
<1>7. a \in Nat /\ req[p].stop < a + local[p].chunk
  BY <1>2, <1>6, AlignDownFacts
<1>8. AlignedEnd(local[p].chunk, req[p].stop) = a + local[p].chunk
  BY DEF AlignedEnd
<1>. HIDE DEF a
<1>9. RangeEnd(p) \in Nat /\ req[p].last < RangeEnd(p)
  BY <1>2, <1>6, <1>7, <1>8, GeometryAssumption DEF RangeEnd, StreamEnd
<1>10. wpos[p] \in Nat
  <2>1. wpos[p] \in 0 .. FilePages
    BY DEF CacheTyped, CacheTypeOK
  <2>. QED BY <2>1, GeometryAssumption
<1>11. local[p].hdmode \in {"ALLZERO", "LSEEK"}
  <2>1. local[p] \in Locals
    BY DEF CacheTyped, CacheTypeOK
  <2>2. local[p].hdmode \in HdModes
    BY <2>1 DEF Locals
  <2>. QED BY <2>2, ModeAssumption
<1>. QED BY <1>1, <1>2, <1>3, <1>4, <1>5, <1>9, <1>10, <1>11

\* A call has no request and no answer outside of archive_read_at.
Calls(p) ==
  /\ pc[p] \notin CallLabels => req[p] = NoReq
  /\ pc[p] # "done" => got[p] = NoBytes

\* What a fetch has found or written, and what the raw read of a data range finds, as in
\* ReadAt.
Served(p) ==
  /\ FetchSound(p)
  /\ ~req[p].meta => RangeSound(p)
  /\ AnswerFetched(p)

\* The inductive invariant.
ReadsInv ==
  /\ CacheTyped
  /\ Filled
  /\ FileSound
  /\ got = [p \in Proc |-> got[p]]
  /\ \A p \in Proc : Calls(p) /\ Served(p)

LEMMA ReadsInitially == CacheInit => ReadsInv
<1>. SUFFICES ASSUME CacheInit PROVE ReadsInv
  OBVIOUS
<1>1. CacheTyped /\ Filled
  BY FilledInit
<1>2. FileSound
  BY DEF CacheInit, FileSound, PageSound
<1>3. got = [p \in Proc |-> got[p]]
  BY DEF CacheInit
<1>4. \A p \in Proc : Calls(p) /\ Served(p)
  BY DEF CacheInit, Calls, Served, FetchSound, RangeSound, AnswerFetched, CallLabels,
     ReadLabels
<1>. QED BY <1>1, <1>2, <1>3, <1>4 DEF ReadsInv

LEMMA OthersAnswer ==
  ASSUME got = [x \in Proc |-> got[x]], NEW p \in Proc, NEW q \in Proc, q # p, CacheStep(p)
  PROVE  got'[q] = got[q]
<1>. USE DEF callVars, Finish, Die
<1>1. CASE ReadStep(p)
  BY <1>1 DEF ReadStep, BeginRead, LocalStep, DetectHole, DetectZero, TryLock, LockTimeout,
     RawRead, Return, RemoteStep, GetRange, CopyPage, CopyPart, CopyDone, FaultStep,
     GetRangeFails, LockFails, CopyFails
<1>2. CASE Exit(p) \/ Kill(p)
  BY <1>2 DEF Exit, Kill
<1>. QED BY <1>1, <1>2 DEF CacheStep, Start

LEMMA AnswerType ==
  ASSUME got = [x \in Proc |-> got[x]], NEW p \in Proc, CacheStep(p)
  PROVE  got' = [x \in Proc |-> got'[x]]
<1>. USE DEF callVars, Finish, Die
<1>1. CASE ReadStep(p)
  BY <1>1 DEF ReadStep, BeginRead, LocalStep, DetectHole, DetectZero, TryLock, LockTimeout,
     RawRead, Return, RemoteStep, GetRange, CopyPage, CopyPart, CopyDone, FaultStep,
     GetRangeFails, LockFails, CopyFails
<1>2. CASE Exit(p) \/ Kill(p)
  BY <1>2 DEF Exit, Kill
<1>. QED BY <1>1, <1>2 DEF CacheStep, Start

\* What was found or written for a process stays so while others step.
LEMMA OthersServed ==
  ASSUME ReadsInv, NEW p \in Proc, CacheStep(p), NEW q \in Proc, q # p
  PROVE  (Calls(q) /\ Served(q))'
<1>1. Untouched(q) /\ got'[q] = got[q]
  BY OthersUntouched, OthersAnswer DEF ReadsInv, CacheTyped
<1>. USE DEF ReadsInv
<1>2. Calls(q)'
  BY <1>1 DEF Untouched, Calls
<1>3. CASE pc[q] \notin CallLabels
  BY <1>1, <1>2, <1>3
     DEF Untouched, Served, FetchSound, RangeSound, AnswerFetched, CallLabels, ReadLabels
<1>4. CASE pc[q] \in CallLabels
  <2>1. pc[p] \notin {"create", "length", "super"}
    BY <1>4, MakerAlone DEF Filled, CallLabels, ReadLabels
  <2>2. \A g \in Pages : Kept(g)
    BY <2>1, BegunKept
  <2>3. RangeStart(q)' = RangeStart(q)
    BY <1>1 DEF Untouched, RangeStart
  <2>4. /\ Range(req[q]) \subseteq Pages
        /\ req[q].first .. from[q] - 1 \subseteq Pages
        /\ RangeStart(q) .. wpos[q] - 1 \subseteq Pages
        /\ local[q].hdmode \in {"ALLZERO", "LSEEK"}
    <3>1. wpos[q] \in 0 .. FilePages
      BY DEF CacheTyped, CacheTypeOK
    <3>. QED BY <1>4, <3>1, FetchFacts, GeometryAssumption DEF Pages
  <2>5. FetchSound(q)'
    BY <1>1, <2>2, <2>3, <2>4 DEF Served, FetchSound, Untouched, Kept
  <2>6. (~req[q].meta => RangeSound(q))'
    <3>. SUFFICES ASSUME ~req[q].meta, pc[q] = "read" PROVE RangeSound(q)'
      BY <1>1 DEF Untouched, RangeSound
    <3>1. CASE local[q].hdmode = "LSEEK"
      BY <1>1, <2>2, <2>4, <3>1 DEF Served, RangeSound, Untouched, Kept
    <3>2. CASE local[q].hdmode = "ALLZERO"
      <4>1. \E g \in Range(req[q]) : page[g] \in {g, Torn}
        BY <3>2 DEF Served, RangeSound
      <4>2. \E g \in Range(req[q]) : page'[g] \in {g, Torn}
        BY <2>2, <2>4, <4>1 DEF Kept
      <4>. QED BY <1>1, <3>2, <4>2 DEF RangeSound, Untouched
    <3>. QED BY <2>4, <3>1, <3>2
  <2>7. AnswerFetched(q)'
    BY <1>1 DEF Served, AnswerFetched, Untouched
  <2>. QED BY <1>2, <2>5, <2>6, <2>7 DEF Served
<1>. QED BY <1>3, <1>4

LEMMA OwnCalls ==
  ASSUME ReadsInv, NEW p \in Proc, CacheStep(p)
  PROVE  Calls(p)'
<1>. USE DEF Calls, CallLabels, ReadLabels, NewLabels, InstallLabels, Goto
<1>0. /\ pc \in [Proc -> ReadLabels \cup NewLabels] /\ req \in [Proc -> Requests \cup {NoReq}]
      /\ got = [x \in Proc |-> got[x]] /\ Calls(p)
  BY DEF ReadsInv, CacheTyped, CacheTypeOK
<1>1. ASSUME NEW l \in Unhooked, NEW o \in Options, Start(p, l, o) PROVE Calls(p)'
  BY <1>0, <1>1 DEF Start, StartNew, callVars
<1>2. CASE NewStep(p) /\ UNCHANGED callVars
  BY <1>0, <1>2 DEF NewStep, CheckExists, GetMetadata, CreateFile, SetLength, WriteSuperblock,
     GetMetaRange, CopyMetaPart, CopyMetaPage, CopyMetaDone, Open, Opened, OpenFails,
     SetHook, callVars
<1>3. CASE NewFault(p) /\ UNCHANGED callVars
  BY <1>0, <1>3 DEF NewFault, GetMetadataFails, GetMetaRangeFails, CopyMetaFails, Panic,
     callVars
<1>4. CASE ReadStep(p)
  <2>1. ASSUME NEW r \in Requests, BeginRead(p, r) PROVE Calls(p)'
    BY <1>0, <2>1 DEF BeginRead, Entry
  <2>2. CASE LocalStep(p)
    BY <1>0, <2>2 DEF LocalStep, DetectHole, DetectZero, Fetch, TryLock, LockTimeout, RawRead,
       Entry, Finish, Return, callVars
  <2>3. CASE RemoteStep(p)
    BY <1>0, <2>3 DEF RemoteStep, GetRange, CopyPage, CopyPart, CopyDone, callVars
  <2>4. CASE FaultStep(p)
    BY <1>0, <2>4 DEF FaultStep, GetRangeFails, LockFails, CopyFails, Finish
  <2>. QED BY <1>4, <2>1, <2>2, <2>3, <2>4 DEF ReadStep
<1>5. CASE Exit(p) \/ Kill(p)
  BY <1>0, <1>5 DEF Exit, Kill, Die
<1>. QED BY <1>1, <1>2, <1>3, <1>4, <1>5 DEF CacheStep

\* The steps of archive_read_at.
LEMMA ReadServed ==
  ASSUME ReadsInv, NEW p \in Proc, ReadStep(p), CacheStep(p)
  PROVE  Served(p)'
<1>. USE DEF Served, FetchSound, RangeStart
<1>1. /\ pc \in [Proc -> ReadLabels \cup NewLabels] /\ got = [q \in Proc |-> got[q]]
      /\ wpos \in [Proc -> 0 .. FilePages] /\ from \in [Proc -> Pages]
      /\ req \in [Proc -> Requests \cup {NoReq}] /\ Served(p)
      /\ CacheTyped /\ FileSound
  BY DEF ReadsInv, CacheTyped, CacheTypeOK
<1>2. \A r \in Requests : Range(r) \subseteq Pages
  BY RequestAssumption, GeometryAssumption DEF Range, Pages
<1>3. ASSUME pc'[p] \in {"dead", "ready"} \/ (pc'[p] = "done" /\ got'[p] = IOError)
      PROVE  Served(p)'
  BY <1>3 DEF RangeSound, AnswerFetched
<1>4. ASSUME NEW r \in Requests, BeginRead(p, r) PROVE Served(p)'
  <2>1. page' = page /\ req'[p] = r /\ pc'[p] = IF r.meta THEN "read" ELSE "detect"
    BY <1>1, <1>4 DEF BeginRead, Goto, Entry
  <2>2. r.meta \in BOOLEAN
    BY RequestAssumption
  <2>. QED BY <2>1, <2>2 DEF RangeSound, AnswerFetched
<1>5. ASSUME NEW g \in Range(req[p]), Fetch(p, g), pc[p] = "detect", page' = page, req' = req,
             \A h \in req[p].first .. g - 1 : page[h] # Hole
      PROVE  Served(p)'
  <2>1. from'[p] = g /\ pc'[p] = "request"
    BY <1>1, <1>5 DEF Fetch, Goto
  <2>. QED BY <1>1, <1>5, <2>1 DEF RangeSound, AnswerFetched, Touched
<1>6. CASE DetectHole(p)
  <2>1. /\ pc[p] = "detect" /\ page' = page /\ req' = req /\ local' = local
        /\ local[p].hdmode = "LSEEK"
    BY <1>6 DEF DetectHole
  <2>2. ASSUME \A g \in Range(req[p]) : page[g] # Hole, pc'[p] = "read" PROVE Served(p)'
    BY <1>1, <2>1, <2>2 DEF RangeSound, AnswerFetched, Touched
  <2>. QED BY <1>1, <1>5, <1>6, <2>1, <2>2 DEF DetectHole, FirstHole, Goto
<1>7. CASE DetectZero(p)
  <2>1. /\ pc[p] = "detect" /\ page' = page /\ req' = req /\ local' = local
        /\ local[p].hdmode = "ALLZERO" /\ req[p] \in Requests
    BY <1>1, <1>7, FetchFacts DEF DetectZero, CallLabels, ReadLabels
  <2>2. /\ req[p].first \in Range(req[p])
        /\ req[p].first .. req[p].first - 1 = {}
    BY <2>1, RequestAssumption, GeometryAssumption DEF Range, Pages
  <2>3. ASSUME MayBeNonZero(req[p]), pc'[p] = "read" PROVE Served(p)'
    <3>1. PICK g \in Range(req[p]) : page[g] \notin {Hole, Super, Tail}
      BY <2>3 DEF MayBeNonZero
    <3>2. page[g] \in {g, Torn}
      BY <1>1, <1>2, <2>1, <3>1 DEF FileSound, PageSound, Unfinished
    <3>. QED BY <1>1, <2>1, <2>3, <3>2 DEF RangeSound, AnswerFetched
  <2>. QED BY <1>1, <1>5, <1>7, <2>1, <2>2, <2>3 DEF DetectZero, Goto
<1>8. CASE TryLock(p)
  BY <1>1, <1>8 DEF TryLock, Goto, Good, Touched, callVars, RangeSound, AnswerFetched
<1>9. CASE LockTimeout(p) \/ FaultStep(p) \/ Return(p)
  BY <1>1, <1>3, <1>9 DEF LockTimeout, FaultStep, GetRangeFails, LockFails, CopyFails, Finish,
     Return, Goto
<1>10. CASE RawRead(p)
  <2>1. pc[p] = "read" /\ req' = req /\ local' = local /\ page' = page
    BY <1>10 DEF RawRead
  <2>2. /\ req[p].meta \in BOOLEAN /\ Range(req[p]) \subseteq Pages
        /\ local[p].hdmode \in {"ALLZERO", "LSEEK"}
    BY <1>1, <2>1, FetchFacts DEF CallLabels, ReadLabels
  <2>3. CASE RawIsHooked(p)
    <3>1. pc'[p] = IF req[p].meta THEN "read" ELSE "detect"
      BY <1>1, <1>10, <2>3 DEF RawRead, Goto, Entry
    <3>. QED BY <2>1, <2>2, <3>1 DEF RangeSound, AnswerFetched
  <2>4. CASE ~RawIsHooked(p)
    <3>1. pc'[p] = "done" /\ got'[p] = [g \in Range(req[p]) |-> page[g]]
      BY <1>1, <1>10, <2>4 DEF RawRead, Finish, Goto
    <3>2. ASSUME ~req[p].meta, local[p].hdmode = "LSEEK"
          PROVE  \A g \in Range(req[p]) : page[g] \in {g} \cup Unfinished
      <4>1. \A g \in Range(req[p]) : page[g] # Hole
        BY <1>1, <2>1, <3>2 DEF RangeSound, Touched
      <4>. QED BY <1>1, <2>2, <4>1 DEF FileSound, PageSound
    <3>3. ASSUME ~req[p].meta, local[p].hdmode = "ALLZERO"
          PROVE  \E g \in Range(req[p]) : page[g] \in {g, Torn}
      BY <1>1, <2>1, <3>3 DEF RangeSound
    <3>4. AnswerFetched(p)'
      <4>1. CASE req[p].meta
        BY <2>1, <4>1 DEF AnswerFetched
      <4>2. CASE ~req[p].meta /\ local[p].hdmode = "LSEEK"
        BY <2>1, <3>1, <3>2, <4>2 DEF AnswerFetched
      <4>3. CASE ~req[p].meta /\ local[p].hdmode = "ALLZERO"
        BY <2>1, <3>1, <3>3, <4>3 DEF AnswerFetched
      <4>. QED BY <2>2, <4>1, <4>2, <4>3
    <3>. QED BY <3>1, <3>4 DEF RangeSound
  <2>. QED BY <2>3, <2>4
<1>11. CASE GetRange(p)
  <2>1. RangeStart(p) \in Nat
    BY <1>1, <1>11, FetchFacts DEF GetRange, CallLabels, ReadLabels
  <2>. QED BY <1>1, <1>11, <2>1
           DEF GetRange, Goto, callVars, Good, Touched, RangeSound, AnswerFetched
<1>12. CASE CopyPage(p) \/ CopyPart(p)
  <2>1. /\ pc[p] = "copy" /\ pc' = pc /\ req' = req /\ from' = from /\ local' = local
        /\ wpos[p] < RangeEnd(p) /\ wpos[p] >= RangeStart(p) /\ pc[p] \in CallLabels
    BY <1>1, <1>12 DEF CopyPage, CopyPart, callVars, CallLabels, ReadLabels
  <2>2. /\ RangeStart(p) \in Nat /\ wpos[p] \in Pages /\ wpos[p] \in Nat
        /\ RangeStart(p)' = RangeStart(p)
        /\ req[p].first .. from[p] - 1 \subseteq Pages
        /\ RangeStart(p) .. wpos[p] - 1 \subseteq Pages
    <3>1. wpos[p] \in Pages
      BY <1>1, <2>1, CopyInside, FetchFacts DEF CacheTyped
    <3>. QED BY <1>1, <2>1, <3>1, FetchFacts, GeometryAssumption DEF Pages
  <2>3. \/ wpos' = wpos
        \/ wpos'[p] = wpos[p] + 1 /\ page'[wpos[p]] = wpos[p]
    BY <1>1, <1>12, <2>2 DEF CopyPage, CopyPart, WritePage, CacheTyped, CacheTypeOK
  <2>4. \A g \in Pages : Kept(g)
    BY <1>1, <2>1, BegunKept
  <2>5. ASSUME NEW g \in RangeStart(p) .. wpos'[p] - 1 PROVE Good(g)'
    <3>1. CASE g \in RangeStart(p) .. wpos[p] - 1
      BY <1>1, <2>1, <2>2, <2>4, <3>1 DEF Kept
    <3>2. CASE g \notin RangeStart(p) .. wpos[p] - 1
      <4>1. wpos'[p] = wpos[p] + 1 /\ page'[wpos[p]] = wpos[p]
        BY <2>3, <2>5, <3>2
      <4>2. g = wpos[p]
        BY <2>2, <2>5, <3>2, <4>1
      <4>. QED BY <4>1, <4>2 DEF Good
    <3>. QED BY <3>1, <3>2
  <2>6. wpos'[p] >= RangeStart(p)
    BY <2>1, <2>2, <2>3
  <2>7. \A g \in req[p].first .. from[p] - 1 : Touched(g)'
    BY <1>1, <2>1, <2>2, <2>4 DEF Kept
  <2>. QED BY <1>1, <2>1, <2>2, <2>5, <2>6, <2>7 DEF RangeSound, AnswerFetched
<1>13. CASE CopyDone(p)
  <2>1. /\ pc[p] = "copy" /\ pc'[p] = "read" /\ req' = req /\ page' = page /\ local' = local
        /\ wpos[p] >= RangeEnd(p) /\ ~req[p].meta /\ from[p] \in Range(req[p])
        /\ pc[p] \in CallLabels
    BY <1>1, <1>13 DEF CopyDone, Goto, callVars, CallLabels, ReadLabels
  <2>2. /\ req[p] \in Requests /\ from[p] \in Nat /\ wpos[p] \in Nat
        /\ RangeStart(p) \in Nat /\ RangeStart(p) <= from[p]
        /\ RangeEnd(p) \in Nat /\ req[p].last < RangeEnd(p)
        /\ req[p].first \in Nat /\ req[p].last \in Nat
        /\ local[p].hdmode \in {"ALLZERO", "LSEEK"}
    BY <1>1, <2>1, FetchFacts
  <2>3. \A g \in Range(req[p]) : g \in Nat /\ g \notin {Hole, Torn, Tail, Super}
    BY <2>2, SentinelAssumption DEF Range
  <2>4. ASSUME NEW g \in Range(req[p]) PROVE Touched(g) /\ (g >= from[p] => Good(g))
    <3>1. g \in Nat /\ g < wpos[p] /\ g >= req[p].first
      BY <2>1, <2>2, <2>4 DEF Range
    <3>2. CASE g >= RangeStart(p)
      BY <1>1, <2>1, <2>2, <2>3, <3>1, <3>2 DEF Good, Touched
    <3>3. CASE g < RangeStart(p)
      BY <1>1, <2>1, <2>2, <3>1, <3>3
    <3>. QED BY <2>2, <3>1, <3>2, <3>3
  <2>5. page[from[p]] = from[p]
    BY <2>1, <2>2, <2>4 DEF Good
  <2>6. RangeSound(p)'
    BY <2>1, <2>2, <2>4, <2>5 DEF RangeSound, Touched
  <2>. QED BY <2>1, <2>6 DEF AnswerFetched
<1>. QED BY <1>4, <1>6, <1>7, <1>8, <1>9, <1>10, <1>11, <1>12, <1>13
         DEF ReadStep, LocalStep, RemoteStep

LEMMA OwnServed ==
  ASSUME ReadsInv, NEW p \in Proc, CacheStep(p)
  PROVE  Served(p)'
<1>. USE DEF Goto
<1>1. pc \in [Proc -> ReadLabels \cup NewLabels]
  BY DEF ReadsInv, CacheTyped, CacheTypeOK
<1>2. CASE pc'[p] \notin CallLabels
  BY <1>2 DEF Served, FetchSound, RangeSound, AnswerFetched, CallLabels, ReadLabels
<1>3. ReadStep(p) \/ pc'[p] \notin CallLabels
  <2>. USE DEF CallLabels, ReadLabels
  <2>1. ASSUME NEW l \in Unhooked, NEW o \in Options, Start(p, l, o)
        PROVE  pc'[p] \notin CallLabels
    BY <1>1, <2>1 DEF Start, StartNew
  <2>2. CASE NewStep(p)
    BY <1>1, <2>2 DEF NewStep, CheckExists, GetMetadata, CreateFile, SetLength,
       WriteSuperblock, GetMetaRange, CopyMetaPart, CopyMetaPage, CopyMetaDone, Open, Opened,
       OpenFails, SetHook
  <2>3. CASE NewFault(p)
    BY <1>1, <2>3 DEF NewFault, GetMetadataFails, GetMetaRangeFails, CopyMetaFails, Panic
  <2>4. CASE Exit(p) \/ Kill(p)
    BY <1>1, <2>4 DEF Exit, Kill, Die
  <2>. QED BY <2>1, <2>2, <2>3, <2>4 DEF CacheStep
<1>. QED BY <1>2, <1>3, ReadServed

LEMMA ReadsStep == SoloInstall /\ ReadsInv /\ [CacheNext]_cacheVars => ReadsInv'
<1>. SUFFICES ASSUME SoloInstall, ReadsInv, [CacheNext]_cacheVars PROVE ReadsInv'
  OBVIOUS
<1>1. CacheTyped' /\ Filled'
  BY CacheTypeStep, FilledStep DEF ReadsInv
<1>2. CASE UNCHANGED cacheVars
  BY <1>1, <1>2
     DEF cacheVars, vars, callVars, newVars, ReadsInv, FileSound, PageSound, Good, Touched,
         Calls, Served, FetchSound, RangeSound, AnswerFetched, RangeStart
<1>3. CASE CacheNext
  <2>1. PICK p \in Proc : CacheStep(p)
    BY <1>3, StepOfOne
  <2>2. FileSound'
    BY <2>1, FileSoundStep DEF ReadsInv
  <2>3. got' = [x \in Proc |-> got'[x]]
    BY <2>1, AnswerType DEF ReadsInv
  <2>4. ASSUME NEW q \in Proc PROVE (Calls(q) /\ Served(q))'
    <3>1. CASE q = p
      BY <2>1, <3>1, OwnCalls, OwnServed
    <3>2. CASE q # p
      BY <2>1, <3>2, OthersServed
    <3>. QED BY <3>1, <3>2
  <2>. QED BY <1>1, <2>2, <2>3, <2>4 DEF ReadsInv
<1>. QED BY <1>2, <1>3

\* What archive_read_at answers of data behind FUSE holds no page that nobody wrote (with
\* ALLZERO, it is not all holes), for any number of processes that are started, killed and
\* started again on one cache file, with any of the options: whatever interrupted attempts to
\* make the file, and interrupted fetches, have left in it.  (The processes of the command
\* line and the lambda return nothing at all: they are hooked twice.)
THEOREM SharedReadsAreFetched == SoloInstall => (CacheSpec => []AnswersFetched)
<1>. SUFFICES ASSUME SoloInstall PROVE CacheSpec => []AnswersFetched
  OBVIOUS
<1>1. ReadsInv /\ [CacheNext]_cacheVars => ReadsInv'
  BY ReadsStep
<1>2. ReadsInv => AnswersFetched
  BY DEF ReadsInv, Served, AnswersFetched
<1>. QED BY <1>1, <1>2, ReadsInitially, PTL DEF CacheSpec

---------------------------------------------------------------------------
(* Refinement *)

\* What the raw read finds of the pages that are promised.
LEMMA PromisedRight ==
  ASSUME ReadsInv, NEW p \in Proc, pc[p] = "read", NEW g \in Range(req[p]) \ CachePartial[p]
  PROVE  page[g] = g
<1>. USE DEF ReadsInv
<1>1. /\ g \in Pages /\ PageSound(g) /\ Served(p) /\ req[p] \in Requests
      /\ local[p].hdmode \in {"ALLZERO", "LSEEK"} /\ req[p].meta \in BOOLEAN
  BY FetchFacts DEF FileSound, CallLabels, ReadLabels
<1>2. CASE local[p].hdmode = "ALLZERO"
  BY <1>1, <1>2 DEF CachePartial, Partial, Good
<1>3. CASE ~req[p].meta /\ local[p].hdmode = "LSEEK"
  <2>1. page[g] # Hole
    BY <1>1, <1>3 DEF Served, RangeSound, Touched
  <2>2. page[g] \notin Unfinished
    BY <1>1, <1>3 DEF CachePartial, Partial
  <2>. QED BY <1>1, <2>1, <2>2 DEF PageSound
<1>4. CASE req[p].meta /\ local[p].hdmode = "LSEEK"
  <2>1. g >= MetaPage
    BY <1>1, <1>4, RequestAssumption, GeometryAssumption DEF Range, Pages
  <2>2. PICK t \in Tables[opt[p].ver] : ~(t < g)
    BY <1>1, <2>1 DEF CachePartial
  <2>3. TableThere(t) /\ \A h \in MetaPage .. t - 1 : Good(h)
    BY DEF Filled, Complete, ReadLabels
  <2>4. t \in Pages
    BY <2>2, TablePages DEF CacheTyped
  <2>5. CASE g = t
    BY <1>1, <1>4, <2>3, <2>5 DEF TableThere, CachePartial, Partial, Unfinished
  <2>6. CASE g # t
    <3>1. g \in MetaPage .. t - 1
      BY <1>1, <2>1, <2>2, <2>4, <2>6, GeometryAssumption DEF Pages
    <3>. QED BY <2>3, <3>1 DEF Good
  <2>. QED BY <2>5, <2>6
<1>. QED BY <1>1, <1>2, <1>3, <1>4

\* A step of the composition is, to those who read the archive, a call, an answer, the end
\* of a call, or nothing.
LEMMA SharedArchiveStep ==
  ASSUME ReadsInv, [CacheNext]_cacheVars
  PROVE  [CacheArchive!Next]_(CacheArchive!vars)
<1>. USE DEF CacheArchive!vars
<1>1. CASE UNCHANGED cacheVars
  BY <1>1 DEF cacheVars, vars, callVars
<1>2. CASE CacheNext
  <2>1. PICK p \in Proc : CacheStep(p)
    BY <1>2, StepOfOne
  <2>. SUFFICES ASSUME ~UNCHANGED <<req, got>> PROVE CacheArchive!Next
    OBVIOUS
  <2>2. /\ pc[p] \in CallLabels => req[p] # NoReq
        /\ pc[p] \notin CallLabels => req[p] = NoReq
        /\ pc[p] # "done" => got[p] = NoBytes
        /\ got = [q \in Proc |-> got[q]]
    BY RequestAssumption DEF ReadsInv, CacheTyped, Placed, Calls
  <2>3. ASSUME NEW r \in Requests, BeginRead(p, r) PROVE CacheArchive!Next
    <3>1. req[p] = NoReq
      BY <2>2, <2>3 DEF BeginRead, CallLabels
    <3>. QED BY <2>3, <3>1 DEF BeginRead, CacheArchive!Next, CacheArchive!Call
  <2>4. ASSUME Finish(p, IOError), UNCHANGED req, pc[p] \in CallLabels \ {"done"}
        PROVE  CacheArchive!Next
    <3>1. got'[p] = IOError /\ got' = [got EXCEPT ![p] = IOError]
      BY <2>2, <2>4 DEF Finish
    <3>. QED BY <2>2, <2>4, <3>1 DEF CacheArchive!Next, CacheArchive!Answer
  <2>5. CASE RawRead(p)
    <3>1. ~RawIsHooked(p)
      BY <2>5 DEF RawRead
    <3>. DEFINE bytes == [g \in Range(req[p]) |-> page[g]]
    <3>2. /\ pc[p] = "read" /\ req' = req /\ got' = [got EXCEPT ![p] = bytes]
          /\ pc[p] \in CallLabels
      BY <2>5, <3>1 DEF RawRead, Finish, CallLabels, ReadLabels
    <3>3. got'[p] = bytes
      BY <2>2, <3>2
    <3>4. DOMAIN bytes = CacheArchive!ArchiveRange(req[p])
      BY DEF CacheArchive!ArchiveRange, Range
    <3>5. \A g \in CacheArchive!ArchiveRange(req[p]) \ CachePartial[p] : bytes[g] = g
      BY <3>2, PromisedRight DEF CacheArchive!ArchiveRange, Range
    <3>. HIDE DEF bytes
    <3>6. CacheArchive!Answer(p)
      BY <2>2, <3>2, <3>3, <3>4, <3>5 DEF CacheArchive!Answer
    <3>. QED BY <3>6 DEF CacheArchive!Next
  <2>6. CASE Return(p)
    BY <2>2, <2>6 DEF Return, CacheArchive!Next, CacheArchive!Forget, CallLabels, ReadLabels
  <2>7. CASE Exit(p) \/ Kill(p)
    <3>1. /\ req' = [req EXCEPT ![p] = NoReq] /\ got' = [got EXCEPT ![p] = NoBytes]
      BY <2>7 DEF Exit, Kill, Die
    <3>2. CASE req[p] # NoReq
      BY <3>1, <3>2 DEF CacheArchive!Next, CacheArchive!Forget
    <3>3. CASE req[p] = NoReq
      <4>1. got[p] = NoBytes
        BY <2>2, <3>3 DEF CallLabels, ReadLabels
      <4>2. req \in [Proc -> Requests \cup {NoReq}]
        BY DEF ReadsInv, CacheTyped, CacheTypeOK
      <4>3. req' = req /\ got' = got
        BY <2>2, <3>1, <3>3, <4>1, <4>2
      <4>. QED BY <4>3
    <3>. QED BY <3>2, <3>3
  <2>8. CASE LockTimeout(p)
    BY <2>4, <2>8 DEF LockTimeout, CallLabels, ReadLabels
  <2>9. CASE FaultStep(p)
    BY <2>4, <2>9 DEF FaultStep, GetRangeFails, LockFails, CopyFails, CallLabels, ReadLabels
  <2>10. \/ \E r \in Requests : BeginRead(p, r)
         \/ RawRead(p) \/ Return(p) \/ LockTimeout(p) \/ FaultStep(p) \/ Exit(p) \/ Kill(p)
    BY <2>1 DEF CacheStep, Start, ReadStep, LocalStep, RemoteStep, DetectHole, DetectZero,
       TryLock, GetRange, CopyPage, CopyPart, CopyDone, callVars
  <2>. QED BY <2>3, <2>5, <2>6, <2>7, <2>8, <2>9, <2>10
<1>. QED BY <1>1, <1>2

\* The whole life of the cache file is invisible to those who read the archive through it,
\* but for pages written in part and for metadata above the tables they opened it with:
\* every behaviour of SharedCache, seen through the calls and their answers, is one of
\* ArchiveFile.
THEOREM SharedCacheImplementsArchive == SoloInstall => (CacheSpec => CacheImplementsFile)
<1>. SUFFICES ASSUME SoloInstall PROVE CacheSpec => CacheImplementsFile
  OBVIOUS
<1>1. CacheInit => ReadsInv /\ CacheArchive!Init
  BY ReadsInitially DEF CacheInit, CacheArchive!Init
<1>2. ReadsInv /\ [CacheNext]_cacheVars => ReadsInv'
  BY ReadsStep
<1>3. ReadsInv /\ [CacheNext]_cacheVars => [CacheArchive!Next]_(CacheArchive!vars)
  BY SharedArchiveStep
<1>. QED BY <1>1, <1>2, <1>3, PTL DEF CacheSpec, CacheImplementsFile, CacheArchive!Spec
============================================================================
