--------------------------- MODULE ReadAtProofs ---------------------------
(***************************************************************************)
(* Theorems about ReadAt, for every number of processes, archive length,   *)
(* set of chunk sizes and set of requests.                                 *)
(***************************************************************************)
EXTENDS ReadAt, TLAPS

---------------------------------------------------------------------------
(* Address arithmetic *)

\* An aligned address is at most the address and less than a chunk below it.
LEMMA AlignDownFacts ==
  ASSUME NEW c \in Nat \ {0}, NEW x \in Nat
  PROVE  /\ AlignDown(c, x) \in Nat
         /\ AlignDown(c, x) <= x
         /\ x < AlignDown(c, x) + c
<1>. DEFINE q == x \div c
<1>1. q \in Nat /\ q * c <= x /\ x < q * c + c
  BY SMTT(30)
<1>. QED BY <1>1 DEF AlignDown

\* No chunk of two pages or more starts at page 1: what starts at or below it is chunk 0.
LEMMA AlignDownFront ==
  ASSUME NEW c \in Nat \ {0}, NEW x \in Nat, c >= 2, AlignDown(c, x) <= 1
  PROVE  AlignDown(c, x) = 0
<1>. DEFINE q == x \div c
<1>1. q \in Int
  OBVIOUS
<1>2. q * c <= 1
  BY DEF AlignDown
<1>3. q >= 0
  BY <1>1, SMTT(30)
<1>4. ~ (q >= 1)
  BY <1>1, <1>2, SMTT(30)
<1>5. q = 0
  BY <1>1, <1>3, <1>4
<1>. QED BY <1>5 DEF AlignDown

\* Inside a call, the range to fetch lies in the file, starts at or before the first page
\* to fetch and ends after the last page wanted.
LEMMA RangeFacts ==
  ASSUME TypeOK, NEW p \in Proc, pc[p] \notin {"dead", "ready"}
  PROVE  /\ req[p] \in Requests
         /\ RangeStart(p) \in Nat /\ RangeStart(p) <= from[p] /\ from[p] < FilePages
         /\ RangeEnd(p) \in Nat /\ RangeEnd(p) <= FilePages
         /\ req[p].last < RangeEnd(p)
<1>1. req[p] \in Requests
  BY DEF TypeOK
<1>2. /\ req[p].first \in Nat /\ req[p].last \in Nat /\ req[p].stop \in Nat
      /\ req[p].first <= req[p].last /\ req[p].last < FilePages
      /\ req[p].last <= req[p].stop
  BY <1>1, RequestAssumption, GeometryAssumption DEF Pages
<1>3. local[p].chunk \in Nat \ {0}
  BY GeometryAssumption DEF TypeOK, Locals
<1>4. from[p] \in Nat /\ from[p] < FilePages
  BY GeometryAssumption DEF TypeOK, Pages
<1>5. RangeStart(p) \in Nat /\ RangeStart(p) <= from[p]
  BY <1>3, <1>4, AlignDownFacts DEF RangeStart
<1>. DEFINE a == AlignDown(local[p].chunk, req[p].stop)
<1>6. a \in Nat /\ req[p].stop < a + local[p].chunk
  BY <1>2, <1>3, AlignDownFacts
<1>7. AlignedEnd(local[p].chunk, req[p].stop) = a + local[p].chunk
  BY DEF AlignedEnd
<1>. HIDE DEF a
<1>8. /\ RangeEnd(p) \in Nat /\ RangeEnd(p) <= FilePages
      /\ req[p].last < RangeEnd(p)
  BY <1>2, <1>3, <1>6, <1>7, GeometryAssumption DEF RangeEnd, StreamEnd
<1>. QED BY <1>1, <1>4, <1>5, <1>8

---------------------------------------------------------------------------
(* Types *)

LEMMA TypeInit == Init => TypeOK
<1>. SUFFICES ASSUME Init PROVE TypeOK
  OBVIOUS
<1>1. PICK c \in ChunkSizes : page = FreshCache(c)
  BY DEF Init
<1>2. page \in [Pages -> Content]
  BY <1>1 DEF FreshCache, Content
<1>3. 0 \in Pages /\ 0 \in 0 .. FilePages
  BY GeometryAssumption DEF Pages
<1>4. local \in [Proc -> Locals]
  BY DEF Init, Hooked
<1>. QED BY <1>2, <1>3, <1>4 DEF Init, TypeOK, ReadLabels

\* The call returns with an answer: common to the actions that end a call.
LEMMA FinishType ==
  ASSUME TypeOK, NEW p \in Proc, pc[p] \notin {"dead", "ready"},
         NEW result, Finish(p, result), UNCHANGED <<page, local, req>>,
         flock' \in Proc \cup {NoProc}
  PROVE  TypeOK'
<1>1. 0 \in Pages /\ 0 \in 0 .. FilePages
  BY GeometryAssumption DEF Pages
<1>. QED BY <1>1 DEF TypeOK, Finish, Goto, ReadLabels

LEMMA TypeStep == TypeOK /\ [Next]_vars => TypeOK'
<1>. SUFFICES ASSUME TypeOK, [Next]_vars PROVE TypeOK'
  OBVIOUS
<1>. USE DEF vars, callVars
<1>1. CASE UNCHANGED vars
  BY <1>1 DEF TypeOK
<1>2. CASE Next
  <2>1. PICK p \in Proc : ReadStep(p) \/ Crash(p) \/ \E l \in Hooked : Restart(p, l)
    BY <1>2 DEF Next
  <2>2. ASSUME NEW r \in Requests, BeginRead(p, r) PROVE TypeOK'
    BY <2>2, RequestAssumption DEF TypeOK, BeginRead, Goto, Entry, ReadLabels
  <2>3. CASE DetectHole(p)
    <3>1. req[p] \in Requests
      BY <2>3 DEF DetectHole, TypeOK
    <3>2. Range(req[p]) \subseteq Pages
      BY <3>1, RequestAssumption, GeometryAssumption DEF Range, Pages
    <3>. QED BY <2>3, <3>2 DEF TypeOK, DetectHole, Fetch, Goto, ReadLabels
  <2>4. CASE DetectZero(p)
    <3>1. req[p] \in Requests
      BY <2>4 DEF DetectZero, TypeOK
    <3>2. req[p].first \in Pages
      BY <3>1, RequestAssumption
    <3>. QED BY <2>4, <3>2 DEF TypeOK, DetectZero, Fetch, Goto, ReadLabels
  <2>5. CASE TryLock(p)
    BY <2>5 DEF TypeOK, TryLock, Goto, ReadLabels
  <2>6. CASE LockTimeout(p)
    BY <2>6, FinishType DEF LockTimeout, TypeOK
  <2>7. CASE RawRead(p)
    <3>1. CASE RawIsHooked(p)
      BY <2>7, <3>1 DEF TypeOK, RawRead, Goto, Entry, ReadLabels
    <3>2. CASE ~RawIsHooked(p)
      BY <2>7, <3>2, FinishType DEF RawRead, TypeOK
    <3>. QED BY <3>1, <3>2
  <2>8. CASE Return(p)
    BY <2>8 DEF TypeOK, Return, Goto, ReadLabels
  <2>9. CASE GetRange(p)
    <3>1. RangeStart(p) \in Nat /\ RangeStart(p) <= from[p] /\ from[p] < FilePages
      BY <2>9, RangeFacts DEF GetRange
    <3>2. RangeStart(p) \in 0 .. FilePages
      BY <3>1, GeometryAssumption DEF TypeOK, Pages
    <3>. QED BY <2>9, <3>2 DEF TypeOK, GetRange, Goto, ReadLabels
  <2>10. CASE CopyPage(p)
    <3>1. RangeEnd(p) \in Nat /\ RangeEnd(p) <= FilePages
      BY <2>10, RangeFacts DEF CopyPage
    <3>2. wpos[p] < RangeEnd(p) /\ wpos[p] \in 0 .. FilePages
      BY <2>10 DEF CopyPage, TypeOK
    <3>3. wpos[p] \in Pages /\ wpos[p] + 1 \in 0 .. FilePages
      BY <3>1, <3>2, GeometryAssumption DEF Pages
    <3>. QED BY <2>10, <3>3 DEF TypeOK, CopyPage, WritePage, Content
  <2>11. CASE CopyPart(p)
    BY <2>11 DEF TypeOK, CopyPart, TearPage, Content
  <2>12. CASE CopyDone(p)
    BY <2>12 DEF TypeOK, CopyDone, Unlock, Goto, ReadLabels
  <2>13. CASE GetRangeFails(p)
    BY <2>13, FinishType DEF GetRangeFails, TypeOK
  <2>14. CASE LockFails(p)
    BY <2>14, FinishType DEF LockFails, TypeOK
  <2>15. CASE CopyFails(p)
    <3>1. flock' \in Proc \cup {NoProc}
      BY <2>15 DEF CopyFails, Unlock, TypeOK
    <3>. QED BY <2>15, <3>1, FinishType DEF CopyFails
  <2>16. CASE Crash(p)
    <3>1. 0 \in Pages /\ 0 \in 0 .. FilePages
      BY GeometryAssumption DEF Pages
    <3>. QED BY <2>16, <3>1 DEF TypeOK, Crash, Die, Unlock, Goto, ReadLabels
  <2>17. ASSUME NEW l \in Hooked, Restart(p, l) PROVE TypeOK'
    BY <2>17 DEF TypeOK, Restart, Goto, ReadLabels, Hooked
  <2>. QED BY <2>1, <2>2, <2>3, <2>4, <2>5, <2>6, <2>7, <2>8, <2>9, <2>10, <2>11, <2>12,
              <2>13, <2>14, <2>15, <2>16, <2>17
           DEF ReadStep, LocalStep, RemoteStep, FaultStep
<1>. QED BY <1>1, <1>2

\* Every reachable state is well typed, and no call keeps an answer it has not given: for
\* every setup, fault and hole detection mode of archive_read_at.
THEOREM TypeCorrect == Spec => []TypeOK
<1>. QED BY TypeInit, TypeStep, PTL DEF Spec

---------------------------------------------------------------------------
(* The lock, and the pages *)

\* A step of one process leaves the state of another alone, the file and the lock apart.
SameProcess(q) ==
  /\ pc'[q] = pc[q] /\ local'[q] = local[q] /\ wpos'[q] = wpos[q]
  /\ req'[q] = req[q] /\ from'[q] = from[q] /\ got'[q] = got[q]

Step(p) == ReadStep(p) \/ Crash(p) \/ \E l \in Hooked : Restart(p, l)

LEMMA OthersSame ==
  ASSUME TypeOK, NEW p \in Proc, NEW q \in Proc, q # p, Step(p)
  PROVE  SameProcess(q)
<1>. USE DEF SameProcess, TypeOK, callVars, Goto, Finish, Fetch
<1>1. ASSUME NEW r \in Requests, BeginRead(p, r) PROVE SameProcess(q)
  BY <1>1 DEF BeginRead
<1>2. CASE LocalStep(p)
  <2>1. CASE DetectHole(p) BY <2>1 DEF DetectHole
  <2>2. CASE DetectZero(p) BY <2>2 DEF DetectZero
  <2>3. CASE TryLock(p) \/ LockTimeout(p) BY <2>3 DEF TryLock, LockTimeout
  <2>4. CASE RawRead(p) BY <2>4 DEF RawRead
  <2>5. CASE Return(p) BY <2>5 DEF Return
  <2>. QED BY <1>2, <2>1, <2>2, <2>3, <2>4, <2>5 DEF LocalStep
<1>3. CASE RemoteStep(p)
  BY <1>3 DEF RemoteStep, GetRange, CopyPage, CopyPart, CopyDone
<1>4. CASE FaultStep(p)
  BY <1>4 DEF FaultStep, GetRangeFails, LockFails, CopyFails
<1>5. CASE Crash(p)
  BY <1>5 DEF Crash, Die
<1>6. ASSUME NEW l \in Hooked, Restart(p, l) PROVE SameProcess(q)
  BY <1>6 DEF Restart
<1>. QED BY <1>1, <1>2, <1>3, <1>4, <1>5, <1>6 DEF Step, ReadStep

\* Only the two steps that write the stream change the file.
LEMMA PageWrites ==
  ASSUME NEW p \in Proc, Step(p)
  PROVE  page' = page \/ CopyPage(p) \/ CopyPart(p)
BY DEF Step, ReadStep, LocalStep, RemoteStep, FaultStep, BeginRead, DetectHole, DetectZero,
       TryLock, LockTimeout, RawRead, Return, GetRange, GetRangeFails, LockFails, CopyDone,
       CopyFails, Crash, Die, Restart

\* What no step takes back: a page that is right, that is begun, that holds nothing foreign.
Kept(g) ==
  /\ Good(g) => Good(g)'
  /\ Touched(g) => Touched(g)'
  /\ page[g] \in {g, Torn} => page'[g] \in {g, Torn}
  /\ PageSound(g) => PageSound(g)'

LEMMA PagesKept ==
  ASSUME TypeOK, [Next]_vars, NEW g \in Pages
  PROVE  Kept(g)
<1>. USE DEF Kept, Good, Touched, PageSound, Unfinished
<1>1. CASE UNCHANGED vars
  BY <1>1 DEF vars
<1>2. CASE Next
  <2>1. PICK p \in Proc : Step(p)
    BY <1>2 DEF Next, Step
  <2>2. CASE page' = page
    BY <2>2
  <2>3. g \notin {Hole, Torn, Tail, Super}
    BY SentinelAssumption, GeometryAssumption DEF Pages
  <2>4. CASE CopyPage(p)
    <3>1. page'[g] \in {page[g], g}
      BY <2>4 DEF CopyPage, WritePage, TypeOK
    <3>. QED BY <2>3, <3>1
  <2>5. CASE CopyPart(p)
    <3>1. page'[g] = page[g] \/ (page[g] \in {Hole, Tail} /\ page'[g] \in {Super, Torn})
      BY <2>5 DEF CopyPart, TearPage, TypeOK
    <3>. QED BY <2>3, <3>1, SentinelAssumption
  <2>. QED BY <2>1, <2>2, <2>4, <2>5, PageWrites
<1>. QED BY <1>1, <1>2

\* A page of the cache that holds the archive's bytes holds them for ever: no fetch of
\* request_remote_data_task, however it overlaps others, fails or dies, spoils it.
THEOREM CacheNeverDegrades == Spec => GoodPagesStay
<1>1. TypeOK /\ [Next]_vars => [\A g \in Pages : Good(g) => Good(g)']_vars
  BY PagesKept DEF Kept
<1>. QED BY <1>1, TypeCorrect, PTL DEF Spec, GoodPagesStay

LEMMA OneWriterStep == TypeOK /\ OneWriter /\ [Next]_vars => OneWriter'
<1>. SUFFICES ASSUME TypeOK, OneWriter, [Next]_vars PROVE OneWriter'
  OBVIOUS
<1>1. CASE UNCHANGED vars
  BY <1>1 DEF vars, OneWriter
<1>2. CASE Next
  <2>1. PICK p \in Proc : Step(p)
    BY <1>2 DEF Next, Step
  <2>2. \A q \in Proc : q # p => pc'[q] = pc[q]
    BY <2>1, OthersSame DEF SameProcess
  <2>3. CASE UNCHANGED flock /\ (pc'[p] = "copy" <=> pc[p] = "copy")
    BY <2>2, <2>3 DEF OneWriter
  <2>4. CASE TryLock(p)
    BY <2>2, <2>4, SentinelAssumption DEF TryLock, OneWriter, Goto, TypeOK
  <2>5. CASE Unlock(p) /\ pc'[p] # "copy"
    BY <2>2, <2>5, SentinelAssumption DEF Unlock, OneWriter
  <2>6. TryLock(p) \/ (Unlock(p) /\ pc'[p] # "copy")
          \/ (UNCHANGED flock /\ (pc'[p] = "copy" <=> pc[p] = "copy"))
    <3>. USE DEF TypeOK, Goto, Finish, Fetch
    <3>1. ASSUME NEW r \in Requests, BeginRead(p, r)
          PROVE  UNCHANGED flock /\ (pc'[p] = "copy" <=> pc[p] = "copy")
      BY <3>1 DEF BeginRead, Entry
    <3>2. CASE DetectHole(p) \/ DetectZero(p)
      BY <3>2 DEF DetectHole, DetectZero
    <3>3. CASE LockTimeout(p) \/ RawRead(p) \/ Return(p)
      BY <3>3 DEF LockTimeout, RawRead, Return, Entry
    <3>4. CASE RemoteStep(p)
      BY <3>4 DEF RemoteStep, GetRange, CopyPage, CopyPart, CopyDone
    <3>5. CASE FaultStep(p)
      BY <3>5 DEF FaultStep, GetRangeFails, LockFails, CopyFails
    <3>6. CASE Crash(p)
      BY <3>6 DEF Crash, Die
    <3>7. ASSUME NEW l \in Hooked, Restart(p, l)
          PROVE  UNCHANGED flock /\ (pc'[p] = "copy" <=> pc[p] = "copy")
      BY <3>7 DEF Restart
    <3>. QED BY <2>1, <3>1, <3>2, <3>3, <3>4, <3>5, <3>6, <3>7 DEF Step, ReadStep, LocalStep
  <2>. QED BY <2>3, <2>4, <2>5, <2>6
<1>. QED BY <1>1, <1>2

\* One stream at a time is copied into the file, and the lock is held exactly for the
\* copy: FileLock, and the close of the file on every way out of the fetch.
THEOREM CopiesExcludeEachOther == Spec => []OneWriter
<1>1. Init => OneWriter
  BY SentinelAssumption DEF Init, OneWriter
<1>. QED BY <1>1, OneWriterStep, TypeCorrect, PTL DEF Spec

---------------------------------------------------------------------------
(* Pages written in part *)

\* The holder of the lock that has written part of a page is inside its stream, so that
\* its copy cannot end there.
TornInStream ==
  \A g \in Pages :
    page[g] = Torn =>
      \E p \in Proc : flock = p /\ pc[p] = "copy" /\ wpos[p] = g /\ g < RangeEnd(p)

LEMMA TornInit == Init => TornInStream
<1>. SUFFICES ASSUME Init PROVE TornInStream
  OBVIOUS
<1>1. PICK c \in ChunkSizes : page = FreshCache(c)
  BY DEF Init
<1>2. \A g \in Pages : page[g] # Torn
  BY <1>1, SentinelAssumption, GeometryAssumption DEF FreshCache, Pages
<1>. QED BY <1>2 DEF TornInStream

\* The lock has one holder, and only its copy moves a torn page or leaves it.
LEMMA TornStep ==
  ASSUME Faults \cap {"crash", "stream"} = {}, TypeOK, OneWriter, TornInStream, [Next]_vars
  PROVE  TornInStream'
<1>1. CASE UNCHANGED vars
  BY <1>1 DEF vars, callVars, TornInStream, RangeEnd
<1>2. CASE Next
  <2>1. PICK p \in Proc : Step(p)
    BY <1>2 DEF Next, Step
  <2>2. \A q \in Proc \ {p} : SameProcess(q) /\ RangeEnd(q)' = RangeEnd(q)
    BY <2>1, OthersSame DEF SameProcess, RangeEnd
  <2>3. CASE page' = page /\ flock # p /\ flock' = flock
    BY <2>2, <2>3 DEF TornInStream, SameProcess
  <2>4. CASE page' = page /\ \A g \in Pages : page[g] # Torn
    BY <2>4 DEF TornInStream
  <2>5. CASE CopyPage(p)
    <3>1. wpos[p] \in Nat /\ page' = [page EXCEPT ![wpos[p]] = wpos[p]] /\ flock = p
      BY <2>5 DEF CopyPage, WritePage, TypeOK, OneWriter
    <3>2. \A g \in Pages : page[g] = Torn => g = wpos[p]
      BY <3>1 DEF TornInStream
    <3>3. \A g \in Pages : page'[g] # Torn
      BY <3>1, <3>2, SentinelAssumption DEF TypeOK
    <3>. QED BY <3>3 DEF TornInStream
  <2>6. CASE CopyPart(p)
    <3>1. /\ flock = p /\ pc[p] = "copy" /\ wpos[p] < RangeEnd(p) /\ flock' = flock
          /\ pc' = pc /\ wpos' = wpos /\ RangeEnd(p)' = RangeEnd(p)
      BY <2>6 DEF CopyPart, OneWriter, callVars, RangeEnd
    <3>2. \A g \in Pages : page'[g] = Torn => g = wpos[p] \/ page[g] = Torn
      BY <2>6 DEF CopyPart, TearPage, TypeOK
    <3>3. \A g \in Pages : page[g] = Torn => g = wpos[p]
      BY <3>1 DEF TornInStream
    <3>. QED BY <3>1, <3>2, <3>3 DEF TornInStream
  <2>7. CASE CopyDone(p)
    <3>1. flock = p /\ page' = page /\ wpos[p] >= RangeEnd(p)
      BY <2>7 DEF CopyDone, OneWriter
    <3>2. RangeEnd(p) \in Nat /\ wpos[p] \in Nat
      BY <2>7, RangeFacts DEF CopyDone, TypeOK
    <3>3. \A g \in Pages : page[g] # Torn
      BY <3>1, <3>2 DEF TornInStream
    <3>. QED BY <2>4, <3>1, <3>3
  <2>8. CASE TryLock(p)
    <3>1. flock = NoProc /\ page' = page
      BY <2>8 DEF TryLock
    <3>2. \A g \in Pages : page[g] # Torn
      BY <3>1, SentinelAssumption DEF TornInStream
    <3>. QED BY <2>4, <3>1, <3>2
  <2>9. \/ CopyPage(p) \/ CopyPart(p) \/ CopyDone(p) \/ TryLock(p)
        \/ page' = page /\ flock' = flock /\ pc[p] # "copy"
    <3>1. "crash" \notin Faults /\ "stream" \notin Faults
      OBVIOUS
    <3>. QED BY <2>1, <3>1
             DEF Step, ReadStep, LocalStep, RemoteStep, FaultStep, BeginRead, DetectHole,
                 DetectZero, LockTimeout, RawRead, Return, GetRange, GetRangeFails, LockFails,
                 CopyFails, Crash, Restart
  <2>. QED BY <2>3, <2>5, <2>6, <2>7, <2>8, <2>9 DEF OneWriter
<1>. QED BY <1>1, <1>2

---------------------------------------------------------------------------
(* What is read *)

Sound(p) == FetchSound(p) /\ RangeSound(p) /\ AnswerFetched(p)

Inv == TypeOK /\ FetchInvariant /\ AnswersFetched

LEMMA InvInit == Init => Inv
<1>. SUFFICES ASSUME Init PROVE Inv
  OBVIOUS
<1>1. PICK c \in ChunkSizes : page = FreshCache(c)
  BY DEF Init
<1>2. c \in Nat \ {0} /\ MetaPage \in Nat
  BY GeometryAssumption
<1>. DEFINE m == MetaStart(c)
<1>3. m \in Nat /\ m <= MetaPage
  BY <1>2, AlignDownFacts DEF MetaStart
<1>. HIDE DEF m
<1>4. \A g \in Pages : page[g] = IF g >= m THEN g ELSE IF g = 0 THEN Super ELSE Hole
  BY <1>1 DEF FreshCache, m
<1>5. CacheSound
  BY <1>2, <1>3, <1>4, GeometryAssumption
     DEF CacheSound, PageSound, Unfinished, Good, Pages
<1>6. TypeOK
  BY TypeInit
<1>. QED BY <1>5, <1>6
         DEF Init, Inv, FetchInvariant, FetchSound, RangeSound, AnswersFetched, AnswerFetched

\* The pages a process in a call relies on.
LEMMA CallPages ==
  ASSUME TypeOK, NEW q \in Proc, pc[q] \notin {"dead", "ready"}
  PROVE  /\ req[q] \in Requests /\ Range(req[q]) \subseteq Pages
         /\ req[q].first .. from[q] - 1 \subseteq Pages
         /\ RangeStart(q) .. wpos[q] - 1 \subseteq Pages
         /\ RangeStart(q) \in Nat /\ wpos[q] \in Nat /\ local[q].hdmode \in {"ALLZERO", "LSEEK"}
<1>1. /\ req[q] \in Requests /\ RangeStart(q) \in Nat
      /\ from[q] \in Pages /\ wpos[q] \in 0 .. FilePages
  BY RangeFacts DEF TypeOK
<1>2. req[q].first \in Nat /\ req[q].last \in Nat /\ req[q].last < FilePages
  BY <1>1, RequestAssumption, GeometryAssumption DEF Pages
<1>3. Range(req[q]) \subseteq Pages
  BY <1>2, GeometryAssumption DEF Range, Pages
<1>4. req[q].first .. from[q] - 1 \subseteq Pages
  BY <1>1, <1>2, GeometryAssumption DEF Pages
<1>5. RangeStart(q) .. wpos[q] - 1 \subseteq Pages
  BY <1>1, GeometryAssumption DEF Pages
<1>6. local[q].hdmode \in {"ALLZERO", "LSEEK"}
  BY ModeAssumption DEF TypeOK, Locals
<1>. QED BY <1>1, <1>3, <1>4, <1>5, <1>6, GeometryAssumption

\* What was found or written for a process stays so while others step.
LEMMA SoundFrame ==
  ASSUME TypeOK, NEW q \in Proc, Sound(q), SameProcess(q), \A g \in Pages : Kept(g)
  PROVE  Sound(q)'
<1>1. CASE pc[q] \in {"dead", "ready"}
  BY <1>1 DEF Sound, SameProcess, FetchSound, RangeSound, AnswerFetched
<1>2. CASE pc[q] \notin {"dead", "ready"}
  <2>1. RangeStart(q)' = RangeStart(q)
    BY DEF SameProcess, RangeStart
  <2>2. /\ Range(req[q]) \subseteq Pages /\ req[q].first .. from[q] - 1 \subseteq Pages
        /\ RangeStart(q) .. wpos[q] - 1 \subseteq Pages
        /\ local[q].hdmode \in {"ALLZERO", "LSEEK"}
    BY <1>2, CallPages
  <2>3. FetchSound(q)'
    BY <2>1, <2>2 DEF Sound, FetchSound, SameProcess, Kept
  <2>4. RangeSound(q)'
    <3>1. CASE req[q].meta
      BY <2>2, <3>1 DEF Sound, RangeSound, SameProcess, Kept
    <3>2. CASE ~req[q].meta /\ local[q].hdmode = "LSEEK"
      BY <2>2, <3>2 DEF Sound, RangeSound, SameProcess, Kept
    <3>3. CASE ~req[q].meta /\ local[q].hdmode = "ALLZERO"
      <4>1. pc[q] = "read" => \E g \in Range(req[q]) : page[g] \in {g, Torn}
        BY <3>3 DEF Sound, RangeSound
      <4>2. pc[q] = "read" => \E g \in Range(req[q]) : page'[g] \in {g, Torn}
        BY <2>2, <4>1 DEF Kept
      <4>. QED BY <3>3, <4>2 DEF RangeSound, SameProcess
    <3>. QED BY <2>2, <3>1, <3>2, <3>3
  <2>5. AnswerFetched(q)'
    BY DEF Sound, AnswerFetched, SameProcess
  <2>. QED BY <2>3, <2>4, <2>5 DEF Sound
<1>. QED BY <1>1, <1>2

LEMMA SoundStep ==
  ASSUME TypeOK, FetchInvariant, NEW p \in Proc, Sound(p), Step(p), \A g \in Pages : Kept(g)
  PROVE  Sound(p)'
<1>. USE DEF Sound, FetchSound, RangeStart
<1>1. /\ pc \in [Proc -> ReadLabels] /\ got = [q \in Proc |-> got[q]]
      /\ wpos \in [Proc -> 0 .. FilePages] /\ from \in [Proc -> Pages]
      /\ req \in [Proc -> Requests \cup {NoReq}]
  BY DEF TypeOK
<1>2. \A r \in Requests : Range(r) \subseteq Pages
  BY RequestAssumption, GeometryAssumption DEF Range, Pages
<1>3. ASSUME pc'[p] \in {"dead", "ready"} \/ (pc'[p] = "done" /\ got'[p] = IOError)
      PROVE  Sound(p)'
  BY <1>3 DEF RangeSound, AnswerFetched
<1>4. ASSUME NEW r \in Requests, BeginRead(p, r) PROVE Sound(p)'
  <2>1. r.meta => \A g \in Range(r) : Good(g)
    BY <1>2, RequestAssumption, GeometryAssumption
       DEF FetchInvariant, CacheSound, Range, Pages
  <2>2. page' = page /\ req'[p] = r /\ pc'[p] = IF r.meta THEN "read" ELSE "detect"
    BY <1>1, <1>4 DEF BeginRead, Goto, Entry
  <2>3. CASE r.meta
    BY <2>1, <2>2, <2>3 DEF RangeSound, AnswerFetched, Good
  <2>4. CASE ~r.meta
    BY <2>2, <2>4 DEF RangeSound, AnswerFetched
  <2>. QED BY <2>3, <2>4
<1>5. ASSUME NEW g \in Range(req[p]), Fetch(p, g), pc[p] = "detect", page' = page, req' = req,
             \A h \in req[p].first .. g - 1 : page[h] # Hole
      PROVE  Sound(p)'
  <2>1. from'[p] = g /\ pc'[p] = "request"
    BY <1>1, <1>5 DEF Fetch, Goto
  <2>. QED BY <1>5, <2>1 DEF RangeSound, AnswerFetched, Touched
<1>6. CASE DetectHole(p)
  <2>1. /\ pc[p] = "detect" /\ page' = page /\ req' = req /\ local' = local
        /\ local[p].hdmode = "LSEEK"
    BY <1>6 DEF DetectHole
  <2>2. ASSUME \A g \in Range(req[p]) : page[g] # Hole, pc'[p] = "read" PROVE Sound(p)'
    BY <2>1, <2>2 DEF RangeSound, AnswerFetched, Touched
  <2>. QED BY <1>1, <1>5, <1>6, <2>1, <2>2 DEF DetectHole, FirstHole, Goto
<1>7. CASE DetectZero(p)
  <2>1. /\ pc[p] = "detect" /\ page' = page /\ req' = req /\ local' = local
        /\ local[p].hdmode = "ALLZERO" /\ req[p] \in Requests
    BY <1>7 DEF DetectZero, TypeOK
  <2>2. /\ req[p].first \in Range(req[p])
        /\ req[p].first .. req[p].first - 1 = {}
    BY <2>1, RequestAssumption, GeometryAssumption DEF Range, Pages
  <2>3. ASSUME MayBeNonZero(req[p]), pc'[p] = "read" PROVE Sound(p)'
    <3>1. PICK g \in Range(req[p]) : page[g] \notin {Hole, Super, Tail}
      BY <2>3 DEF MayBeNonZero
    <3>2. page[g] \in {g, Torn}
      BY <1>2, <2>1, <3>1 DEF FetchInvariant, CacheSound, PageSound, Unfinished
    <3>. QED BY <2>1, <2>3, <3>2 DEF RangeSound, AnswerFetched
  <2>. QED BY <1>1, <1>5, <1>7, <2>1, <2>2, <2>3 DEF DetectZero, Goto
<1>8. CASE TryLock(p)
  BY <1>1, <1>8 DEF TryLock, Goto, Good, Touched, callVars, RangeSound, AnswerFetched
<1>9. CASE LockTimeout(p) \/ FaultStep(p) \/ Return(p) \/ Crash(p)
  BY <1>1, <1>3, <1>9 DEF LockTimeout, FaultStep, GetRangeFails, LockFails, CopyFails, Finish,
     Return, Crash, Die, Goto
<1>10. CASE RawRead(p)
  <2>1. ~RawIsHooked(p)
    BY DEF RawIsHooked, FetchInvariant, Hooked
  <2>2. /\ pc[p] = "read" /\ pc'[p] = "done" /\ req' = req /\ local' = local
        /\ got'[p] = [g \in Range(req[p]) |-> page[g]]
        /\ Range(req[p]) \subseteq Pages
    BY <1>1, <1>10, <2>1, CallPages DEF RawRead, Finish, Goto
  <2>3. AnswerFetched(p)'
    <3>1. CASE req[p].meta
      BY <2>2, <3>1 DEF AnswerFetched
    <3>2. CASE ~req[p].meta /\ local[p].hdmode = "LSEEK"
      <4>1. \A g \in Range(req[p]) : page[g] # Hole
        BY <2>2, <3>2 DEF RangeSound, Touched
      <4>2. \A g \in Range(req[p]) : page[g] \in {g} \cup Unfinished
        BY <2>2, <4>1 DEF FetchInvariant, CacheSound, PageSound
      <4>. QED BY <2>2, <3>2, <4>2 DEF AnswerFetched
    <3>3. CASE ~req[p].meta /\ local[p].hdmode = "ALLZERO"
      <4>1. \E g \in Range(req[p]) : page[g] \in {g, Torn}
        BY <2>2, <3>3 DEF RangeSound
      <4>. QED BY <2>2, <3>3, <4>1 DEF AnswerFetched
    <3>. QED BY <2>2, <3>1, <3>2, <3>3, CallPages
  <2>. QED BY <2>2, <2>3 DEF RangeSound
<1>11. CASE GetRange(p)
  <2>1. RangeStart(p) \in Nat
    BY <1>11, RangeFacts DEF GetRange
  <2>. QED BY <1>1, <1>11, <2>1
           DEF GetRange, Goto, callVars, Good, Touched, RangeSound, AnswerFetched
<1>12. CASE CopyPage(p) \/ CopyPart(p)
  <2>1. /\ pc[p] = "copy" /\ pc' = pc /\ req' = req /\ from' = from /\ local' = local
        /\ wpos[p] < RangeEnd(p) /\ wpos[p] >= RangeStart(p)
    BY <1>12 DEF CopyPage, CopyPart, callVars
  <2>2. /\ RangeStart(p) \in Nat /\ wpos[p] \in Pages /\ wpos[p] \in Nat
        /\ RangeStart(p)' = RangeStart(p)
        /\ req[p].first .. from[p] - 1 \subseteq Pages
        /\ RangeStart(p) .. wpos[p] - 1 \subseteq Pages
    <3>1. RangeStart(p) \in Nat /\ RangeEnd(p) \in Nat /\ RangeEnd(p) <= FilePages
      BY <2>1, RangeFacts
    <3>2. wpos[p] \in Nat
      BY <2>1, CallPages
    <3>. QED BY <2>1, <3>1, <3>2, CallPages, GeometryAssumption DEF Pages
  <2>3. \/ wpos' = wpos
        \/ wpos'[p] = wpos[p] + 1 /\ page'[wpos[p]] = wpos[p]
    BY <1>1, <1>12, <2>2 DEF CopyPage, CopyPart, WritePage, TypeOK
  <2>4. ASSUME NEW g \in RangeStart(p) .. wpos'[p] - 1 PROVE Good(g)'
    <3>1. CASE g \in RangeStart(p) .. wpos[p] - 1
      BY <2>1, <2>2, <3>1 DEF Kept
    <3>2. CASE g \notin RangeStart(p) .. wpos[p] - 1
      <4>1. wpos'[p] = wpos[p] + 1 /\ page'[wpos[p]] = wpos[p]
        BY <2>3, <2>4, <3>2
      <4>2. g = wpos[p]
        BY <2>2, <2>4, <3>2, <4>1
      <4>. QED BY <4>1, <4>2 DEF Good
    <3>. QED BY <3>1, <3>2
  <2>5. wpos'[p] >= RangeStart(p)
    BY <2>1, <2>2, <2>3
  <2>6. \A g \in req[p].first .. from[p] - 1 : Touched(g)'
    BY <2>1, <2>2 DEF Kept
  <2>. QED BY <2>1, <2>2, <2>4, <2>5, <2>6 DEF RangeSound, AnswerFetched
<1>13. CASE CopyDone(p)
  <2>1. /\ pc[p] = "copy" /\ pc'[p] = "read" /\ req' = req /\ page' = page /\ local' = local
        /\ wpos[p] >= RangeEnd(p) /\ ~req[p].meta /\ from[p] \in Range(req[p])
    BY <1>1, <1>13 DEF CopyDone, Goto, callVars
  <2>2. /\ req[p] \in Requests /\ from[p] \in Nat /\ wpos[p] \in Nat
        /\ RangeStart(p) \in Nat /\ RangeStart(p) <= from[p]
        /\ RangeEnd(p) \in Nat /\ req[p].last < RangeEnd(p)
    BY <1>1, <2>1, RangeFacts, CallPages, GeometryAssumption DEF Pages
  <2>3. req[p].first \in Nat /\ req[p].last \in Nat
    BY <2>2, RequestAssumption, GeometryAssumption DEF Pages
  <2>4. \A g \in Range(req[p]) : g \in Nat /\ g \notin {Hole, Torn, Tail, Super}
    BY <2>3, SentinelAssumption DEF Range
  <2>5. ASSUME NEW g \in Range(req[p]) PROVE Touched(g) /\ (g >= from[p] => Good(g))
    <3>1. g \in Nat /\ g < wpos[p] /\ g >= req[p].first
      BY <2>1, <2>2, <2>3 DEF Range
    <3>2. CASE g >= RangeStart(p)
      BY <2>1, <2>2, <2>4, <3>1, <3>2 DEF Good, Touched
    <3>3. CASE g < RangeStart(p)
      BY <2>1, <2>2, <2>3, <3>1, <3>3
    <3>. QED BY <2>2, <3>1, <3>2, <3>3
  <2>6. page[from[p]] = from[p]
    BY <2>1, <2>2, <2>5 DEF Good
  <2>7. RangeSound(p)'
    BY <2>1, <2>2, <2>5, <2>6, CallPages DEF RangeSound, Touched
  <2>. QED BY <2>1, <2>7 DEF AnswerFetched
<1>14. ASSUME NEW l \in Hooked, Restart(p, l) PROVE Sound(p)'
  BY <1>1, <1>3, <1>14 DEF Restart, Goto
<1>. QED BY <1>4, <1>6, <1>7, <1>8, <1>9, <1>10, <1>11, <1>12, <1>13, <1>14
         DEF Step, ReadStep, LocalStep, RemoteStep

LEMMA LocalsStep ==
  ASSUME local \in [Proc -> Hooked], NEW p \in Proc, Step(p)
  PROVE  local' \in [Proc -> Hooked]
BY DEF Step, ReadStep, LocalStep, RemoteStep, FaultStep, BeginRead, DetectHole, DetectZero,
       TryLock, LockTimeout, RawRead, Return, GetRange, GetRangeFails, LockFails, CopyPage,
       CopyPart, CopyDone, CopyFails, Crash, Die, Restart

LEMMA InvStep == Inv /\ [Next]_vars => Inv'
<1>. SUFFICES ASSUME Inv, [Next]_vars PROVE Inv'
  OBVIOUS
<1>1. TypeOK /\ FetchInvariant /\ AnswersFetched
  BY DEF Inv
<1>2. TypeOK'
  BY <1>1, TypeStep
<1>3. CASE UNCHANGED vars
  BY <1>1, <1>2, <1>3
     DEF vars, callVars, Inv, FetchInvariant, CacheSound, PageSound, Good, Touched, FetchSound,
         RangeSound, RangeStart, AnswersFetched, AnswerFetched
<1>4. CASE Next
  <2>1. PICK p \in Proc : Step(p)
    BY <1>4 DEF Next, Step
  <2>2. \A g \in Pages : Kept(g)
    BY <1>1, PagesKept
  <2>3. \A q \in Proc : Sound(q)
    BY <1>1 DEF Sound, FetchInvariant, AnswersFetched
  <2>4. CacheSound'
    BY <1>1, <2>2 DEF FetchInvariant, CacheSound, Kept
  <2>5. ASSUME NEW q \in Proc PROVE Sound(q)'
    <3>1. CASE q = p
      BY <1>1, <2>1, <2>2, <2>3, <3>1, SoundStep
    <3>2. CASE q # p
      BY <1>1, <2>1, <2>2, <2>3, <3>2, OthersSame, SoundFrame
    <3>. QED BY <3>1, <3>2
  <2>6. local' \in [Proc -> Hooked]
    BY <1>1, <2>1, LocalsStep DEF FetchInvariant
  <2>. QED BY <1>2, <2>4, <2>5, <2>6 DEF Inv, FetchInvariant, AnswersFetched, Sound
<1>. QED BY <1>3, <1>4

\* When a call of archive_read_at comes to its raw read, its whole range has been written, at
\* least in part (with ALLZERO, some of it), and metadata is complete: in every setup, with
\* all faults, and processes of both modes on one file.
THEOREM RangesAreFetched == Spec => []FetchInvariant
<1>1. Inv => FetchInvariant
  BY DEF Inv
<1>. QED BY <1>1, InvInit, InvStep, PTL DEF Spec

\* What archive_read_at returns of data, when it returns no error, holds no page that nobody
\* wrote: each is the archive's, or one that a copy had begun and has not finished, or was
\* not able to finish.  With ALLZERO that is true of one page of the range.
THEOREM ReadsAreFetched == Spec => []AnswersFetched
<1>1. Inv => AnswersFetched
  BY DEF Inv
<1>. QED BY <1>1, InvInit, InvStep, PTL DEF Spec

\* A copy that ends without an error has written all of its range, to the last byte of its
\* last page, before the lock is given up and the raw read begins.
THEOREM CopiesAreWhole == Spec => CopiesEndWhole
<1>1. ASSUME Inv, [Next]_vars, NEW p \in Proc, pc[p] = "copy", pc'[p] = "read"
      PROVE  \A g \in RangeStart(p) .. RangeEnd(p) - 1 : Good(g)
  <2>1. TypeOK /\ FetchSound(p)
    BY <1>1 DEF Inv, FetchInvariant
  <2>2. CASE UNCHANGED vars
    BY <1>1, <2>2 DEF vars
  <2>3. CASE Next
    <3>1. PICK q \in Proc : Step(q)
      BY <2>3 DEF Next, Step
    <3>2. q = p
      BY <1>1, <2>1, <3>1, OthersSame DEF SameProcess
    <3>3. pc \in [Proc -> ReadLabels]
      BY <2>1 DEF TypeOK
    <3>4. wpos[p] >= RangeEnd(p)
      BY <1>1, <3>1, <3>2, <3>3
         DEF Step, ReadStep, LocalStep, RemoteStep, FaultStep, BeginRead, DetectHole, DetectZero,
             TryLock, LockTimeout, RawRead, Return, GetRange, GetRangeFails, LockFails, CopyPage,
             CopyPart, CopyDone, CopyFails, Crash, Die, Restart, Goto, Finish, callVars
    <3>5. RangeEnd(p) \in Nat /\ wpos[p] \in Nat /\ RangeStart(p) \in Nat
      BY <1>1, <2>1, RangeFacts, CallPages
    <3>6. \A g \in RangeStart(p) .. wpos[p] - 1 : Good(g)
      BY <1>1, <2>1 DEF FetchSound
    <3>. QED BY <3>4, <3>5, <3>6
  <2>. QED BY <1>1, <2>2, <2>3
<1>2. Inv /\ [Next]_vars
        => [\A p \in Proc : pc[p] = "copy" /\ pc'[p] = "read" =>
              \A g \in RangeStart(p) .. RangeEnd(p) - 1 : Good(g)]_vars
  BY <1>1
<1>. QED BY <1>2, InvInit, InvStep, PTL DEF Spec, CopiesEndWhole

---------------------------------------------------------------------------
(* Refinement *)

\* With what the raw read finds, each step of ReadAt is a call, an answer, a return or a
\* crash of ArchiveFile, or changes nothing that the callers see.
LEMMA ArchiveStep ==
  ASSUME TypeOK, FetchInvariant, [Next]_vars
  PROVE  [Archive!Next]_(Archive!vars)
<1>. USE DEF Archive!vars
<1>1. CASE UNCHANGED vars
  BY <1>1 DEF vars, callVars
<1>2. CASE Next
  <2>1. PICK p \in Proc : Step(p)
    BY <1>2 DEF Next, Step
  <2>2. /\ req[p] = NoReq <=> pc[p] \in {"dead", "ready"}
        /\ pc[p] # "done" => got[p] = NoBytes
        /\ got = [q \in Proc |-> got[q]]
    BY DEF TypeOK
  <2>. SUFFICES ASSUME ~UNCHANGED <<req, got>> PROVE Archive!Next
    OBVIOUS
  <2>3. ASSUME NEW r \in Requests, BeginRead(p, r) PROVE Archive!Next
    BY <2>2, <2>3 DEF BeginRead, Archive!Next, Archive!Call
  <2>4. ASSUME Finish(p, IOError), UNCHANGED req, pc[p] \in ReadLabels \ {"dead", "ready", "done"}
        PROVE  Archive!Next
    <3>1. got'[p] = IOError /\ got' = [got EXCEPT ![p] = IOError]
      BY <2>2, <2>4 DEF Finish
    <3>. QED BY <2>2, <2>4, <3>1 DEF Archive!Next, Archive!Answer
  <2>5. CASE RawRead(p)
    <3>1. ~RawIsHooked(p)
      BY DEF RawIsHooked, FetchInvariant, Hooked
    <3>. DEFINE bytes == [g \in Range(req[p]) |-> page[g]]
    <3>2. /\ pc[p] = "read" /\ req' = req /\ got' = [got EXCEPT ![p] = bytes]
      BY <2>5, <3>1 DEF RawRead, Finish
    <3>3. got'[p] = bytes
      BY <2>2, <3>2
    <3>4. Range(req[p]) \subseteq Pages /\ local[p].hdmode \in {"ALLZERO", "LSEEK"}
      BY <3>2, CallPages
    <3>5. ASSUME NEW g \in Range(req[p]) \ Partial[p] PROVE page[g] = g
      <4>1. g \in Pages /\ PageSound(g) /\ RangeSound(p)
        BY <3>4, <3>5 DEF FetchInvariant, CacheSound
      <4>2. CASE req[p].meta
        BY <3>2, <4>1, <4>2 DEF RangeSound, Good
      <4>3. CASE ~req[p].meta /\ local[p].hdmode = "LSEEK"
        <5>1. page[g] # Hole
          BY <3>2, <4>1, <4>3 DEF RangeSound, Touched
        <5>2. page[g] \notin Unfinished
          BY <3>5, <4>1, <4>3 DEF Partial
        <5>. QED BY <4>1, <5>1, <5>2 DEF PageSound
      <4>4. CASE local[p].hdmode = "ALLZERO"
        BY <3>5, <4>1, <4>4 DEF Partial, Good
      <4>. QED BY <3>4, <4>2, <4>3, <4>4
    <3>6. DOMAIN bytes = Archive!ArchiveRange(req[p])
      BY DEF Archive!ArchiveRange, Range
    <3>7. \A g \in Archive!ArchiveRange(req[p]) \ Partial[p] : bytes[g] = g
      BY <3>5 DEF Archive!ArchiveRange, Range
    <3>. HIDE DEF bytes
    <3>8. Archive!Answer(p)
      BY <2>2, <3>2, <3>3, <3>6, <3>7 DEF Archive!Answer
    <3>. QED BY <3>8 DEF Archive!Next
  <2>6. CASE Return(p)
    BY <2>2, <2>6 DEF Return, Archive!Next, Archive!Forget
  <2>7. CASE Crash(p)
    <3>1. CASE req[p] = NoReq
      <4>1. pc[p] \in {"dead", "ready"} /\ got[p] = NoBytes
        BY <2>2, <3>1
      <4>2. req' = req /\ got' = got
        BY <2>7, <3>1, <4>1 DEF Crash, Die, TypeOK
      <4>. QED BY <4>2
    <3>2. CASE req[p] # NoReq
      BY <2>7, <3>2 DEF Crash, Die, Archive!Next, Archive!Forget
    <3>. QED BY <3>1, <3>2
  <2>8. CASE LockTimeout(p)
    BY <2>4, <2>8 DEF LockTimeout, ReadLabels
  <2>9. CASE FaultStep(p)
    BY <2>4, <2>9 DEF FaultStep, GetRangeFails, LockFails, CopyFails, ReadLabels
  <2>. QED BY <2>1, <2>3, <2>5, <2>6, <2>7, <2>8, <2>9
           DEF Step, ReadStep, LocalStep, RemoteStep, DetectHole, DetectZero, TryLock,
               GetRange, CopyPage, CopyPart, CopyDone, Restart, callVars
<1>. QED BY <1>1, <1>2

\* Reading through the cache implements reading the archive: every behaviour of ReadAt,
\* seen through the calls and their answers, is one of ArchiveFile, which promises nothing
\* of the pages that are written in part at the moment of the answer.
THEOREM CacheImplementsArchive == Spec => ImplementsArchiveFile
<1>1. Init => Inv /\ Archive!Init
  BY InvInit DEF Init, Archive!Init
<1>2. Inv /\ [Next]_vars => Inv'
  BY InvStep
<1>3. Inv /\ [Next]_vars => [Archive!Next]_(Archive!vars)
  BY ArchiveStep DEF Inv
<1>. QED BY <1>1, <1>2, <1>3, PTL DEF Spec, ImplementsArchiveFile, Archive!Spec

---------------------------------------------------------------------------
(* One process alone *)

\* Of the front of the file: page 1 is not there without page 0, since the chunk of two
\* pages or more that it is in starts at page 0; and nothing is allocated but not begun.
FrontSound ==
  /\ \A g \in Pages : page[g] # Tail /\ (page[g] = Super => g = 0)
  /\ \A g \in Pages : g = 1 /\ page[g] # Hole => Good(0)

AloneRead(p) ==
  /\ pc[p] = "read" => \A g \in Range(req[p]) : Good(g)
  /\ ReadCorrect(p)

AloneInv ==
  /\ Inv /\ OneWriter /\ TornInStream /\ FrontSound
  /\ \A p \in Proc : AloneRead(p)

LEMMA AloneInit == AloneSetup /\ Init => AloneInv
<1>. SUFFICES ASSUME AloneSetup, Init PROVE AloneInv
  OBVIOUS
<1>1. PICK c \in ChunkSizes : page = FreshCache(c)
  BY DEF Init
<1>2. c \in Nat \ {0} /\ c >= 2 /\ MetaPage \in Nat
  BY GeometryAssumption DEF AloneSetup
<1>. DEFINE m == MetaStart(c)
<1>3. m \in Nat /\ m <= MetaPage
  BY <1>2, AlignDownFacts DEF MetaStart
<1>4. m <= 1 => m = 0
  BY <1>2, AlignDownFront DEF MetaStart
<1>. HIDE DEF m
<1>5. \A g \in Pages : page[g] = IF g >= m THEN g ELSE IF g = 0 THEN Super ELSE Hole
  BY <1>1 DEF FreshCache, m
<1>6. \A g \in Pages : g \notin {Hole, Torn, Tail, Super} /\ g \in Nat
  BY SentinelAssumption, GeometryAssumption DEF Pages
<1>7. 0 \in Pages
  BY GeometryAssumption DEF Pages
<1>8. FrontSound
  BY <1>2, <1>3, <1>4, <1>5, <1>6, <1>7, SentinelAssumption DEF FrontSound, Good
<1>9. OneWriter
  BY SentinelAssumption DEF Init, OneWriter
<1>. QED BY <1>8, <1>9, InvInit, TornInit DEF Init, AloneInv, AloneRead, ReadCorrect

LEMMA FrontStep ==
  ASSUME AloneSetup, AloneInv, NEW p \in Proc, Step(p), \A g \in Pages : Kept(g)
  PROVE  FrontSound'
<1>1. TypeOK /\ FetchSound(p) /\ FrontSound
  BY DEF AloneInv, Inv, FetchInvariant
<1>2. 0 \in Pages /\ \A g \in Pages : g \notin {Hole, Torn, Tail, Super}
  BY SentinelAssumption, GeometryAssumption DEF Pages
<1>3. CASE page' = page
  BY <1>1, <1>3 DEF FrontSound, Good
<1>4. CASE CopyPage(p) \/ CopyPart(p)
  <2>1. pc[p] = "copy" /\ wpos[p] \in Nat
    BY <1>1, <1>4 DEF CopyPage, CopyPart, TypeOK
  <2>2. \A g \in Pages : \/ page'[g] = page[g]
                         \/ g = wpos[p] /\ page'[g] \in {g, Torn}
                         \/ g = 0 /\ page'[g] = Super
    BY <1>1, <1>4 DEF CopyPage, CopyPart, WritePage, TearPage, TypeOK
  <2>3. wpos[p] = 1 => Good(0)
    <3>1. /\ local[p].chunk \in Nat \ {0} /\ local[p].chunk >= 2
          /\ from[p] \in Nat
      BY <1>1, GeometryAssumption DEF AloneSetup, TypeOK, Locals, Pages
    <3>2. wpos[p] = 1 => RangeStart(p) = 0
      BY <1>1, <2>1, <3>1, AlignDownFront DEF FetchSound, RangeStart
    <3>. QED BY <1>1, <2>1, <3>2 DEF FetchSound
  <2>4. \A g \in Pages : page'[g] # Tail /\ (page'[g] = Super => g = 0)
    BY <1>1, <1>2, <2>2, SentinelAssumption DEF FrontSound
  <2>5. \A g \in Pages : g = 1 /\ page'[g] # Hole => Good(0)
    <3>. SUFFICES ASSUME 1 \in Pages, page'[1] # Hole PROVE Good(0)
      OBVIOUS
    <3>1. page'[1] = page[1] \/ wpos[p] = 1
      BY <2>2
    <3>. QED BY <1>1, <2>3, <3>1 DEF FrontSound
  <2>6. Good(0) => Good(0)'
    BY <1>2 DEF Kept
  <2>. QED BY <2>4, <2>5, <2>6 DEF FrontSound
<1>. QED BY <1>3, <1>4, PageWrites

\* Without a page that is written in part, and page 0 there if page 1 is, a range that is
\* there from its first page to its last is right.
LEMMA WholeRange ==
  ASSUME AloneSetup, AloneInv, NEW r \in Requests, ~r.meta,
         \A g \in Range(r) : page[g] # Hole /\ page[g] # Torn
  PROVE  \A g \in Range(r) : Good(g)
<1>1. /\ r.first \in Nat /\ r.last \in Nat /\ r.first <= r.last /\ r.last < FilePages
      /\ Range(r) \subseteq Pages
  BY RequestAssumption, GeometryAssumption DEF Range, Pages
<1>2. FrontSound /\ \A g \in Pages : PageSound(g)
  BY DEF AloneInv, Inv, FetchInvariant, CacheSound
<1>. SUFFICES ASSUME NEW g \in Range(r), ~Good(g) PROVE FALSE
  OBVIOUS
<1>3. g = 0 /\ page[g] = Super
  BY <1>1, <1>2 DEF FrontSound, PageSound, Unfinished, Good
<1>4. r.first = 0 /\ r.last >= 1
  BY <1>1, <1>3 DEF Range, AloneSetup
<1>5. 1 \in Range(r) /\ 1 \in Pages
  BY <1>1, <1>4 DEF Range
<1>. QED BY <1>2, <1>3, <1>5 DEF FrontSound

LEMMA AloneReadStep ==
  ASSUME AloneSetup, AloneInv, NEW p \in Proc, Step(p), \A g \in Pages : Kept(g)
  PROVE  AloneRead(p)'
<1>. USE DEF AloneRead, ReadCorrect
<1>1. /\ TypeOK /\ FetchInvariant /\ OneWriter /\ TornInStream /\ AloneRead(p) /\ FetchSound(p)
      /\ \A q \in Proc : q = p
  BY DEF AloneInv, Inv, FetchInvariant, AloneSetup
<1>2. /\ pc \in [Proc -> ReadLabels] /\ got = [q \in Proc |-> got[q]]
      /\ req \in [Proc -> Requests \cup {NoReq}]
  BY <1>1 DEF TypeOK
<1>3. \A r \in Requests : Range(r) \subseteq Pages
  BY RequestAssumption, GeometryAssumption DEF Range, Pages
<1>4. ASSUME pc'[p] \notin {"read", "done"} \/ (pc'[p] = "done" /\ got'[p] = IOError)
      PROVE  AloneRead(p)'
  BY <1>4
<1>5. ASSUME NEW r \in Requests, BeginRead(p, r) PROVE AloneRead(p)'
  <2>1. r.meta => \A g \in Range(r) : Good(g)
    BY <1>1, <1>3, RequestAssumption, GeometryAssumption
       DEF FetchInvariant, CacheSound, Range, Pages
  <2>2. page' = page /\ req'[p] = r /\ pc'[p] = IF r.meta THEN "read" ELSE "detect"
    BY <1>2, <1>5 DEF BeginRead, Goto, Entry
  <2>. QED BY <2>1, <2>2 DEF Good
<1>6. CASE DetectHole(p)
  <2>1. /\ pc[p] = "detect" /\ page' = page /\ req' = req /\ req[p] \in Requests
        /\ ~req[p].meta
    BY <1>1, <1>6 DEF DetectHole, TypeOK, FetchSound
  <2>2. \A g \in Pages : page[g] # Torn
    BY <1>1, <2>1 DEF TornInStream
  <2>3. ASSUME pc'[p] = "read", \A g \in Range(req[p]) : page[g] # Hole PROVE AloneRead(p)'
    <3>1. \A g \in Range(req[p]) : page[g] # Hole /\ page[g] # Torn
      BY <1>3, <2>1, <2>2, <2>3
    <3>2. \A g \in Range(req[p]) : Good(g)
      BY <2>1, <3>1, WholeRange
    <3>. QED BY <2>1, <2>3, <3>2 DEF Good
  <2>. QED BY <1>2, <1>4, <1>6, <2>3 DEF DetectHole, Fetch, Goto
<1>7. CASE DetectZero(p)
  <2>1. local[p].hdmode # "ALLZERO"
    BY <1>1 DEF TypeOK, Locals, AloneSetup
  <2>. QED BY <1>7, <2>1 DEF DetectZero
<1>8. CASE RawRead(p)
  <2>1. ~RawIsHooked(p)
    BY <1>1 DEF RawIsHooked, FetchInvariant, Hooked
  <2>2. /\ pc'[p] = "done" /\ req' = req
        /\ got'[p] = [g \in Range(req[p]) |-> page[g]]
    BY <1>2, <1>8, <2>1 DEF RawRead, Finish, Goto
  <2>3. \A g \in Range(req[p]) : page[g] = g
    BY <1>1, <1>8 DEF RawRead, Good
  <2>. QED BY <2>2, <2>3
<1>9. CASE CopyDone(p)
  <2>1. /\ pc[p] = "copy" /\ pc'[p] = "read" /\ req' = req /\ page' = page
        /\ wpos[p] >= RangeEnd(p) /\ ~req[p].meta
    BY <1>1, <1>2, <1>9 DEF CopyDone, Goto, callVars, FetchSound
  <2>2. /\ req[p] \in Requests /\ wpos[p] \in Nat /\ RangeStart(p) \in Nat
        /\ RangeEnd(p) \in Nat /\ req[p].last < RangeEnd(p)
    BY <1>1, <2>1, RangeFacts, CallPages
  <2>3. \A g \in Pages : page[g] # Torn
    <3>1. ~ (wpos[p] < RangeEnd(p))
      BY <2>1, <2>2
    <3>. QED BY <1>1, <3>1 DEF TornInStream
  <2>4. from[p] \in Nat /\ RangeStart(p) <= from[p] /\ req[p].first \in Nat /\ req[p].last \in Nat
    BY <1>1, <2>1, <2>2, RangeFacts, RequestAssumption, GeometryAssumption DEF TypeOK, Pages
  <2>5. ASSUME NEW g \in Range(req[p]) PROVE page[g] # Hole /\ page[g] # Torn
    <3>1. g \in Nat /\ g < wpos[p] /\ g >= req[p].first /\ g \in Pages
      BY <1>3, <2>1, <2>2, <2>4 DEF Range
    <3>2. CASE g >= RangeStart(p)
      <4>1. page[g] = g
        BY <1>1, <2>1, <2>2, <3>1, <3>2 DEF FetchSound, Good
      <4>. QED BY <3>1, <4>1, SentinelAssumption
    <3>3. CASE g < RangeStart(p)
      <4>1. g \in req[p].first .. from[p] - 1
        BY <2>2, <2>4, <3>1, <3>3
      <4>2. Touched(g)
        BY <1>1, <2>1, <4>1 DEF FetchSound
      <4>. QED BY <2>3, <3>1, <4>2 DEF Touched
    <3>. QED BY <2>2, <3>1, <3>2, <3>3
  <2>6. \A g \in Range(req[p]) : Good(g)
    BY <2>1, <2>2, <2>5, WholeRange
  <2>. QED BY <2>1, <2>6 DEF Good
<1>10. CASE LockTimeout(p) \/ FaultStep(p) \/ Return(p) \/ Crash(p)
  BY <1>2, <1>4, <1>10 DEF LockTimeout, FaultStep, GetRangeFails, LockFails, CopyFails, Finish,
     Return, Crash, Die, Goto
<1>11. CASE TryLock(p) \/ GetRange(p) \/ CopyPage(p) \/ CopyPart(p)
  BY <1>2, <1>4, <1>11 DEF TryLock, GetRange, CopyPage, CopyPart, Goto
<1>12. ASSUME NEW l \in Hooked, Restart(p, l) PROVE AloneRead(p)'
  BY <1>2, <1>4, <1>12 DEF Restart, Goto
<1>. QED BY <1>5, <1>6, <1>7, <1>8, <1>9, <1>10, <1>11, <1>12
         DEF Step, ReadStep, LocalStep, RemoteStep

LEMMA AloneStep == AloneSetup /\ AloneInv /\ [Next]_vars => AloneInv'
<1>. SUFFICES ASSUME AloneSetup, AloneInv, [Next]_vars PROVE AloneInv'
  OBVIOUS
<1>1. TypeOK /\ OneWriter /\ TornInStream /\ Inv
  BY DEF AloneInv, Inv
<1>2. Inv' /\ OneWriter' /\ TornInStream'
  BY <1>1, InvStep, OneWriterStep, TornStep DEF AloneSetup
<1>3. CASE UNCHANGED vars
  BY <1>2, <1>3 DEF vars, callVars, AloneInv, FrontSound, Good, AloneRead, ReadCorrect
<1>4. CASE Next
  <2>1. PICK p \in Proc : Step(p)
    BY <1>4 DEF Next, Step
  <2>2. \A g \in Pages : Kept(g)
    BY <1>1, PagesKept
  <2>3. FrontSound' /\ AloneRead(p)'
    BY <2>1, <2>2, FrontStep, AloneReadStep
  <2>. QED BY <1>2, <2>3 DEF AloneInv, AloneSetup
<1>. QED BY <1>3, <1>4

\* One process that has the cache file to itself, looks for holes with lseek and whose
\* streams do not break reads the archive's bytes, wherever its blocks start and end, but for
\* a first block inside page 0; its streams may stop inside a page for a while.  With a
\* second process it does not hold (run torn_shared), nor with ALLZERO.
THEOREM ReadsAreRightAlone ==
  ASSUME AloneSetup
  PROVE  Spec => []ReadsCorrect
<1>1. AloneInv => ReadsCorrect
  BY DEF AloneInv, AloneRead, ReadsCorrect
<1>. QED BY <1>1, AloneInit, AloneStep, PTL DEF Spec
===========================================================================
