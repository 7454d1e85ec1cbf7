------------------------------ MODULE ReadAt ------------------------------
(***************************************************************************)
(* Reading the archive through the cache: archive_read_at of               *)
(* hook_helper.rs, which libsquashfs calls for every read of the archive   *)
(* file, with Local::request_remote_data_task and FileLock of repo.rs,     *)
(* which it calls when the range is not in the cache yet.                  *)
(*                                                                         *)
(* Here the cache file has been set up by one complete Local::new, and     *)
(* every process has hooked its file once; SharedCache puts the two        *)
(* together with nothing taken for granted.  Each process runs one call at *)
(* a time: the FUSE loop is forced to one thread, a lambda instance and    *)
(* the command line run one request, and the fetch thread is joined.       *)
(*                                                                         *)
(* Granularity: the raw read of a range is one step, a write of the        *)
(* fetched stream one step per page or part of a page.  Time is not        *)
(* modelled: the ten seconds of the lock timeout are a choice that is open *)
(* as long as the lock is taken.                                           *)
(***************************************************************************)
EXTENDS CacheFile

CONSTANTS
  Requests,    \* the ranges libsquashfs asks for, see RequestAssumption
  NoReq, NoBytes, IOError

\* A data range holds whole compressed blocks, below the inode table; metadata is at or
\* above it.  stop is the page that the byte after the range lies in.
ASSUME RequestAssumption ==
  /\ NoReq \notin Requests
  /\ \A r \in Requests :
       /\ r.first \in Pages /\ r.last \in r.first .. FilePages - 1
       /\ r.stop \in {r.last, r.last + 1}
       /\ r.meta \in BOOLEAN
       /\ IF r.meta THEN r.first >= MetaPage ELSE r.last <= MetaPage

VARIABLES
  req,    \* req[p]: the range of p's call, NoReq between calls
  from,   \* from[p]: new_offset, the first page to fetch
  got     \* got[p]: what the call returned, NoBytes before it returns

callVars == <<req, from, got>>
vars == <<page, flock, local, wpos, pc, callVars>>

ReadLabels == {"dead", "ready", "detect", "request", "lock", "copy", "read", "done"}

\* The cache file as a Local::new with chunk size c leaves it.
FreshCache(c) ==
  [g \in Pages |-> IF g >= MetaStart(c) THEN g ELSE IF g = 0 THEN Super ELSE Hole]

\* The options a process is started with; the hook is in place.
Hooked == {l \in Locals : l.read_at = "archive" /\ l.write_at = "file"}

Init ==
  /\ page \in {FreshCache(c) : c \in ChunkSizes}
  /\ flock = NoProc
  /\ pc = [p \in Proc |-> "ready"]
  /\ local \in [Proc -> Hooked]
  /\ wpos = [p \in Proc |-> 0]
  /\ req = [p \in Proc |-> NoReq]
  /\ from = [p \in Proc |-> 0]
  /\ got = [p \in Proc |-> NoBytes]

---------------------------------------------------------------------------
(* archive_read_at *)

\* Metadata is read from the file as it is; data goes through hole detection.
Entry(r) == IF r.meta THEN "read" ELSE "detect"

BeginReadNoDetect(p, r) ==   \* seeded fault: data is taken for metadata
  /\ pc[p] = "ready"
  /\ req' = [req EXCEPT ![p] = r]
  /\ Goto(p, "read")
  /\ UNCHANGED <<page, flock, local, wpos, from, got>>
BeginRead(p, r) ==
  /\ pc[p] = "ready"
  /\ req' = [req EXCEPT ![p] = r]
  /\ Goto(p, Entry(r))
  /\ UNCHANGED <<page, flock, local, wpos, from, got>>

Range(r) == r.first .. r.last

Fetch(p, g) ==
  /\ from' = [from EXCEPT ![p] = g]
  /\ Goto(p, "request")

\* lseek(fd, offset, SEEK_HOLE) stops at page g, inside the range.
FirstHole(r, g) ==
  /\ g \in Range(r)
  /\ page[g] = Hole
  /\ \A h \in r.first .. g - 1 : page[h] # Hole

\* HoleDetectMode::LSEEK.
DetectHolePast(p) ==   \* seeded fault: "<=" where the code compares with "<"
  /\ pc[p] = "detect" /\ local[p].hdmode = "LSEEK"
  /\ \/ \E g \in req[p].first .. req[p].stop :
          /\ page[g] = Hole /\ \A h \in req[p].first .. g - 1 : page[h] # Hole
          /\ Fetch(p, g)
     \/ /\ \A g \in req[p].first .. req[p].stop : page[g] # Hole
        /\ Goto(p, "read")
        /\ UNCHANGED from
  /\ UNCHANGED <<page, flock, local, wpos, req, got>>
DetectHole(p) ==
  /\ pc[p] = "detect" /\ local[p].hdmode = "LSEEK"
  /\ \/ \E g \in Range(req[p]) : FirstHole(req[p], g) /\ Fetch(p, g)
     \/ /\ \A g \in Range(req[p]) : page[g] # Hole
        /\ Goto(p, "read")
        /\ UNCHANGED from
  /\ UNCHANGED <<page, flock, local, wpos, req, got>>

\* What is called through the write_at slot is the file's own read, unless the hook was
\* installed twice: then archive_read_at calls itself with the same arguments.
RawIsHooked(p) == local[p].write_at = "archive"

\* HoleDetectMode::ALLZERO reads the range and looks for a byte that is not zero.  The
\* archive's own pages are taken to have one; a torn page may or may not show one.
MayBeZero(r) == \A g \in Range(r) : page[g] \in {Hole, Super, Tail, Torn}
MayBeNonZero(r) == \E g \in Range(r) : page[g] \notin {Hole, Super, Tail}
DetectZero(p) ==
  /\ pc[p] = "detect" /\ local[p].hdmode = "ALLZERO" /\ ~RawIsHooked(p)
  /\ \/ MayBeZero(req[p]) /\ Fetch(p, req[p].first)
     \/ MayBeNonZero(req[p]) /\ Goto(p, "read") /\ UNCHANGED from
  /\ UNCHANGED <<page, flock, local, wpos, req, got>>

\* The call returns; its locals are gone.
Finish(p, result) ==
  /\ got' = [got EXCEPT ![p] = result]
  /\ from' = [from EXCEPT ![p] = 0]
  /\ wpos' = [wpos EXCEPT ![p] = 0]
  /\ Goto(p, "done")

\* The actual read, after detection and any fetch.
RawRead(p) ==
  /\ pc[p] = "read"
  /\ IF RawIsHooked(p)
       THEN Goto(p, Entry(req[p])) /\ UNCHANGED <<from, wpos, got>>
       ELSE Finish(p, [g \in Range(req[p]) |-> page[g]])
  /\ UNCHANGED <<page, flock, local, req>>

\* libsquashfs takes the result.
ReturnKeeping(p) ==   \* seeded fault: the answer of the last call survives it
  /\ pc[p] = "done"
  /\ req' = [req EXCEPT ![p] = NoReq]
  /\ Goto(p, "ready")
  /\ UNCHANGED <<page, flock, local, wpos, from, got>>
Return(p) ==
  /\ pc[p] = "done"
  /\ req' = [req EXCEPT ![p] = NoReq]
  /\ got' = [got EXCEPT ![p] = NoBytes]
  /\ Goto(p, "ready")
  /\ UNCHANGED <<page, flock, local, wpos, from>>

---------------------------------------------------------------------------
(* request_remote_data_task *)

\* The range fetched for a call: from the chunk of the first missing page to the
\* aligned end of the data, both fixed before the request is sent.
RangeStart(p) == AlignDown(local[p].chunk, from[p])
RangeEnd(p) == StreamEnd(AlignedEnd(local[p].chunk, req[p].stop))

\* GetObject answers; the file is opened for writing and positioned.
GetRangeTruncating(p) ==   \* seeded fault: opened with truncate(true)
  /\ pc[p] = "request"
  /\ page' = [g \in Pages |-> Hole]
  /\ wpos' = [wpos EXCEPT ![p] = RangeStart(p)]
  /\ Goto(p, "lock")
  /\ UNCHANGED <<flock, local, callVars>>
GetRange(p) ==
  /\ pc[p] = "request"
  /\ wpos' = [wpos EXCEPT ![p] = RangeStart(p)]
  /\ Goto(p, "lock")
  /\ UNCHANGED <<page, flock, local, callVars>>

GetRangeFails(p) ==
  /\ "range" \in Faults
  /\ pc[p] = "request"
  /\ Finish(p, IOError)
  /\ UNCHANGED <<page, flock, local, req>>

\* FileLock::poll.
TryLockAnyway(p) ==   \* seeded fault: an answer of try_lock_exclusive taken for success
  /\ pc[p] = "lock"
  /\ flock' = p
  /\ Goto(p, "copy")
  /\ UNCHANGED <<page, local, wpos, callVars>>
TryLock(p) ==
  /\ pc[p] = "lock"
  /\ flock = NoProc
  /\ flock' = p
  /\ Goto(p, "copy")
  /\ UNCHANGED <<page, local, wpos, callVars>>

LockTimeoutNever(p) == FALSE /\ UNCHANGED vars   \* seeded fault: wait without limit
LockTimeout(p) ==
  /\ pc[p] = "lock"
  /\ flock # NoProc
  /\ Finish(p, IOError)
  /\ UNCHANGED <<page, flock, local, req>>

LockFails(p) ==
  /\ "lock" \in Faults
  /\ pc[p] = "lock"
  /\ Finish(p, IOError)
  /\ UNCHANGED <<page, flock, local, req>>

\* The stream is copied to the file, in order, under the lock, through a buffer that is
\* written when it is full, wherever in a page that is.
CopyPage(p) ==
  /\ pc[p] = "copy" /\ wpos[p] < RangeEnd(p)
  /\ WritePage(wpos[p])
  /\ wpos' = [wpos EXCEPT ![p] = @ + 1]
  /\ UNCHANGED <<flock, local, pc, callVars>>

CopyPart(p) ==
  /\ pc[p] = "copy" /\ wpos[p] < RangeEnd(p)
  /\ TearPage(wpos[p])
  /\ UNCHANGED <<flock, local, pc, wpos, callVars>>

\* The stream is at its end: flushed, the file closed and so unlocked.
CopyDoneUnflushed(p) ==   \* seeded fault: without flush, so that the last page may be cut
  /\ pc[p] = "copy" /\ wpos[p] >= RangeEnd(p) - 1
  /\ Unlock(p)
  /\ Goto(p, "read")
  /\ UNCHANGED <<page, local, wpos, callVars>>
CopyDone(p) ==
  /\ pc[p] = "copy" /\ wpos[p] >= RangeEnd(p)
  /\ Unlock(p)
  /\ Goto(p, "read")
  /\ UNCHANGED <<page, local, wpos, callVars>>

CopyFailsUnseen(p) ==   \* seeded fault: the error of the fetch thread is not returned
  /\ "stream" \in Faults
  /\ pc[p] = "copy" /\ wpos[p] < RangeEnd(p)
  /\ Unlock(p)
  /\ Goto(p, "read")
  /\ UNCHANGED <<page, local, wpos, callVars>>
CopyFails(p) ==
  /\ "stream" \in Faults
  /\ pc[p] = "copy" /\ wpos[p] < RangeEnd(p)
  /\ Unlock(p)
  /\ Finish(p, IOError)
  /\ UNCHANGED <<page, local, req>>

---------------------------------------------------------------------------
(* The process is killed in the middle of anything, and started again later on the *)
(* cache file it finds, perhaps with other options. *)

Die(p, label) ==
  /\ Unlock(p)
  /\ wpos' = [wpos EXCEPT ![p] = 0]
  /\ req' = [req EXCEPT ![p] = NoReq]
  /\ from' = [from EXCEPT ![p] = 0]
  /\ got' = [got EXCEPT ![p] = NoBytes]
  /\ Goto(p, label)
  /\ UNCHANGED <<page, local>>

Crash(p) ==
  /\ "crash" \in Faults
  /\ pc[p] # "dead"
  /\ Die(p, "dead")

Restart(p, l) ==
  /\ pc[p] = "dead"
  /\ local' = [local EXCEPT ![p] = l]
  /\ Goto(p, "ready")
  /\ UNCHANGED <<page, flock, wpos, callVars>>

\* What the process does with the file and its own memory, and what S3 does for it.
LocalStep(p) ==
  DetectHole(p) \/ DetectZero(p) \/ TryLock(p) \/ LockTimeout(p) \/ RawRead(p) \/ Return(p)

RemoteStep(p) == GetRange(p) \/ CopyPage(p) \/ CopyPart(p) \/ CopyDone(p)

FaultStep(p) == GetRangeFails(p) \/ LockFails(p) \/ CopyFails(p)

ReadStep(p) ==
  \/ \E r \in Requests : BeginRead(p, r)
  \/ LocalStep(p)
  \/ RemoteStep(p)
  \/ FaultStep(p)

Next == \E p \in Proc : ReadStep(p) \/ Crash(p) \/ \E l \in Hooked : Restart(p, l)

Spec == Init /\ [][Next]_vars

\* A process that can take a step of its own takes it: poll re-arms its waker, and the
\* rest is straight-line code.  Nothing is assumed of S3.
FairSpec == Spec /\ \A p \in Proc : WF_vars(LocalStep(p))

---------------------------------------------------------------------------
(* Properties *)

\* Every variable has its type; a process has a call exactly while it is inside one, and
\* an answer only when the call is done.
TypeOK ==
  /\ page \in [Pages -> Content]
  /\ flock \in Proc \cup {NoProc}
  /\ local \in [Proc -> Locals]
  /\ wpos \in [Proc -> 0 .. FilePages]
  /\ pc \in [Proc -> ReadLabels]
  /\ req \in [Proc -> Requests \cup {NoReq}]
  /\ from \in [Proc -> Pages]
  /\ got = [p \in Proc |-> got[p]]
  /\ \A p \in Proc : req[p] = NoReq <=> pc[p] \in {"dead", "ready"}
  /\ \A p \in Proc : pc[p] # "done" => got[p] = NoBytes

\* The exclusive lock: the processes that copy a stream into the file are the one that
\* holds the lock, and nobody keeps the lock beyond its copy (an error and a crash close
\* the file).
OneWriter == \A p \in Proc : pc[p] = "copy" <=> flock = p

\* A call of archive_read_at that succeeds returns the archive's bytes, on every page,
\* whatever was fetched, interrupted or written by others before.  It is what a caller
\* relies on, and it does not hold: runs first_page, allzero_shared and torn_shared.
ReadCorrect(p) ==
  pc[p] = "done" /\ got[p] # IOError => \A g \in Range(req[p]) : got[p][g] = g
ReadsCorrect == \A p \in Proc : ReadCorrect(p)

\* What does hold of data, whatever was fetched, interrupted or written by others before: a
\* process that looks for holes with lseek never answers a page that nobody wrote, and
\* one that looks for zeros never answers a range of which nobody wrote anything.  A page
\* answered is the archive's, or one that some copy had begun.
AnswerFetched(p) ==
  pc[p] = "done" /\ got[p] # IOError /\ ~req[p].meta =>
    CASE local[p].hdmode = "LSEEK" -> \A g \in Range(req[p]) : got[p][g] \in {g} \cup Unfinished
      [] local[p].hdmode = "ALLZERO" -> \E g \in Range(req[p]) : got[p][g] \in {g, Torn}
AnswersFetched == \A p \in Proc : AnswerFetched(p)

\* What the cache holds of the archive it keeps: no fetch, retry, failure or crash turns
\* a right page into anything else (the lock lets only one stream write at a time, but
\* readers take no lock).
GoodPagesStay == [][\A g \in Pages : Good(g) => Good(g)']_vars

\* A copy that is reported as done has left nothing of its range unwritten or written in
\* part: it was flushed before the fetch thread was joined and the raw read begins.
CopiesEndWhole ==
  [][\A p \in Proc : pc[p] = "copy" /\ pc'[p] = "read" =>
       \A g \in RangeStart(p) .. RangeEnd(p) - 1 : Good(g)]_vars

\* Waiting for the file lock ends, in the lock or in an error, even if the holder's
\* download stalls for ever.
LockWaitEnds == \A p \in Proc : pc[p] = "lock" ~> pc[p] # "lock"

\* A call whose range is in the cache returns without anything from S3.
CachedReadAnswered ==
  \A p \in Proc :
    (pc[p] = "detect" /\ \A g \in Range(req[p]) : Good(g)) ~> pc[p] \in {"done", "dead"}

\* The cache is invisible but for pages in the middle of a write: what the callers see are
\* the calls and answers of ArchiveFile.  lseek promises every page that is not written in part;
\* ALLZERO promises the pages that are there, and detects no others.
Partial ==
  [p \in Proc |-> {g \in Pages : IF local[p].hdmode = "LSEEK" THEN page[g] \in Unfinished
                                                             ELSE ~Good(g)}]
Archive == INSTANCE ArchiveFile WITH call <- req, answer <- got, partial <- Partial
ImplementsArchiveFile == Archive!Spec

---------------------------------------------------------------------------
(* Why the reads are what they are *)

\* Written, at least in part: what SEEK_HOLE passes over.
Touched(g) == page[g] # Hole

\* A page is a hole, or the archive's, or begun, and never another page's; and metadata is
\* complete.
PageSound(g) == page[g] \in {g, Hole} \cup Unfinished
CacheSound ==
  /\ \A g \in Pages : PageSound(g)
  /\ \A g \in Pages : g >= MetaPage => Good(g)

\* A process on the way to fetch, or fetching: of its range, what lies before the first
\* page to fetch is there, and what it has written is right.
FetchSound(p) ==
  /\ pc[p] \in {"detect", "request", "lock", "copy"} => ~req[p].meta
  /\ pc[p] \in {"request", "lock", "copy"} =>
       /\ from[p] \in Range(req[p])
       /\ \A g \in req[p].first .. from[p] - 1 : Touched(g)
  /\ pc[p] \in {"lock", "copy"} =>
       /\ wpos[p] >= RangeStart(p)
       /\ \A g \in RangeStart(p) .. wpos[p] - 1 : Good(g)

\* A process about to read the file finds its whole range there; with ALLZERO, some of it.
RangeSound(p) ==
  pc[p] = "read" =>
    CASE req[p].meta -> \A g \in Range(req[p]) : Good(g)
      [] ~req[p].meta /\ local[p].hdmode = "LSEEK" -> \A g \in Range(req[p]) : Touched(g)
      [] ~req[p].meta /\ local[p].hdmode = "ALLZERO" ->
           \E g \in Range(req[p]) : page[g] \in {g, Torn}

\* Every call that reaches the raw read finds its range in the file, because what hole
\* detection skipped stays and what it missed has been written: this is what makes
\* AnswersFetched hold, and it is inductive together with TypeOK and OneWriter.
FetchInvariant ==
  /\ local \in [Proc -> Hooked]
  /\ CacheSound
  /\ \A p \in Proc : FetchSound(p) /\ RangeSound(p)

\* What the setup must be for ReadsCorrect itself: one process with the cache file to
\* itself, hole detection with lseek, no stream that is cut for good, chunks of at least two
\* pages, and a first block that does not end inside page 0, which is written with the
\* superblock.
AloneSetup ==
  /\ \A p, q \in Proc : p = q
  /\ HdModes = {"LSEEK"}
  /\ Faults \cap {"crash", "stream"} = {}
  /\ \A c \in ChunkSizes : c >= 2
  /\ \A r \in Requests : r.first = 0 /\ ~r.meta => r.last >= 1
===========================================================================
