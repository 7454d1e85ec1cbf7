--------------------------- MODULE ArchiveFile ---------------------------
(***************************************************************************)
(* What the hooked read_at promises libsquashfs: a process asks for a      *)
(* range of the archive and gets the archive's own bytes or an I/O error,  *)
(* whatever the other processes do.  The promise stops at the pages that   *)
(* are written in part when the answer is made: of those, and of no        *)
(* others, the answer may have other bytes.  A process may die with a call *)
(* outstanding.                                                            *)
(***************************************************************************)
EXTENDS Integers

CONSTANTS Proc, Requests, NoReq, NoBytes, IOError

VARIABLES
  call,    \* call[p]: the range process p is reading, or NoReq
  answer,  \* answer[p]: what the call returned, NoBytes while there is no answer
  partial  \* partial[p]: the pages that are promised nothing of to p, at this moment

\* partial is not the file's own: it changes as it likes.
vars == <<call, answer>>

ArchiveRange(r) == r.first .. r.last

Init ==
  /\ call = [p \in Proc |-> NoReq]
  /\ answer = [p \in Proc |-> NoBytes]

Call(p, r) ==
  /\ call[p] = NoReq
  /\ call' = [call EXCEPT ![p] = r]
  /\ UNCHANGED answer

\* An error, or the archive's bytes over the range: page g of the archive is g.
Answer(p) ==
  /\ call[p] # NoReq
  /\ answer[p] = NoBytes
  /\ answer' # answer
  /\ answer' = [answer EXCEPT ![p] = answer'[p]]
  /\ \/ answer'[p] = IOError
     \/ /\ DOMAIN answer'[p] = ArchiveRange(call[p])
        /\ \A g \in ArchiveRange(call[p]) \ partial[p] : answer'[p][g] = g
  /\ UNCHANGED call

\* The caller takes the answer, or the process dies and the call is lost.
Forget(p) ==
  /\ call[p] # NoReq
  /\ call' = [call EXCEPT ![p] = NoReq]
  /\ answer' = [answer EXCEPT ![p] = NoBytes]

Next ==
  \E p \in Proc :
    \/ \E r \in Requests : Call(p, r)
    \/ Answer(p)
    \/ Forget(p)

Spec == Init /\ [][Next]_vars
==========================================================================
