---------------------------- MODULE ReadOnlyFs ----------------------------
(***************************************************************************)
(* What a mounted archive promises its callers: one request at a time,     *)
(* and each is answered by what the archive holds, or by an error, as long *)
(* as the archive in S3 is the one the cache was made of.  The promise     *)
(* leaves out what the call was kept from, and the answers the mount is    *)
(* known to give instead of the right one.  Once another archive is under  *)
(* its key, an answer may be anything.  The mount may end with a request   *)
(* outstanding.                                                            *)
(***************************************************************************)

CONSTANTS
  Requests,   \* what the kernel may ask
  Right(_, _, _),   \* Right(r, x, a): a is right as an answer to r, but for x
  Known(_, _),      \* Known(r, a): a is wrong, and known to be what r is answered with
  Errors,     \* the answers that say that there is none
  Answers,    \* everything that may come out of an archive that does not fit its cache
  NoReq, NoReply

VARIABLES
  call,    \* the request being served, or NoReq
  answer,  \* its answer, or NoReply
  stale,   \* is the cache of another archive than the one under the key
  spoilt   \* what the call is kept from: not this specification's own, it changes as it likes

fsVars == <<call, answer, stale>>

Init == call = NoReq /\ answer = NoReply /\ stale \in BOOLEAN

Call(r) ==
  /\ call = NoReq
  /\ call' = r
  /\ UNCHANGED <<answer, stale>>

Answer ==
  /\ call # NoReq /\ answer = NoReply
  /\ answer' # NoReply
  /\ IF stale THEN answer' \in Answers
     ELSE answer' \in Errors \/ Right(call, spoilt', answer') \/ Known(call, answer')
  /\ UNCHANGED <<call, stale>>

\* The caller takes the answer, or the mount ends.
Forget ==
  /\ call # NoReq
  /\ call' = NoReq /\ answer' = NoReply
  /\ UNCHANGED stale

\* Another archive is installed; and the cache is made anew while nothing is mounted.
Replaced ==
  /\ ~stale
  /\ stale' = TRUE
  /\ UNCHANGED <<call, answer>>

Remade ==
  /\ call = NoReq /\ stale
  /\ stale' = FALSE
  /\ UNCHANGED <<call, answer>>

Next ==
  \/ \E r \in Requests : Call(r)
  \/ Answer
  \/ Forget
  \/ Replaced
  \/ Remade

Spec == Init /\ [][Next]_fsVars
===========================================================================
