------------------------------ MODULE Listing ------------------------------
(***************************************************************************)
(* ListObjectsV2 of the lambda: list_objects_v2_handler and filter_result  *)
(* of main.rs over do_file_list of squashfs_v1.rs, answering one client    *)
(* that pages through the keys below a prefix.                             *)
(*                                                                         *)
(* The client and the calling of instances are external: any instance may  *)
(* answer any page, answers get lost and are asked for again, and an       *)
(* instance is replaced by one whose cache holds another version of the    *)
(* archive.  A path is a sequence of names, a name is a number, and the    *)
(* order of the numbers is that of the names in a squashfs directory.      *)
(***************************************************************************)
EXTENDS Integers, SequencesExt

CONSTANTS
  Instance,    \* the lambda instances
  Versions,    \* the versions of the archive
  LastName,    \* the last name there is in the archives
  Depth,       \* how many names the longest path has
  Files,       \* Files[v]: the paths of everything but directories in version v
  Top,         \* the directory part of the prefix asked for
  Entries,     \* the names that begin like the rest of the prefix
  MaxKeys,     \* the values of max-keys the client sends
  MaxTries,    \* how often the client asks for a page
  TokenField,  \* the field of the answer in which the client looks for the next token
  NoToken, NoReply, Failed

Path == Seq(1 .. LastName)
ASSUME FilesAssumption ==
  /\ LastName \in Nat /\ Depth \in Nat
  /\ \A v \in Versions : \A f, g \in Files[v] :
       /\ f \in Path /\ Len(f) <= Depth
       /\ IsPrefix(f, g) => f = g

ASSUME ClientAssumption ==
  /\ Top \in Seq(Nat) /\ Entries \subseteq Nat
  /\ MaxKeys \subseteq Nat /\ MaxTries \in Nat
  /\ TokenField \in {"ContinuationToken", "NextContinuationToken"}

Answers == [keys : Seq(Path), truncated : BOOLEAN, token : Path \cup {NoToken}]
ASSUME SentinelAssumption ==
  /\ NoToken \notin Path
  /\ NoReply \notin Answers \cup {Failed}

VARIABLES
  version,  \* version[i]: the version of the archive in i's cache
  pc,       \* the client: "ask", "answered", "listed" or "gaveup"
  token,    \* the client's continuation token
  reply,    \* the answer on its way to the client
  tries,    \* how often the client has asked for this page in vain
  listed    \* the keys the client was given

vars == <<version, pc, token, reply, tries, listed>>

Init ==
  /\ version \in [Instance -> Versions]
  /\ pc = "ask"
  /\ token = NoToken
  /\ reply = NoReply
  /\ tries = 0
  /\ listed = << >>

---------------------------------------------------------------------------
(* do_file_list: the files below a directory, depth first *)

Names(v, dir) ==
  {f[Len(dir) + 1] : f \in {g \in Files[v] : IsStrictPrefix(dir, g)}}

\* The entries of a directory, one after the other; below[d] is what lies below directory d.
Siblings(v, dir, below) ==
  LET vec[n \in 0 .. LastName] ==
        IF n = 0 THEN << >>
        ELSE IF n \notin Names(v, dir) THEN vec[n - 1]
        ELSE IF Append(dir, n) \in Files[v] THEN Append(vec[n - 1], Append(dir, n))
        ELSE vec[n - 1] \o below[Append(dir, n)]
  IN  vec

\* What lies below a directory, as far down as h names.
TraverseTree(v) ==
  LET walk[h \in 0 .. Depth] ==
        [dir \in Seq(Nat) |-> IF h = 0 THEN << >> ELSE Siblings(v, dir, walk[h - 1])[LastName]]
  IN  walk

FileList == [v \in Versions |-> TraverseTree(v)[Depth][Top]]

---------------------------------------------------------------------------
(* filter_result *)

\* The whole path is compared with the prefix; the files listed are those below Top.
StartsWith(f) == IsStrictPrefix(Top, f) /\ f[Len(Top) + 1] \in Entries

Retained(v) ==
  LET r[n \in 0 .. Len(v)] ==
        IF n = 0 THEN << >> ELSE IF StartsWith(v[n]) THEN Append(r[n - 1], v[n]) ELSE r[n - 1]
  IN  r
Retain(v) == Retained(v)[Len(v)]

\* What follows the token in the list, which is not filtered yet; nothing if it is gone.
AfterTokenAgain(v, last) ==   \* seeded fault: drained up to the token, and not with it
  LET at == SelectInSeq(v, LAMBDA f : f = last)
  IN  IF last = NoToken THEN v ELSE IF at = 0 THEN << >> ELSE SubSeq(v, at, Len(v))
AfterToken(v, last) ==
  LET at == SelectInSeq(v, LAMBDA f : f = last)
  IN  IF last = NoToken THEN v ELSE IF at = 0 THEN << >> ELSE SubSeq(v, at + 1, Len(v))

\* The first keys, and the last of them if there are more; taking the last of no key is
\* a panic.
PageNextKey(v, max) ==   \* seeded fault: the token is the first key left out
  IF Len(v) <= max THEN [keys |-> v, last |-> NoToken]
  ELSE IF max = 0 THEN Failed
  ELSE [keys |-> SubSeq(v, 1, max), last |-> v[max + 1]]
Page(v, max) ==
  IF Len(v) <= max THEN [keys |-> v, last |-> NoToken]
  ELSE IF max = 0 THEN Failed
  ELSE [keys |-> SubSeq(v, 1, max), last |-> v[max]]

FilterResultEmpty(v, max, last) ==   \* seeded fault: no key wanted, the same token again
  IF max = 0 THEN [keys |-> << >>, last |-> last]
  ELSE Page(Retain(AfterToken(v, last)), max)
FilterResult(v, max, last) == Page(Retain(AfterToken(v, last)), max)

---------------------------------------------------------------------------
(* list_objects_v2_handler *)

\* Where the token of the next page is put in the answer.
Token(last, field) == IF field = "ContinuationToken" THEN last ELSE NoToken

Handler(v, max, last) ==
  LET result == FilterResult(FileList[v], max, last) IN
    IF result = Failed THEN Failed
    ELSE [keys |-> result.keys,
          truncated |-> result.last # NoToken,
          token |-> Token(result.last, TokenField)]

\* Some instance answers; the token of the request is the client's.
ListObjectsV2(i, max) ==
  /\ pc = "ask"
  /\ reply' = Handler(version[i], max, token)
  /\ pc' = "answered"
  /\ UNCHANGED <<version, token, tries, listed>>

---------------------------------------------------------------------------
(* The client, and the instances around it *)

\* No answer, or an error: the client asks again, and gives up in the end.
NoAnswer ==
  /\ pc = "answered"
  /\ reply' = NoReply
  /\ \/ tries < MaxTries /\ pc' = "ask" /\ tries' = tries + 1
     \/ tries >= MaxTries /\ pc' = "gaveup" /\ UNCHANGED tries
  /\ UNCHANGED <<version, token, listed>>

\* The client goes on while the answer is truncated and says where.
ReceiveSticky ==   \* seeded fault: the token is not taken from the answer
  /\ pc = "answered" /\ reply # Failed
  /\ listed' = listed \o reply.keys
  /\ token' = IF token = NoToken THEN reply.token ELSE token
  /\ pc' = IF reply.truncated /\ reply.token # NoToken THEN "ask" ELSE "listed"
  /\ reply' = NoReply
  /\ tries' = 0
  /\ UNCHANGED version
Receive ==
  /\ pc = "answered" /\ reply # Failed
  /\ listed' = listed \o reply.keys
  /\ token' = IF reply.truncated THEN reply.token ELSE NoToken
  /\ pc' = IF reply.truncated /\ reply.token # NoToken THEN "ask" ELSE "listed"
  /\ reply' = NoReply
  /\ tries' = 0
  /\ UNCHANGED version

\* An instance ends, and another one starts on a cache of another version.
Replace(i, v) ==
  /\ version' = [version EXCEPT ![i] = v]
  /\ UNCHANGED <<pc, token, reply, tries, listed>>

Invoke == \E i \in Instance, max \in MaxKeys : ListObjectsV2(i, max)

Next ==
  \/ Invoke
  \/ NoAnswer
  \/ Receive
  \/ pc \in {"ask", "answered"} /\ \E i \in Instance, v \in Versions : Replace(i, v)

Spec == Init /\ [][Next]_vars

\* The client asks, is answered, and goes on.
FairSpec == Spec /\ WF_vars(Invoke) /\ WF_vars(NoAnswer \/ Receive)

---------------------------------------------------------------------------
(* Properties *)

\* The keys of version v that were asked for.
Wanted(v) == {f \in Files[v] : StartsWith(f)}

\* Every variable has its type; a token names the last key given.
ListingTypeOK ==
  /\ version \in [Instance -> Versions]
  /\ pc \in {"ask", "answered", "listed", "gaveup"}
  /\ tries \in 0 .. MaxTries
  /\ reply \in Answers \cup {Failed, NoReply}
  /\ reply # NoReply <=> pc = "answered"
  /\ ToSet(listed) \subseteq UNION {Files[v] : v \in Versions}
  /\ token # NoToken => listed # << >> /\ token = Last(listed)

\* No key is given twice and none that was not asked for, although any page may come from
\* any instance, with any version in its cache, and may be asked for again.
KeysOnce ==
  /\ \A j, k \in DOMAIN listed : listed[j] = listed[k] => j = k
  /\ \A k \in DOMAIN listed : \E v \in Versions : listed[k] \in Wanted(v)

\* A finished listing has every key that was there in all versions, unless it was given
\* one that is not there in all of them: if that one was a token, the rest is lost.
ListingComplete ==
  (pc = "listed" /\ \A k \in DOMAIN listed, v \in Versions : listed[k] \in Files[v])
    => \A v \in Versions : \A f \in Wanted(v) :
         (\A w \in Versions : f \in Files[w]) => f \in ToSet(listed)

\* A listing ends: with an answer that says it is the last, or in the client's patience.
ListingEnds == <>(pc \in {"listed", "gaveup"})
==============================================================================
