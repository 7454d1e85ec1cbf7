-------------------------- MODULE GetObjectProofs --------------------------
(***************************************************************************)
(* Theorems about GetObject: for any instances, versions, files and        *)
(* temporary directories, with any blocks that cannot be read, space that  *)
(* runs out, answers that get lost and instances that are replaced.        *)
(***************************************************************************)
EXTENDS GetObject, SequenceTheorems, TLAPS

---------------------------------------------------------------------------
(* Bytes *)

Bytes == Versions \X Nat

\* The content of a file, unit by unit.
LEMMA ContentFacts ==
  ASSUME NEW v \in Versions, NEW t \in Targets
  PROVE  /\ SizeOf[v][t] \in Nat
         /\ Content(v, t) \in Seq(Bytes) /\ Len(Content(v, t)) = SizeOf[v][t]
         /\ \A k \in 1 .. SizeOf[v][t] : Content(v, t)[k] = <<v, k>>
<1>1. SizeOf[v][t] \in Nat
  BY ObjectsAssumption
<1>2. \A k \in 1 .. SizeOf[v][t] : <<v, k>> \in Bytes
  BY <1>1 DEF Bytes
<1>. QED BY <1>1, <1>2 DEF Content

\* What appending a stretch of the file to the output gives.
Stretched(s, v, t, at, n) == s \o SubSeq(Content(v, t), at + 1, at + n)

LEMMA AppendStretch ==
  ASSUME NEW v \in Versions, NEW t \in Targets, NEW s \in Seq(Bytes),
         NEW at \in Nat, NEW n \in Nat, at + n <= SizeOf[v][t]
  PROVE  /\ Stretched(s, v, t, at, n) \in Seq(Bytes)
         /\ Len(Stretched(s, v, t, at, n)) = Len(s) + n
         /\ \A k \in 1 .. Len(s) : Stretched(s, v, t, at, n)[k] = s[k]
         /\ \A k \in 1 .. n : Stretched(s, v, t, at, n)[Len(s) + k] = <<v, at + k>>
<1>. DEFINE c == Content(v, t)
            r == Stretched(s, v, t, at, n)
            u == SubSeq(c, at + 1, at + n)
<1>1. c \in Seq(Bytes) /\ Len(c) = SizeOf[v][t] /\ SizeOf[v][t] \in Nat
      /\ \A k \in 1 .. SizeOf[v][t] : c[k] = <<v, k>>
  BY ContentFacts
<1>2. \A k \in at + 1 .. at + n : k \in 1 .. Len(c) /\ c[k] = <<v, k>> /\ c[k] \in Bytes
  BY <1>1 DEF Bytes
<1>. HIDE DEF c
<1>3. u \in Seq(Bytes) /\ Len(u) = n /\ \A k \in 1 .. n : u[k] = c[at + k]
  BY <1>1, <1>2
<1>. HIDE DEF u
<1>4. ASSUME NEW k \in 1 .. n PROVE u[k] = <<v, at + k>>
  <2>1. at + k \in at + 1 .. at + n
    OBVIOUS
  <2>. QED BY <1>2, <1>3, <2>1
<1>5. /\ s \o u \in Seq(Bytes) /\ Len(s \o u) = Len(s) + n /\ Len(s) \in Nat
      /\ \A k \in 1 .. Len(s) + n :
           (s \o u)[k] = IF k <= Len(s) THEN s[k] ELSE u[k - Len(s)]
  BY <1>3, ConcatProperties, LenProperties
<1>6. r = s \o u
  BY DEF Stretched, u, c
<1>. HIDE DEF r
<1>7. r \in Seq(Bytes) /\ Len(r) = Len(s) + n
  BY <1>5, <1>6
<1>8. ASSUME NEW k \in 1 .. Len(s) PROVE r[k] = s[k]
  <2>1. k \in 1 .. Len(s) + n /\ k <= Len(s)
    BY <1>5
  <2>. QED BY <1>5, <1>6, <2>1
<1>9. ASSUME NEW k \in 1 .. n PROVE r[Len(s) + k] = <<v, at + k>>
  <2>. DEFINE j == Len(s) + k
  <2>1. j \in 1 .. Len(s) + n /\ ~(j <= Len(s)) /\ j - Len(s) = k
    BY <1>5
  <2>. HIDE DEF j
  <2>2. (s \o u)[j] = u[j - Len(s)]
    BY <1>5, <2>1
  <2>3. r[j] = <<v, at + k>>
    BY <1>4, <1>6, <2>1, <2>2
  <2>. QED BY <2>3 DEF j
<1>. QED BY <1>7, <1>8, <1>9 DEF r

\* A number cast to i32 is one.
LEMMA CastFacts ==
  ASSUME NEW n \in Int
  PROVE  AsI32(n) \in Int /\ AsI32(n) >= -HalfInt /\ AsI32(n) < HalfInt
<1>. DEFINE w == 2 * HalfInt
            m == n + HalfInt
<1>1. HalfInt \in Nat \ {0} /\ w \in Nat \ {0} /\ m \in Int
  <2>1. HalfInt \in Nat \ {0}
    BY ObjectsAssumption
  <2>. QED BY <2>1
<1>2. AsI32(n) = (m % w) - HalfInt
  BY DEF AsI32
<1>. HIDE DEF m
<1>3. m % w \in 0 .. w - 1
  <2>. HIDE DEF w
  <2>. QED BY <1>1
<1>. QED BY <1>1, <1>2, <1>3

---------------------------------------------------------------------------
(* Types *)

Working == {"block", "meta", "respond"}
Asking == {"extract", "answered"} \cup Working

Replies ==
  [status : {0, 200, 206, 400, 404, 416}, length : Int, body : Seq(Bytes)]

\* The parts of the state that GetTypeOK says nothing of: the output exists while an
\* instance extracts, and a range that is asked for goes on where the client is.
GetTyped ==
  /\ GetTypeOK
  /\ pc # "idle" => target \in Targets
  /\ size \in Int /\ rest \in Int
  /\ out \in Seq(Bytes) /\ have \in Seq(Bytes)
  /\ reply \in Replies
  /\ pc = "headed" => reply.length >= -HalfInt /\ reply.length < HalfInt
  /\ pc \notin Working => out = << >>
  /\ pc \in Asking => range = NextRange \/ (range \in {NoRange, BadRange} /\ have = << >>)

LEMMA Initially == Init => GetTyped
<1>. SUFFICES ASSUME Init PROVE GetTyped
  OBVIOUS
<1>1. 0 \in 0 .. MaxTries /\ TmpSize \in 0 .. TmpSize /\ 0 >= -HalfInt /\ 0 < HalfInt
  BY ObjectsAssumption
<1>2. NoReply \in Replies /\ << >> \in Seq(Bytes)
  BY DEF NoReply, Replies
<1>. QED BY <1>1, <1>2 DEF Init, GetTyped, GetTypeOK, Labels, Ended, Working, Asking

\* The size of the file that is asked for.
LEMMA SizeFacts ==
  ASSUME GetTyped, pc # "idle"
  PROVE  /\ target \in Targets /\ version[by] \in Versions
         /\ FileSize \in Nat /\ FileSize = SizeOf[version[by]][target]
         /\ free[by] \in 0 .. TmpSize /\ free[by] \in Nat
<1>1. target \in Targets /\ version[by] \in Versions /\ free[by] \in 0 .. TmpSize
  BY DEF GetTyped, GetTypeOK
<1>. QED BY <1>1, ObjectsAssumption DEF FileSize

\* What a write of the next block does.
LEMMA NextFacts ==
  ASSUME GetTyped, pc = "block"
  PROVE  /\ rest \in 0 .. FileSize /\ Len(out) + rest <= FileSize /\ Len(out) \in Nat
         /\ NextLength \in 0 .. rest /\ NextLength \in Nat
         /\ Written(NextLength) \in 0 .. NextLength /\ Written(NextLength) <= free[by]
         /\ Written(NextLength) < NextLength => Written(NextLength) = free[by]
         /\ (NextLength = 0) = (rest = 0)
<1>1. FileSize \in Nat /\ free[by] \in Nat
  BY SizeFacts
<1>2. rest \in 0 .. FileSize /\ Len(out) + rest <= FileSize /\ Len(out) \in Nat
  BY DEF GetTyped, GetTypeOK
<1>3. NextLength \in 0 .. rest /\ (NextLength = 0) = (rest = 0)
  BY <1>1, <1>2, ObjectsAssumption DEF NextLength
<1>. QED BY <1>1, <1>2, <1>3 DEF Written

LEMMA ReplyTyped ==
  ASSUME GetTyped, pc \in {"extract", "block", "meta", "respond"}, NEW r \in Replies, Reply(r),
         UNCHANGED <<version, by, range, clientVars, skipped>>,
         free' \in [Instance -> 0 .. TmpSize]
  PROVE  GetTyped'
<1>1. << >> \in Seq(Bytes)
  OBVIOUS
<1>2. range = NextRange \/ (range \in {NoRange, BadRange} /\ have = << >>)
  BY DEF GetTyped, Asking, Working
<1>3. GetTypeOK'
  BY DEF GetTyped, GetTypeOK, Reply, clientVars, Labels, Ended
<1>4. pc' = "answered" /\ reply' = r /\ out' = << >> /\ rest' = 0
      /\ target' = target /\ size' = size /\ have' = have /\ range' = range
  BY DEF Reply, clientVars
<1>5. NextRange' = NextRange
  BY <1>4 DEF NextRange
<1>. QED BY <1>1, <1>2, <1>3, <1>4, <1>5 DEF GetTyped, Working

LEMMA StatusTyped ==
  ASSUME NEW code \in {0, 200, 206, 400, 404, 416}
  PROVE  Status(code) \in Replies
BY DEF Status, Replies

\* The part of the output that a satisfiable range asks for.
LEMMA RangeTyped ==
  ASSUME GetTyped, pc = "respond", Satisfiable(range), Streamable(range)
  PROVE  /\ range = NoRange => have = << >>
         /\ Offset(range) \in Nat /\ Length(range) \in Nat
         /\ Offset(range) + Length(range) <= Len(out) /\ Len(out) <= FileSize
         /\ Len(out) \in Nat /\ Len(have) \in Nat
         /\ range = NoRange => Offset(range) = 0 /\ Length(range) = FileSize
         /\ range # NoRange => range = NextRange /\ Offset(range) = Len(have)
         /\ SubSeq(out, Offset(range) + 1, Offset(range) + Length(range)) \in Seq(Bytes)
         /\ Len(SubSeq(out, Offset(range) + 1, Offset(range) + Length(range))) = Length(range)
         /\ \A k \in 1 .. Length(range) :
              /\ Offset(range) + k \in 1 .. Len(out)
              /\ SubSeq(out, Offset(range) + 1, Offset(range) + Length(range))[k]
                   = out[Offset(range) + k]
<1>1. /\ range = NextRange \/ (range = NoRange /\ have = << >>)
      /\ FileSize \in Nat /\ Len(out) \in Nat /\ Len(have) \in Nat /\ out \in Seq(Bytes)
      /\ rest \in 0 .. FileSize /\ Len(out) + rest <= FileSize
  BY SizeFacts, LenProperties DEF GetTyped, GetTypeOK, Asking, Working, Satisfiable
<1>2. NextRange # NoRange /\ NextRange # BadRange
      /\ NextRange.first = Len(have) /\ NextRange.last = Len(have) + Step - 1
  <2>1. Len(have) + Step - 1 \in Nat
    BY <1>1, ObjectsAssumption
  <2>2. NextRange \in [first : Nat, last : Nat]
    BY <1>1, <2>1 DEF NextRange
  <2>. QED BY <2>2, SentinelAssumption DEF NextRange
<1>. DEFINE m == Offset(range)
            n == Length(range)
<1>3. /\ range = NoRange => m = 0 /\ n = FileSize
      /\ range # NoRange => range = NextRange /\ m = Len(have) /\ n \in Nat
      /\ m \in Nat /\ n \in Nat
  <2>1. CASE range = NoRange
    BY <1>1, <2>1 DEF Offset, Length
  <2>2. CASE range # NoRange
    <3>1. range = NextRange /\ Len(have) < FileSize
      BY <1>1, <1>2, <2>2 DEF Satisfiable
    <3>2. m = Len(have)
      BY <1>2, <2>2, <3>1 DEF Offset
    <3>3. Step \in Nat \ {0}
      BY ObjectsAssumption
    <3>4. n = (IF Len(have) + Step - 1 < FileSize THEN Len(have) + Step - 1 ELSE FileSize - 1)
                - Len(have) + 1
      BY <1>2, <2>2, <3>1 DEF Length
    <3>5. n \in Nat
      BY <1>1, <3>1, <3>3, <3>4
    <3>. QED BY <1>1, <2>2, <3>1, <3>2, <3>5
  <2>. QED BY <2>1, <2>2
<1>4. m + n <= Len(out)
  BY DEF Streamable
<1>. HIDE DEF m, n
<1>5. \A k \in m + 1 .. m + n : k \in 1 .. Len(out) /\ out[k] \in Bytes
  BY <1>1, <1>3, <1>4, ElementOfSeq
<1>. DEFINE u == SubSeq(out, m + 1, m + n)
<1>6. u \in Seq(Bytes) /\ Len(u) = n /\ \A k \in 1 .. n : u[k] = out[m + k]
  BY <1>1, <1>3, <1>5
<1>7. Len(out) <= FileSize
  BY <1>1
<1>8. \A k \in 1 .. n : m + k \in 1 .. Len(out)
  BY <1>1, <1>3, <1>4
<1>9. range = NoRange => have = << >>
  BY <1>1, <1>2
<1>. QED BY <1>1, <1>3, <1>4, <1>6, <1>7, <1>8, <1>9 DEF m, n

LEMMA HandlerTyped == GetTyped /\ Handler => GetTyped'
<1>. SUFFICES ASSUME GetTyped, Handler PROVE GetTyped'
  OBVIOUS
<1>. USE DEF extractVars, clientVars
<1>0. free \in [Instance -> 0 .. TmpSize]
  BY DEF GetTyped, GetTypeOK
<1>1. CASE BeginExtract
  <2>1. Len(out) = 0 /\ FileSize \in Nat
    BY <1>1, SizeFacts, EmptySeq DEF BeginExtract, GetTyped, Working
  <2>2. Kind' = Kind /\ FileSize' = FileSize
    BY <1>1 DEF BeginExtract, Kind, FileSize
  <2>. QED BY <1>1, <2>1, <2>2 DEF BeginExtract, GetTyped, GetTypeOK, Working, Asking, Labels,
              Ended, NextRange
<1>2. CASE NotExtracted
  BY <1>0, <1>2, ReplyTyped, StatusTyped DEF NotExtracted
<1>3. CASE ExtractBlock
  <2>. DEFINE n == Written(NextLength)
              at == FileSize - rest
  <2>1. /\ rest \in 0 .. FileSize /\ Len(out) + rest <= FileSize /\ Len(out) \in Nat
        /\ NextLength \in 0 .. rest /\ n \in 0 .. NextLength /\ n <= free[by]
    BY <1>3, NextFacts DEF ExtractBlock
  <2>2. target \in Targets /\ version[by] \in Versions /\ FileSize \in Nat
        /\ FileSize = SizeOf[version[by]][target] /\ free[by] \in 0 .. TmpSize
    BY <1>3, SizeFacts DEF ExtractBlock
  <2>3. at \in Nat /\ n \in Nat /\ at + n <= FileSize /\ NextLength \in Nat
    BY <2>1, <2>2
  <2>4. out' = Stretched(out, version[by], target, at, n)
    BY <1>3 DEF ExtractBlock, Write, Stretched
  <2>. HIDE DEF at, n
  <2>5. out' \in Seq(Bytes) /\ Len(out') = Len(out) + n
    <3>1. at + n <= SizeOf[version[by]][target]
      BY <2>2, <2>3
    <3>2. out \in Seq(Bytes)
      BY DEF GetTyped
    <3>3. version[by] \in Versions /\ target \in Targets /\ at \in Nat /\ n \in Nat
      BY <2>2, <2>3
    <3>. QED BY <2>4, <3>1, <3>2, <3>3, AppendStretch
  <2>6. free' \in [Instance -> 0 .. TmpSize]
    <3>1. free[by] - n \in 0 .. TmpSize
      <4>1. TmpSize \in Nat
        BY ObjectsAssumption
      <4>. QED BY <2>1, <2>2, <2>3, <4>1
    <3>2. free' = [free EXCEPT ![by] = @ - n]
      BY <1>3 DEF ExtractBlock, Write, n
    <3>. QED BY <1>0, <3>1, <3>2
  <2>7. rest' = rest - NextLength
    BY <1>3 DEF ExtractBlock
  <2>8. rest' \in 0 .. FileSize /\ Len(out') + rest' <= FileSize
    BY <2>1, <2>2, <2>3, <2>5, <2>7
  <2>9. Kind' = Kind /\ FileSize' = FileSize
    BY <1>3 DEF ExtractBlock, Kind, FileSize
  <2>10. UNCHANGED <<version, pc, by, range, reply, target, size, have, tries, skipped, gaps>>
         /\ pc = "block"
    BY <1>3 DEF ExtractBlock
  <2>11. GetTypeOK'
    BY <2>6, <2>8, <2>9, <2>10 DEF GetTyped, GetTypeOK
  <2>. QED BY <2>5, <2>8, <2>10, <2>11 DEF GetTyped, NextRange, Working, Asking
<1>4. CASE SkipBlock
  <2>1. /\ rest \in 0 .. FileSize /\ Len(out) + rest <= FileSize /\ Len(out) \in Nat
        /\ NextLength \in 0 .. rest /\ NextLength \in Nat
    BY <1>4, NextFacts DEF SkipBlock
  <2>2. FileSize \in Nat
    BY <1>4, SizeFacts DEF SkipBlock
  <2>3. rest' = rest - NextLength
    BY <1>4 DEF SkipBlock
  <2>4. rest' \in 0 .. FileSize /\ Len(out) + rest' <= FileSize
    BY <2>1, <2>2, <2>3
  <2>5. Kind' = Kind /\ FileSize' = FileSize
    BY <1>4 DEF SkipBlock, Kind, FileSize
  <2>6. UNCHANGED <<version, free, pc, by, range, out, reply, target, size, have, tries, gaps>>
        /\ pc = "block" /\ skipped' = skipped + 1
    BY <1>4 DEF SkipBlock
  <2>7. GetTypeOK'
    BY <2>4, <2>5, <2>6 DEF GetTyped, GetTypeOK
  <2>. QED BY <2>4, <2>6, <2>7 DEF GetTyped, NextRange, Working, Asking
<1>5. CASE WriteFails
  BY <1>0, <1>5, ReplyTyped, StatusTyped DEF WriteFails
<1>6. CASE BlocksDone \/ SetMetadata
  <2>1. Kind' = Kind /\ FileSize' = FileSize /\ NextRange' = NextRange
    BY <1>6 DEF BlocksDone, SetMetadata, Kind, FileSize, NextRange
  <2>. QED BY <1>6, <2>1 DEF BlocksDone, SetMetadata, GetTyped, GetTypeOK, Working, Asking,
              Labels, Ended
<1>7. CASE SetMetadataFails
  BY <1>0, <1>7, ReplyTyped, StatusTyped DEF SetMetadataFails
<1>8. CASE Respond
  <2>1. PICK r : Reply(r) /\ (r \in {Status(416), Status(400)}
                  \/ (/\ Streamable(range)
                      /\ Satisfiable(range)
                      /\ r = [status |-> IF range = NoRange THEN 200 ELSE 206,
                              length |-> Length(range),
                              body |-> SubSeq(out, Offset(range) + 1,
                                              Offset(range) + Length(range))]))
    BY <1>8 DEF Respond
  <2>2. r \in Replies
    <3>1. CASE r \in {Status(416), Status(400)}
      BY <3>1, StatusTyped
    <3>2. CASE r \notin {Status(416), Status(400)}
      <4>. DEFINE u == SubSeq(out, Offset(range) + 1, Offset(range) + Length(range))
      <4>1. u \in Seq(Bytes) /\ Length(range) \in Int
        BY <1>8, <2>1, <3>2, RangeTyped DEF Respond
      <4>2. r = [status |-> IF range = NoRange THEN 200 ELSE 206,
                 length |-> Length(range), body |-> u]
        BY <2>1, <3>2
      <4>. HIDE DEF u
      <4>. QED BY <4>1, <4>2 DEF Replies
    <3>. QED BY <3>1, <3>2
  <2>. QED BY <1>0, <1>8, <2>1, <2>2, ReplyTyped DEF Respond
<1>. QED BY <1>1, <1>2, <1>3, <1>4, <1>5, <1>6, <1>7, <1>8 DEF Handler

LEMMA ClientTyped ==
  ASSUME GetTyped, (\E i \in Instance : HeadObject(i))
                     \/ (\E i \in Instance, r \in Wishes : GetObject(i, r))
                     \/ ReceiveHead \/ Receive \/ ReceiveError
  PROVE  GetTyped'
<1>. USE DEF extractVars, clientVars
<1>0. /\ version \in [Instance -> Versions] /\ free \in [Instance -> 0 .. TmpSize]
      /\ pc \in Labels /\ tries \in 0 .. MaxTries /\ MaxTries \in Nat
      /\ NoReply \in Replies /\ << >> \in Seq(Bytes)
  BY ObjectsAssumption DEF GetTyped, GetTypeOK, NoReply, Replies
<1>1. ASSUME NEW i \in Instance, HeadObject(i) PROVE GetTyped'
  <2>1. target \in Targets /\ version[i] \in Versions
    BY <1>0, <1>1 DEF HeadObject, GetTyped
  <2>2. SizeOf[version[i]][target] \in Int
    BY <2>1, ObjectsAssumption
  <2>3. LET n == AsI32(SizeOf[version[i]][target])
        IN  n \in Int /\ n >= -HalfInt /\ n < HalfInt
    BY <2>2, CastFacts
  <2>4. reply' \in Replies
    BY <1>0, <1>1, <2>3 DEF HeadObject, Status, Replies
  <2>5. pc' = "headed" /\ pc = "head"
        /\ UNCHANGED <<version, free, range, extractVars, clientVars, skipped>> /\ by' = i
    BY <1>1 DEF HeadObject
  <2>6. reply'.length >= -HalfInt /\ reply'.length < HalfInt
    <3>1. HalfInt \in Nat \ {0}
      BY ObjectsAssumption
    <3>. QED BY <1>1, <2>3, <3>1 DEF HeadObject, Status
  <2>. QED BY <2>4, <2>5, <2>6 DEF GetTyped, GetTypeOK, Labels, Ended, Working, Asking
<1>2. ASSUME NEW i \in Instance, NEW r \in Wishes, GetObject(i, r) PROVE GetTyped'
  <2>1. r = NextRange \/ (r \in {NoRange, BadRange} /\ have = << >>)
    BY DEF Wishes
  <2>2. pc' = "extract" /\ range' = r /\ pc = "ask" /\ by' = i
        /\ UNCHANGED <<version, free, extractVars, reply, clientVars, skipped>>
    BY <1>2 DEF GetObject
  <2>3. NextRange' = NextRange
    BY <2>2 DEF NextRange
  <2>. QED BY <2>1, <2>2, <2>3 DEF GetTyped, GetTypeOK, Labels, Ended, Working, Asking
<1>3. CASE ReceiveHead
  <2>1. /\ pc = "headed" /\ size' = reply.length /\ reply' = NoReply /\ range' = NoRange
        /\ pc' \in {"ask", "refused"}
        /\ skipped' = 0
        /\ UNCHANGED <<version, free, by, extractVars, target, have, tries, gaps>>
    BY <1>3 DEF ReceiveHead, Received
  <2>2. size' \in Int /\ size' >= -HalfInt /\ size' < HalfInt
    BY <2>1 DEF GetTyped, Replies
  <2>. QED BY <1>0, <2>1, <2>2 DEF GetTyped, GetTypeOK, Labels, Ended, Working, Asking
<1>4. CASE Receive
  <2>1. /\ pc = "answered" /\ have' = have \o reply.body /\ tries' = 0
        /\ reply' = NoReply /\ range' = NoRange /\ pc' \in {"ask", "whole"}
        /\ skipped' = 0 /\ gaps' = gaps + skipped
        /\ UNCHANGED <<version, free, by, extractVars, target, size>>
    BY <1>4 DEF Receive, Received
  <2>2. have' \in Seq(Bytes)
    <3>1. have \in Seq(Bytes) /\ reply.body \in Seq(Bytes)
      BY DEF GetTyped, Replies
    <3>. QED BY <2>1, <3>1, ConcatProperties
  <2>. QED BY <1>0, <2>1, <2>2 DEF GetTyped, GetTypeOK, Labels, Ended, Working, Asking
<1>5. CASE ReceiveError
  <2>1. /\ pc \in {"headed", "answered"} /\ reply' = NoReply /\ range' = NoRange
        /\ pc' \in {"head", "ask", "refused"}
        /\ skipped' = 0
        /\ UNCHANGED <<version, free, by, extractVars, target, size, have, gaps>>
    BY <1>5 DEF ReceiveError, Received
  <2>2. tries' \in 0 .. MaxTries
    BY <1>0, <1>5 DEF ReceiveError
  <2>. QED BY <1>0, <2>1, <2>2 DEF GetTyped, GetTypeOK, Labels, Ended, Working, Asking
<1>. QED BY <1>1, <1>2, <1>3, <1>4, <1>5

LEMMA AroundTyped ==
  ASSUME GetTyped, (\E t \in Targets : Begin(t))
                     \/ (\E i \in Instance, v \in Versions : Replace(i, v))
  PROVE  GetTyped'
<1>. USE DEF extractVars, clientVars
<1>0. /\ 0 \in 0 .. MaxTries /\ TmpSize \in 0 .. TmpSize /\ 0 >= -HalfInt /\ 0 < HalfInt
      /\ << >> \in Seq(Bytes)
  BY ObjectsAssumption
<1>1. ASSUME NEW t \in Targets, Begin(t) PROVE GetTyped'
  BY <1>0, <1>1 DEF Begin, GetTyped, GetTypeOK, Labels, Ended, Working, Asking
<1>2. ASSUME NEW i \in Instance, NEW v \in Versions, Replace(i, v) PROVE GetTyped'
  <2>1. NextRange' = NextRange
    BY <1>2 DEF Replace, NextRange
  <2>. QED BY <1>0, <1>2, <2>1
           DEF Replace, GetTyped, GetTypeOK, Labels, Ended, Working, Asking
<1>. QED BY <1>1, <1>2

LEMMA TypedStep == GetTyped /\ [Next]_vars => GetTyped'
<1>1. GetTyped /\ UNCHANGED vars => GetTyped'
  BY DEF vars, extractVars, clientVars, GetTyped, GetTypeOK, Kind, FileSize, NextRange
<1>. QED BY <1>1, HandlerTyped, ClientTyped, AroundTyped DEF Next, Serve

\* Every reachable state is well typed: no instance uses more space than it has, the
\* output never outgrows the file, and a length is what an i32 holds.
THEOREM GetTypeCorrect == Spec => []GetTypeOK
<1>1. GetTyped => GetTypeOK
  BY DEF GetTyped
<1>. QED BY <1>1, Initially, TypedStep, PTL DEF Spec

---------------------------------------------------------------------------
(* The extracted file *)

\* The output is the front of the file.
OutIsFront == \A k \in 1 .. Len(out) : out[k] = <<version[by], k>>
OutIsLate == \A k \in 1 .. Len(out) : out[k][2] >= k

\* Bytes are only lost, to blocks that are skipped or cut: as long as none are lost the
\* output is the front of the file; and as long as no block was skipped they are only lost
\* when there is no space left for any more of them.
Extracted ==
  pc \in Working =>
    /\ OutIsLate
    /\ Len(out) + rest = FileSize => OutIsFront
    /\ skipped = 0 => OutIsFront /\ (Len(out) + rest = FileSize \/ free[by] = 0)

\* What the answers of an instance are worth.
PartRight ==
  \A k \in 1 .. Len(reply.body) :
    reply.body[k] = <<version[by], Len(have) + k>> /\ Len(have) + k <= FileSize
PartLate == \A k \in 1 .. Len(reply.body) : reply.body[k][2] >= Len(have) + k
Answered ==
  pc = "answered" =>
    /\ reply.status = 206 => PartLate
    /\ reply.status = 200 =>
         have = << >> /\ Kind = "file" /\ reply.body = Content(version[by], target)
    /\ reply.status = 206 /\ skipped = 0 => PartRight
    /\ reply.status = 404 /\ Kind = "file" /\ target \notin Unsettable => free[by] = 0

LEMMA ExtractedStep ==
  ASSUME GetTyped, Extracted, Next
  PROVE  Extracted'
<1>. USE DEF extractVars, clientVars
<1>1. CASE pc' \notin Working
  BY <1>1 DEF Extracted
<1>2. CASE BeginExtract
  <2>1. out' = << >> /\ rest' = FileSize /\ FileSize' = FileSize /\ FileSize \in Nat
    BY <1>2, SizeFacts DEF BeginExtract, GetTyped, Working, FileSize
  <2>2. Len(out') = 0
    BY <2>1
  <2>. QED BY <2>1, <2>2 DEF Extracted, OutIsFront, OutIsLate
<1>3. CASE BlocksDone \/ SetMetadata
  <2>1. UNCHANGED <<version, free, by, out, rest, target, skipped>> /\ pc \in Working
    BY <1>3 DEF BlocksDone, SetMetadata, Working
  <2>. QED BY <2>1 DEF Extracted, OutIsFront, OutIsLate, FileSize
<1>4. CASE SkipBlock
  <2>1. UNCHANGED <<version, free, by, out, target>>  /\ pc = "block" /\ skipped' = skipped + 1 /\ skipped \in Nat
        /\ rest' = rest - NextLength /\ pc \in Working
    BY <1>4 DEF SkipBlock, Working, GetTyped, GetTypeOK
  <2>2. /\ rest \in 0 .. FileSize /\ Len(out) + rest <= FileSize /\ Len(out) \in Nat
        /\ NextLength \in 0 .. rest /\ NextLength \in Nat /\ FileSize \in Nat
    BY <2>1, NextFacts, SizeFacts
  <2>3. FileSize' = FileSize
    BY <2>1 DEF FileSize
  <2>4. Len(out) + rest' = FileSize => Len(out) + rest = FileSize
    BY <2>1, <2>2
  <2>. QED BY <2>1, <2>3, <2>4 DEF Extracted, OutIsFront, OutIsLate
<1>5. CASE ExtractBlock
  <2>. DEFINE n == Written(NextLength)
              at == FileSize - rest
  <2>1. /\ rest \in 0 .. FileSize /\ Len(out) + rest <= FileSize /\ Len(out) \in Nat
        /\ NextLength \in 0 .. rest /\ n \in 0 .. NextLength /\ n <= free[by]
        /\ n < NextLength => n = free[by]
    BY <1>5, NextFacts DEF ExtractBlock
  <2>2. target \in Targets /\ version[by] \in Versions /\ FileSize \in Nat
        /\ FileSize = SizeOf[version[by]][target] /\ free[by] \in Nat
    BY <1>5, SizeFacts DEF ExtractBlock
  <2>3. at \in Nat /\ n \in Nat /\ at + n <= FileSize /\ NextLength \in Nat
    BY <2>1, <2>2
  <2>4. out' = Stretched(out, version[by], target, at, n)
    BY <1>5 DEF ExtractBlock, Write, Stretched
  <2>5. /\ free'[by] = free[by] - n /\ rest' = rest - NextLength
        /\ UNCHANGED <<version, by, target, skipped>> /\ pc \in Working
    BY <1>5 DEF ExtractBlock, Write, GetTyped, GetTypeOK, Working
  <2>6. at = FileSize - rest
    OBVIOUS
  <2>. HIDE DEF at, n
  <2>7. /\ Len(out') = Len(out) + n
        /\ \A k \in 1 .. Len(out) : out'[k] = out[k]
        /\ \A k \in 1 .. n : out'[Len(out) + k] = <<version[by], at + k>>
    <3>1. at + n <= SizeOf[version[by]][target]
      BY <2>2, <2>3
    <3>2. out \in Seq(Bytes)
      BY DEF GetTyped
    <3>3. version[by] \in Versions /\ target \in Targets /\ at \in Nat /\ n \in Nat
      BY <2>2, <2>3
    <3>4. Len(out') = Len(out) + n
      BY <2>4, <3>1, <3>2, <3>3, AppendStretch
    <3>5. \A k \in 1 .. Len(out) :
            Stretched(out, version[by], target, at, n)[k] = out[k]
      BY <3>1, <3>2, <3>3, AppendStretch
    <3>6. \A k \in 1 .. n :
            Stretched(out, version[by], target, at, n)[Len(out) + k] = <<version[by], at + k>>
      BY <3>1, <3>2, <3>3, AppendStretch
    <3>. QED BY <2>4, <3>4, <3>5, <3>6
  <2>8. FileSize' = FileSize
    BY <2>5 DEF FileSize
  <2>9. OutIsFront /\ (at = Len(out) \/ n = 0) => OutIsFront'
    <3>. SUFFICES ASSUME OutIsFront, at = Len(out) \/ n = 0, NEW k \in 1 .. Len(out) + n
                  PROVE  out'[k] = <<version[by], k>>
      BY <2>5, <2>7 DEF OutIsFront
    <3>1. CASE k <= Len(out)
      BY <2>1, <2>3, <2>7, <3>1 DEF OutIsFront
    <3>2. CASE k > Len(out)
      <4>. DEFINE j == k - Len(out)
      <4>1. j \in 1 .. n /\ at + j = k /\ Len(out) + j = k
        BY <2>1, <2>3, <3>2
      <4>. HIDE DEF j
      <4>2. out'[Len(out) + j] = <<version[by], at + j>>
        BY <2>7, <4>1
      <4>. QED BY <4>1, <4>2
    <3>. QED BY <2>1, <2>3, <3>1, <3>2
  <2>10. Len(out') + rest' = FileSize =>
           Len(out) + rest = FileSize /\ n = NextLength /\ at = Len(out)
    <3>1. /\ Len(out') = Len(out) + n /\ rest' = rest - NextLength
          /\ Len(out) \in Nat /\ n \in Nat /\ rest \in Nat /\ NextLength \in Nat
          /\ n <= NextLength /\ Len(out) + rest <= FileSize /\ FileSize \in Nat
      BY <2>1, <2>2, <2>3, <2>5, <2>7
    <3>. QED BY <2>6, <3>1
  <2>11. ASSUME skipped = 0
         PROVE  OutIsFront' /\ (Len(out') + rest' = FileSize \/ free'[by] = 0)
    <3>1. OutIsFront /\ (Len(out) + rest = FileSize \/ free[by] = 0)
      BY <2>5, <2>11 DEF Extracted
    <3>2. at = Len(out) \/ n = 0
      BY <2>1, <2>2, <2>3, <2>6, <3>1
    <3>3. CASE n < NextLength
      BY <2>1, <2>2, <2>3, <2>5, <2>9, <3>1, <3>2, <3>3
    <3>4. CASE n = NextLength
      <4>1. CASE Len(out) + rest = FileSize
        BY <2>1, <2>2, <2>3, <2>5, <2>7, <2>9, <3>1, <3>2, <3>4, <4>1
      <4>2. CASE free[by] = 0
        BY <2>1, <2>2, <2>3, <2>5, <2>9, <3>1, <3>2, <4>2
      <4>. QED BY <3>1, <4>1, <4>2
    <3>. QED BY <2>1, <2>3, <3>3, <3>4
  <2>12. OutIsLate'
    <3>. SUFFICES ASSUME NEW k \in 1 .. Len(out) + n PROVE out'[k][2] >= k
      BY <2>7 DEF OutIsLate
    <3>1. CASE k <= Len(out)
      <4>1. OutIsLate /\ k \in 1 .. Len(out)
        BY <2>1, <2>3, <2>5, <3>1 DEF Extracted
      <4>. QED BY <2>7, <4>1 DEF OutIsLate
    <3>2. CASE k > Len(out)
      <4>. DEFINE j == k - Len(out)
      <4>1. j \in 1 .. n /\ Len(out) + j = k
        BY <2>1, <2>3, <3>2
      <4>2. at >= Len(out)
        <5>1. rest \in Int /\ FileSize \in Int /\ Len(out) \in Int
              /\ Len(out) + rest <= FileSize
          BY <2>1, <2>2
        <5>. QED BY <2>6, <5>1
      <4>3. j \in Int /\ Len(out) \in Int /\ at \in Int
        BY <2>1, <2>3, <4>1
      <4>. HIDE DEF j
      <4>4. at + j >= k
        BY <4>1, <4>2, <4>3
      <4>5. out'[Len(out) + j] = <<version[by], at + j>>
        BY <2>7, <4>1
      <4>. QED BY <4>1, <4>4, <4>5
    <3>. QED BY <2>1, <2>3, <3>1, <3>2
  <2>. QED BY <2>5, <2>8, <2>9, <2>10, <2>11, <2>12 DEF Extracted
<1>6. \/ pc' \notin Working \/ BeginExtract \/ BlocksDone \/ SetMetadata
      \/ SkipBlock \/ ExtractBlock
  BY DEF Next, Serve, Handler, HeadObject, GetObject, NotExtracted, WriteFails,
     SetMetadataFails, Respond, Reply, ReceiveHead, Receive, ReceiveError, Begin, Replace,
     Working, Ended
<1>. QED BY <1>1, <1>2, <1>3, <1>4, <1>5, <1>6

LEMMA AnsweredStep ==
  ASSUME GetTyped, Extracted, Answered, Next
  PROVE  Answered'
<1>. USE DEF extractVars, clientVars
<1>1. CASE pc' # "answered"
  BY <1>1 DEF Answered
<1>2. CASE NotExtracted
  <2>1. UNCHANGED <<version, free, by, target>> /\ reply' = Status(404)
        /\ (Kind = "file" => free[by] = 0)
    BY <1>2 DEF NotExtracted, Reply
  <2>. QED BY <2>1 DEF Answered, Status, Kind
<1>3. CASE WriteFails
  <2>1. UNCHANGED <<version, free, by, target>> /\ reply' = Status(404) /\ pc = "block"
        /\ NextLength # 0 /\ ~(Written(NextLength) > 0)
    BY <1>3 DEF WriteFails, Reply, Writable
  <2>2. free[by] = 0
    <3>1. /\ rest \in 0 .. FileSize /\ NextLength \in 0 .. rest /\ NextLength \in Nat
          /\ Written(NextLength) \in 0 .. NextLength
          /\ Written(NextLength) < NextLength => Written(NextLength) = free[by]
      BY <2>1, NextFacts
    <3>. QED BY <2>1, <3>1
  <2>. QED BY <2>1, <2>2 DEF Answered, Status
<1>4. CASE SetMetadataFails
  <2>1. UNCHANGED <<target>> /\ reply' = Status(404) /\ target \in Unsettable
    BY <1>4 DEF SetMetadataFails, Reply
  <2>. QED BY <2>1 DEF Answered, Status
<1>5. CASE Respond
  <2>1. UNCHANGED <<version, free, by, range, target, have, skipped>> /\ pc = "respond"
        /\ Kind' = Kind /\ FileSize' = FileSize
    BY <1>5 DEF Respond, Kind, FileSize
  <2>2. CASE ~Satisfiable(range) \/ ~Streamable(range)
    <3>1. reply' \in {Status(416), Status(400)}
      BY <1>5, <2>2 DEF Respond, Reply
    <3>. QED BY <3>1 DEF Answered, Status
  <2>3. CASE Satisfiable(range) /\ Streamable(range)
    <3>. DEFINE m == Offset(range)
                n == Length(range)
                u == SubSeq(out, m + 1, m + n)
    <3>1. reply' = [status |-> IF range = NoRange THEN 200 ELSE 206, length |-> n, body |-> u]
      BY <1>5, <2>3 DEF Respond, Reply
    <3>2. /\ range = NoRange => have = << >>
          /\ m \in Nat /\ n \in Nat /\ m + n <= Len(out) /\ Len(out) <= FileSize
          /\ Len(out) \in Nat /\ Len(have) \in Nat
          /\ range = NoRange => m = 0 /\ n = FileSize
          /\ range # NoRange => range = NextRange /\ m = Len(have)
          /\ u \in Seq(Bytes) /\ Len(u) = n
          /\ \A k \in 1 .. n : m + k \in 1 .. Len(out) /\ u[k] = out[m + k]
      BY <2>1, <2>3, RangeTyped
    <3>. HIDE DEF m, n, u
    <3>3. /\ FileSize \in Nat /\ target \in Targets /\ version[by] \in Versions
          /\ FileSize = SizeOf[version[by]][target]
          /\ rest \in 0 .. FileSize /\ Len(out) + rest <= FileSize /\ Kind = "file"
      BY <2>1, SizeFacts DEF GetTyped, GetTypeOK
    <3>4. ASSUME range = NoRange PROVE u = Content(version[by], target)
      <4>1. m = 0 /\ n = FileSize /\ Len(out) + rest = FileSize
        BY <3>2, <3>3, <3>4
      <4>2. OutIsFront
        BY <2>1, <4>1 DEF Extracted, Working
      <4>3. ASSUME NEW k \in 1 .. n PROVE u[k] = <<version[by], k>>
        <5>1. m + k = k
          BY <3>2, <4>1
        <5>. QED BY <3>2, <4>2, <5>1 DEF OutIsFront
      <4>4. /\ Content(version[by], target) \in Seq(Bytes)
            /\ Len(Content(version[by], target)) = n
            /\ \A k \in 1 .. n : Content(version[by], target)[k] = <<version[by], k>>
        BY <3>3, <4>1, ContentFacts
      <4>. QED BY <3>2, <4>3, <4>4, SeqEqual
    <3>5. ASSUME range # NoRange, skipped = 0, NEW k \in 1 .. n
          PROVE  u[k] = <<version[by], Len(have) + k>> /\ Len(have) + k <= FileSize
      <4>1. OutIsFront
        BY <2>1, <3>5 DEF Extracted, Working
      <4>2. m = Len(have) /\ m + k \in 1 .. Len(out) /\ u[k] = out[m + k]
        BY <3>2, <3>5
      <4>3. out[m + k] = <<version[by], m + k>>
        BY <4>1, <4>2 DEF OutIsFront
      <4>4. Len(out) <= FileSize /\ Len(out) \in Nat /\ m \in Nat
        BY <3>2
      <4>5. m + k <= FileSize
        BY <3>3, <4>2, <4>4
      <4>. QED BY <4>2, <4>3, <4>5
    <3>6. CASE range = NoRange
      <4>1. reply'.status = 200 /\ reply'.body = u
        BY <3>1, <3>6
      <4>2. Content(version'[by'], target') = Content(version[by], target)
        BY <2>1 DEF Content
      <4>. QED BY <2>1, <3>2, <3>3, <3>4, <3>6, <4>1, <4>2 DEF Answered
    <3>7. CASE range # NoRange
      <4>1. reply'.status = 206 /\ reply'.body = u
        BY <3>1, <3>7
      <4>2. skipped = 0 => PartRight'
        BY <2>1, <3>2, <3>5, <3>7, <4>1 DEF PartRight
      <4>3. PartLate'
        <5>. SUFFICES ASSUME NEW k \in 1 .. n PROVE u[k][2] >= Len(have) + k
          BY <2>1, <3>2, <4>1 DEF PartLate
        <5>1. m = Len(have) /\ m + k \in 1 .. Len(out) /\ u[k] = out[m + k]
          BY <3>2, <3>7
        <5>2. out[m + k][2] >= m + k
          BY <2>1, <5>1 DEF Extracted, Working, OutIsLate
        <5>. QED BY <5>1, <5>2
      <4>. QED BY <2>1, <4>1, <4>2, <4>3 DEF Answered
    <3>. QED BY <3>6, <3>7
  <2>. QED BY <2>2, <2>3
<1>6. \/ pc' # "answered" \/ NotExtracted \/ WriteFails \/ SetMetadataFails \/ Respond
  BY DEF Next, Serve, Handler, HeadObject, GetObject, BeginExtract, ExtractBlock, SkipBlock,
     BlocksDone, SetMetadata, ReceiveHead, Receive, ReceiveError, Begin, Replace, Ended
<1>. QED BY <1>1, <1>2, <1>3, <1>4, <1>5, <1>6

GetInv == GetTyped /\ Extracted /\ Answered

LEMMA GetInvInit == Init => GetInv
BY Initially DEF GetInv, Init, Extracted, Answered, Working

LEMMA GetInvStep == GetInv /\ [Next]_vars => GetInv'
<1>1. GetInv /\ UNCHANGED vars => GetInv'
  <2>. SUFFICES ASSUME GetInv, UNCHANGED vars PROVE GetInv'
    OBVIOUS
  <2>1. GetTyped'
    BY TypedStep DEF GetInv
  <2>. QED BY <2>1 DEF vars, extractVars, clientVars, GetInv, Extracted, OutIsFront, OutIsLate,
              Answered, PartRight, PartLate, Kind, FileSize, Content
<1>2. GetInv /\ Next => GetInv'
  BY TypedStep, ExtractedStep, AnsweredStep DEF GetInv
<1>. QED BY <1>1, <1>2

\* An answer of 200 carries the whole file, whatever blocks were skipped and writes cut
\* short: the stream over the temporary file is refused when bytes are missing.
THEOREM WholeAnswersAreRight == Spec => []WholeAnswersRight
<1>1. GetInv => WholeAnswersRight
  BY DEF GetInv, Answered, WholeAnswersRight
<1>. QED BY <1>1, GetInvInit, GetInvStep, PTL DEF Spec

\* A file that is there and can be set is not found only by a full instance.
THEOREM FilesAreFound == Spec => []FoundUnlessFull
<1>1. GetInv => FoundUnlessFull
  BY DEF GetInv, Answered, FoundUnlessFull
<1>. QED BY <1>1, GetInvInit, GetInvStep, PTL DEF Spec

---------------------------------------------------------------------------
(* The download *)

\* What the client has is, unit by unit, of some version's file, at its place or, if a
\* block was skipped, from a later one; and a download that ended has a whole file, or as
\* much as HeadObject said.
Loaded ==
  /\ \A k \in 1 .. Len(have) : have[k][2] >= k
  /\ gaps = 0 =>
       \A k \in 1 .. Len(have) : have[k][2] = k /\ k <= SizeOf[have[k][1]][target]
Complete ==
  pc = "whole" => Len(have) >= size \/ \E v \in Versions : have = Content(v, target)

LEMMA ReceiveLoads ==
  ASSUME GetInv, Loaded, Receive
  PROVE  Loaded' /\ Complete'
<1>. DEFINE b == reply.body
<1>1. /\ have \in Seq(Bytes) /\ b \in Seq(Bytes) /\ Len(have) \in Nat /\ Len(b) \in Nat
      /\ target \in Targets /\ version[by] \in Versions
      /\ FileSize = SizeOf[version[by]][target] /\ FileSize \in Nat
  BY SizeFacts DEF Receive, GetInv, GetTyped, Replies
<1>2. /\ have' = have \o b /\ pc = "answered" /\ target' = target /\ size' = size
      /\ pc' = IF reply.status = 200 \/ Len(have') >= size THEN "whole" ELSE "ask"
      /\ reply.status \in {200, 206} /\ gaps' = gaps + skipped
  BY DEF Receive
<1>3. /\ Len(have') = Len(have) + Len(b)
      /\ \A k \in 1 .. Len(have) + Len(b) :
           have'[k] = IF k <= Len(have) THEN have[k] ELSE b[k - Len(have)]
  BY <1>1, <1>2, ConcatProperties
<1>4. Content(version[by], target) = Content(version[by], target)'
  BY <1>2 DEF Receive, Received, Content
<1>5. CASE reply.status = 200
  <2>1. have = << >> /\ b = Content(version[by], target)
    BY <1>2, <1>5 DEF GetInv, Answered
  <2>2. have' = Content(version[by], target)
    BY <1>1, <1>2, <2>1, ConcatEmptySeq
  <2>3. /\ Len(have') = FileSize
        /\ \A k \in 1 .. FileSize : have'[k] = <<version[by], k>>
    BY <1>1, <2>2, ContentFacts
  <2>4. \A k \in 1 .. Len(have') : have'[k][2] = k /\ k <= SizeOf[have'[k][1]][target]
    BY <1>1, <2>3
  <2>5. \E v \in Versions : have' = Content(v, target)'
    BY <1>1, <1>2, <2>2 DEF Content
  <2>6. \A k \in 1 .. Len(have') : have'[k][2] >= k
    BY <1>1, <2>3
  <2>. QED BY <1>2, <2>4, <2>5, <2>6 DEF Loaded, Complete
<1>6. CASE reply.status # 200
  <2>1. Complete'
    BY <1>2, <1>6 DEF Complete
  <2>2. ASSUME gaps = 0, skipped = 0, NEW k \in 1 .. Len(have) + Len(b)
        PROVE  have'[k][2] = k /\ k <= SizeOf[have'[k][1]][target]
    <3>1. CASE k <= Len(have)
      BY <1>1, <1>3, <2>2, <3>1 DEF Loaded
    <3>2. CASE k > Len(have)
      <4>. DEFINE j == k - Len(have)
      <4>1. j \in 1 .. Len(b) /\ Len(have) + j = k
        BY <1>1, <3>2
      <4>2. have'[k] = b[j]
        BY <1>1, <1>3, <3>2
      <4>. HIDE DEF j
      <4>3. b[j] = <<version[by], Len(have) + j>> /\ Len(have) + j <= FileSize
        BY <1>2, <1>6, <2>2, <4>1 DEF GetInv, Answered, PartRight
      <4>4. have'[k] = <<version[by], k>> /\ k <= FileSize
        BY <4>1, <4>2, <4>3
      <4>. QED BY <1>1, <4>4
    <3>. QED BY <1>1, <3>1, <3>2
  <2>3. ASSUME NEW k \in 1 .. Len(have) + Len(b)
        PROVE  have'[k][2] >= k
    <3>1. CASE k <= Len(have)
      BY <1>1, <1>3, <2>3, <3>1 DEF Loaded
    <3>2. CASE k > Len(have)
      <4>. DEFINE j == k - Len(have)
      <4>1. j \in 1 .. Len(b) /\ Len(have) + j = k
        BY <1>1, <3>2
      <4>2. have'[k] = b[j]
        BY <1>1, <1>3, <3>2
      <4>. HIDE DEF j
      <4>3. b[j][2] >= Len(have) + j
        BY <1>2, <1>6, <4>1 DEF GetInv, Answered, PartLate
      <4>. QED BY <4>1, <4>2, <4>3
    <3>. QED BY <1>1, <3>1, <3>2
  <2>4. gaps' = 0 => gaps = 0 /\ skipped = 0
    BY <1>2 DEF GetInv, GetTyped, GetTypeOK
  <2>5. Loaded'
    BY <1>2, <1>3, <2>2, <2>3, <2>4 DEF Loaded
  <2>. QED BY <2>1, <2>5
<1>. QED BY <1>5, <1>6

LEMMA LoadedStep ==
  ASSUME GetInv, Loaded, Complete, [Next]_vars
  PROVE  Loaded' /\ Complete'
<1>. USE DEF extractVars, clientVars
<1>1. CASE Receive
  BY <1>1, ReceiveLoads
<1>2. ASSUME NEW t \in Targets, Begin(t) PROVE Loaded' /\ Complete'
  <2>1. have' = << >> /\ pc' = "head"
    BY <1>2 DEF Begin
  <2>. QED BY <2>1 DEF Loaded, Complete
<1>3. CASE UNCHANGED <<have, target, size, gaps>> /\ (pc' = "whole" => pc = "whole")
  BY <1>3 DEF Loaded, Complete, Content
<1>4. CASE UNCHANGED <<have, target, gaps>> /\ pc' # "whole"
  BY <1>4 DEF Loaded, Complete
<1>5. \/ Receive \/ \E t \in Targets : Begin(t)
      \/ UNCHANGED <<have, target, size, gaps>> /\ (pc' = "whole" => pc = "whole")
      \/ UNCHANGED <<have, target, gaps>> /\ pc' # "whole"
  BY DEF vars, Next, Serve, Handler, HeadObject, GetObject, BeginExtract, NotExtracted,
     ExtractBlock, SkipBlock, WriteFails, BlocksDone, SetMetadata, SetMetadataFails, Respond,
     Reply, ReceiveHead, ReceiveError, Replace
<1>. QED BY <1>1, <1>2, <1>3, <1>4, <1>5

LEMMA LoadedIsRight ==
  ASSUME GetInv, Loaded, Complete
  PROVE  DownloadRight
<1>. SUFFICES ASSUME pc = "whole" PROVE
       /\ \A k \in DOMAIN have : have[k][2] >= k
       /\ gaps = 0 =>
            /\ \A k \in DOMAIN have : have[k][2] = k
            /\ \A v \in Versions :
                 (/\ have # << >>
                  /\ \A k \in DOMAIN have : have[k][1] = v
                  /\ size = SizeOf[v][target]) => have = Content(v, target)
  BY DEF DownloadRight
<1>1. /\ have \in Seq(Bytes) /\ DOMAIN have = 1 .. Len(have) /\ Len(have) \in Nat
      /\ target \in Targets
  BY LenProperties DEF GetInv, GetTyped
<1>2. /\ \A k \in 1 .. Len(have) : have[k][2] >= k
      /\ gaps = 0 =>
           \A k \in 1 .. Len(have) : have[k][2] = k /\ k <= SizeOf[have[k][1]][target]
  BY DEF Loaded
<1>3. ASSUME gaps = 0, NEW v \in Versions, have # << >>, \A k \in DOMAIN have : have[k][1] = v,
             size = SizeOf[v][target]
      PROVE  have = Content(v, target)
  <2>1. Len(have) >= 1 /\ 1 \in 1 .. Len(have) /\ Len(have) \in 1 .. Len(have)
    BY <1>1, <1>3, EmptySeq
  <2>2. CASE \E w \in Versions : have = Content(w, target)
    <3>1. PICK w \in Versions : have = Content(w, target)
      BY <2>2
    <3>2. have[1] = <<w, 1>>
      BY <1>1, <2>1, <3>1, ContentFacts
    <3>3. w = v
      BY <1>1, <1>3, <2>1, <3>2
    <3>. QED BY <3>1, <3>3
  <2>3. CASE Len(have) >= size
    <3>1. /\ SizeOf[v][target] \in Nat /\ Content(v, target) \in Seq(Bytes)
          /\ Len(Content(v, target)) = SizeOf[v][target]
          /\ \A k \in 1 .. SizeOf[v][target] : Content(v, target)[k] = <<v, k>>
      BY <1>1, ContentFacts
    <3>2. Len(have) = SizeOf[v][target]
      BY <1>1, <1>2, <1>3, <2>1, <2>3, <3>1
    <3>3. ASSUME NEW k \in 1 .. Len(have) PROVE have[k] = <<v, k>>
      <4>1. have[k] \in Versions \X Nat
        BY <1>1, <3>3, ElementOfSeq DEF Bytes
      <4>2. have[k] = <<have[k][1], have[k][2]>>
        BY <4>1
      <4>3. have[k][1] = v /\ have[k][2] = k
        BY <1>1, <1>2, <1>3, <3>3
      <4>. QED BY <4>2, <4>3
    <3>. QED BY <1>1, <3>1, <3>2, <3>3, SeqEqual
  <2>. QED BY <2>2, <2>3 DEF Complete
<1>. QED BY <1>1, <1>2, <1>3

\* A download that ends, with no block skipped in any of its parts, has every unit at its
\* place, although the parts come from any instances and versions and are asked for again
\* when answers are lost; and it is the file when they are of one version, the one
\* HeadObject gave the length of.  Where a block was skipped, what stands in the place of a
\* missing unit is from later in the file.
THEOREM DownloadsAreRight == Spec => []DownloadRight
<1>1. Init => Loaded /\ Complete
  <2>. SUFFICES ASSUME Init PROVE Loaded /\ Complete
    OBVIOUS
  <2>1. have = << >> /\ pc = "idle"
    BY DEF Init
  <2>. QED BY <2>1 DEF Loaded, Complete
<1>2. GetInv /\ Loaded /\ Complete /\ [Next]_vars => (Loaded /\ Complete)'
  BY LoadedStep
<1>3. GetInv /\ Loaded /\ Complete => DownloadRight
  BY LoadedIsRight
<1>. QED BY <1>1, <1>2, <1>3, GetInvInit, GetInvStep, PTL DEF Spec
============================================================================
