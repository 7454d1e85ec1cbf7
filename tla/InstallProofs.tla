--------------------------- MODULE InstallProofs ---------------------------
(***************************************************************************)
(* Theorems about Install, for every number of installers, every set of    *)
(* archive versions and sizes, and every limit on the parts.               *)
(***************************************************************************)
EXTENDS Install, TLAPS

---------------------------------------------------------------------------
(* The arithmetic of the parts *)

\* Quotient and remainder.
LEMMA Division ==
  ASSUME NEW n \in Nat, NEW c \in Nat \ {0}
  PROVE  /\ n \div c \in Nat /\ n % c \in Nat /\ n % c < c
         /\ n = (n \div c) * c + (n % c)
BY SMTT(30)

\* All the parts but the last are whole chunks, and the last one has what remains.
LEMMA PartsCover ==
  ASSUME NEW n \in Nat, NEW c \in Nat \ {0}, n > c
  PROVE  /\ PartCount(n, c) \in Nat /\ PartCount(n, c) >= 1
         /\ PartCount(n, c) <= (n \div c) + 1
         /\ LastChunk(n, c) \in Nat /\ LastChunk(n, c) >= 1 /\ LastChunk(n, c) <= c
         /\ (PartCount(n, c) - 1) * c + LastChunk(n, c) = n
<1>. DEFINE q == n \div c
            r == n % c
<1>1. q \in Nat /\ r \in Nat /\ r < c /\ n = q * c + r
  BY Division
<1>2. PartCount(n, c) = (IF r = 0 THEN q ELSE q + 1)
  BY DEF PartCount
<1>3. LastChunk(n, c) = (IF r = 0 THEN c ELSE r)
  BY DEF LastChunk
<1>4. PartCount(n, c) <= q + 1
  BY <1>1, <1>2
<1>. HIDE DEF q, r
<1>5. q >= 1
  <2>1. CASE q = 0
    BY <1>1, <2>1
  <2>. QED BY <1>1, <2>1
<1>6. (q - 1) * c = q * c - c
  BY <1>1, SMTT(30)
<1>7. CASE r = 0
  BY <1>1, <1>2, <1>3, <1>4, <1>5, <1>6, <1>7 DEF q
<1>8. CASE r # 0
  <2>1. PartCount(n, c) - 1 = q
    BY <1>1, <1>2, <1>8
  <2>. QED BY <1>1, <1>2, <1>3, <1>4, <1>5, <1>8, <2>1 DEF q
<1>. QED BY <1>7, <1>8

\* A part of a file that is larger than a chunk: where it starts, how long it is, and
\* where it ends.
LEMMA PartFacts ==
  ASSUME NEW n \in Nat, NEW c \in Nat \ {0}, n > c, NEW a, NEW k \in Nat, k < PartCount(n, c)
  PROVE  /\ Part(a, n, c, k).of = a
         /\ Part(a, n, c, k).first = k * c
         /\ Part(a, n, c, k).first \in Nat
         /\ Part(a, n, c, k).length \in 1 .. c
         /\ k # PartCount(n, c) - 1 => Part(a, n, c, k).length = c
         /\ PartEnd(Part(a, n, c, k)) =
              IF k = PartCount(n, c) - 1 THEN n ELSE (k + 1) * c
         /\ PartEnd(Part(a, n, c, k)) <= n
<1>. DEFINE m == PartCount(n, c)
            last == LastChunk(n, c)
            part == Part(a, n, c, k)
<1>1. m \in Nat /\ m >= 1 /\ last \in 1 .. c /\ (m - 1) * c + last = n
  BY PartsCover
<1>2. part.of = a /\ part.first = k * c
  BY DEF Part
<1>3. part.length = IF k = m - 1 THEN last ELSE c
  BY DEF Part
<1>. HIDE DEF m, last, part
<1>4. k * c \in Nat
  BY SMTT(30)
<1>5. CASE k = m - 1
  BY <1>1, <1>2, <1>3, <1>4, <1>5 DEF PartEnd, m, part
<1>6. CASE k # m - 1
  <2>1. (k + 1) * c = k * c + c
    BY SMTT(30)
  <2>2. PICK d \in Nat : m - 1 = (k + 1) + d
    <3>1. m - 1 - (k + 1) \in Nat
      BY <1>1, <1>6 DEF m
    <3>. QED BY <1>1, <3>1
  <2>3. (m - 1) * c = (k + 1) * c + d * c /\ d * c \in Nat
    BY <2>2, SMTT(30)
  <2>4. (k + 1) * c <= n
    BY <1>1, <1>4, <2>1, <2>3
  <2>. QED BY <1>1, <1>2, <1>3, <1>4, <1>6, <2>1, <2>4 DEF PartEnd, m, part
<1>. QED BY <1>5, <1>6

---------------------------------------------------------------------------
(* Types *)

LEMMA SizeTypes ==
  /\ \A a \in Archives : SizeOf[a] \in Nat
  /\ MinPart \in Nat /\ MaxParts \in Nat
  /\ \A env \in EnvChunks : ChunkSize(env) \in Nat /\ ChunkSize(env) >= MinPart
BY SizesAssumption DEF ChunkSize

\* A command that leaves keeps the types.
LEMMA LeaveType ==
  ASSUME InstallTypeOK, NEW i \in Installer, NEW outcome \in Ended, Leave(i, outcome),
         file' = file
  PROVE  InstallTypeOK'
BY SizeTypes DEF InstallTypeOK, Leave, Goto, Labels, Ended

LEMMA InstallTypeStep ==
  ASSUME InstallTypeOK, [Next]_vars
  PROVE  InstallTypeOK'
<1>. USE DEF Goto, Labels, Ended
<1>1. CASE UNCHANGED vars
  BY <1>1 DEF vars, callVars, InstallTypeOK
<1>2. ASSUME NEW i \in Installer, NEW env \in EnvChunks, Start(i, env) PROVE InstallTypeOK'
  BY <1>2, SizeTypes DEF InstallTypeOK, Start
<1>3. ASSUME NEW i \in Installer, InstallStep(i) PROVE InstallTypeOK'
  <2>1. CASE ReadSuperblock(i)
    BY <2>1 DEF InstallTypeOK, ReadSuperblock
  <2>2. CASE FileTooShort(i)
    BY <2>2, LeaveType DEF FileTooShort
  <2>3. CASE CheckSize(i)
    <3>1. CASE Leave(i, "failed") /\ file' = file
      BY <3>1, LeaveType
    <3>2. SizeOf[file[i]] \in Nat
      BY SizeTypes DEF InstallTypeOK
    <3>3. CASE size' = [size EXCEPT ![i] = SizeOf[file[i]]]
      /\ pc[i] = "size" /\ (Goto(i, "create") \/ Goto(i, "put"))
      /\ UNCHANGED <<object, file, chunk, sb, parts>>
      BY <3>2, <3>3 DEF InstallTypeOK
    <3>. QED BY <2>3, <3>1, <3>3 DEF CheckSize
  <2>4. CASE CreateUpload(i)
    BY <2>4 DEF InstallTypeOK, CreateUpload, callVars
  <2>5. CASE CreateUploadFails(i)
    BY <2>5, LeaveType DEF CreateUploadFails
  <2>6. CASE UploadPart(i)
    <3>. DEFINE part == NextPart(i)
    <3>1. part \in Parts /\ Len(parts[i]) + 1 <= MaxParts
      <4>1. part.of = file[i] /\ part.first = Len(parts[i]) * chunk[i]
        BY DEF NextPart, Part
      <4>2. part = [of |-> part.of, first |-> part.first, length |-> part.length]
        BY DEF NextPart, Part
      <4>3. part.length \in Nat /\ Len(parts[i]) + 1 <= MaxParts
        BY <2>6, SizesAssumption DEF UploadPart, PartAllowed
      <4>4. Len(parts[i]) * chunk[i] \in Nat
        <5>1. Len(parts[i]) \in Nat /\ chunk[i] \in Nat
          BY DEF InstallTypeOK
        <5>. QED BY <5>1, SMTT(30)
      <4>5. file[i] \in Archives
        BY DEF InstallTypeOK
      <4>. HIDE DEF part
      <4>. QED BY <4>1, <4>2, <4>3, <4>4, <4>5 DEF Parts
    <3>2. parts' = [parts EXCEPT ![i] = Append(parts[i], part)] /\ pc[i] = "part"
          /\ UNCHANGED <<object, file, pc, chunk, sb, size>>
      BY <2>6 DEF UploadPart
    <3>. HIDE DEF part
    <3>3. parts[i] \in Seq(Parts) /\ Len(parts[i]) \in 0 .. MaxParts
      BY DEF InstallTypeOK
    <3>4. Append(parts[i], part) \in Seq(Parts)
          /\ Len(Append(parts[i], part)) \in 0 .. MaxParts
      BY <3>1, <3>3, SizeTypes
    <3>. QED BY <3>2, <3>4 DEF InstallTypeOK
  <2>7. CASE UploadPartFails(i)
    BY <2>7, LeaveType DEF UploadPartFails
  <2>8. CASE CompleteUpload(i)
    BY <2>8, LeaveType DEF CompleteUpload
  <2>9. CASE CompleteUploadFails(i)
    BY <2>9, LeaveType DEF CompleteUploadFails
  <2>10. CASE PutObject(i)
    BY <2>10, LeaveType DEF PutObject
  <2>11. CASE PutObjectFails(i)
    BY <2>11, LeaveType DEF PutObjectFails
  <2>. QED BY <1>3, <2>1, <2>2, <2>3, <2>4, <2>5, <2>6, <2>7, <2>8, <2>9, <2>10, <2>11
       DEF InstallStep
<1>4. ASSUME NEW i \in Installer, Crash(i) PROVE InstallTypeOK'
  BY <1>4, LeaveType DEF Crash
<1>5. ASSUME NEW i \in Installer, NEW a \in Archives, Rebuild(i, a) PROVE InstallTypeOK'
  BY <1>5 DEF InstallTypeOK, Rebuild, callVars
<1>. QED BY <1>1, <1>2, <1>3, <1>4, <1>5 DEF Next

\* Every reachable state is well typed: no upload has more than MaxParts parts, and a
\* command that ended has kept nothing.
THEOREM InstallTypeCorrect == Spec => []InstallTypeOK
<1>1. Init => InstallTypeOK
  BY SizeTypes DEF Init, InstallTypeOK, Labels, Ended
<1>2. InstallTypeOK /\ [Next]_vars => InstallTypeOK'
  BY InstallTypeStep
<1>. QED BY <1>1, <1>2, PTL DEF Spec

---------------------------------------------------------------------------
(* The object is whole *)

LEMMA Terminals ==
  /\ Ended \cap {"superblock", "size", "create", "part", "put"} = {}
  /\ \A l \in Ended : l # "part" /\ l # "size" /\ l # "create" /\ l # "put"
BY DEF Ended

\* The calls that a step of installer i leaves alone stay sound.
LEMMA OthersSound ==
  ASSUME NEW j \in Installer, CallSound(j),
         file'[j] = file[j], pc'[j] = pc[j], chunk'[j] = chunk[j], sb'[j] = sb[j],
         size'[j] = size[j], parts'[j] = parts[j]
  PROVE  CallSound(j)'
BY DEF CallSound

\* A command that leaves has no call to be sound about.
LEMMA LeaveSound ==
  ASSUME InstallTypeOK, NEW i \in Installer, NEW outcome \in Ended, Leave(i, outcome),
         file' = file, \A j \in Installer : CallSound(j)
  PROVE  \A j \in Installer : CallSound(j)'
<1>1. ASSUME NEW j \in Installer, j # i PROVE CallSound(j)'
  <2>1. pc'[j] = pc[j] /\ chunk'[j] = chunk[j] /\ sb'[j] = sb[j] /\ size'[j] = size[j]
        /\ parts'[j] = parts[j]
    BY <1>1 DEF Leave, Goto, InstallTypeOK
  <2>. QED BY <2>1, OthersSound
<1>2. CallSound(i)'
  <2>1. pc'[i] = outcome /\ chunk'[i] = MinPart /\ parts'[i] = << >>
    BY DEF Leave, Goto, InstallTypeOK
  <2>. QED BY <2>1, Terminals, SizeTypes DEF CallSound
<1>. QED BY <1>1, <1>2

\* The parts of an upload that is about to be completed cover the archive.
LEMMA UploadTiles ==
  ASSUME InstallTypeOK, NEW i \in Installer, CallSound(i), pc[i] = "part", ~MoreParts(i)
  PROVE  Tiles(parts[i], file[i])
<1>. DEFINE n == size[i]
            c == chunk[i]
            m == PartCount(n, c)
            ps == parts[i]
<1>1. n = SizeOf[file[i]] /\ n > c /\ n \in Nat /\ c \in Nat \ {0}
  BY SizesAssumption DEF CallSound, InstallTypeOK, Multipart
<1>2. m \in Nat /\ m >= 1
  BY <1>1, PartsCover
<1>3. Len(ps) = m
  BY <1>2 DEF CallSound, MoreParts, InstallTypeOK
<1>4. \A k \in 1 .. m : ps[k] = Part(file[i], n, c, k - 1)
  BY <1>3 DEF CallSound
<1>. HIDE DEF n, c, m, ps
<1>5. ps[1].first = 0
  <2>1. Part(file[i], n, c, 0).first = 0 * c
    BY DEF Part
  <2>. QED BY <1>1, <1>2, <1>4, <2>1
<1>6. ASSUME NEW k \in 1 .. m
      PROVE  /\ ps[k].of = file[i] /\ ps[k].length > 0
             /\ PartEnd(ps[k]) = IF k = m THEN SizeOf[file[i]] ELSE ps[k + 1].first
  <2>1. k - 1 \in Nat /\ k - 1 < m
    BY <1>2
  <2>2. /\ ps[k].of = file[i] /\ ps[k].length \in 1 .. c
        /\ PartEnd(ps[k]) = IF k - 1 = m - 1 THEN n ELSE (k - 1 + 1) * c
    BY <1>1, <1>4, <2>1, PartFacts DEF m
  <2>3. CASE k = m
    BY <1>1, <1>2, <2>2, <2>3
  <2>4. CASE k # m
    <3>1. k + 1 \in 1 .. m /\ (k + 1) - 1 = k /\ k \in Nat /\ k - 1 + 1 = k /\ k - 1 # m - 1
      BY <1>2, <2>4
    <3>2. ps[k + 1] = Part(file[i], n, c, k)
      BY <1>4, <3>1
    <3>3. ps[k + 1].first = k * c
      BY <3>2 DEF Part
    <3>. QED BY <1>1, <2>2, <2>4, <3>1, <3>3
  <2>. QED BY <2>3, <2>4
<1>. QED BY <1>2, <1>3, <1>5, <1>6 DEF Tiles, ps

\* A chunk size above the largest part stops the upload at its first part.
LEMMA FirstPartRefused ==
  ASSUME InstallTypeOK, NEW i \in Installer, CallSound(i), pc[i] = "part",
         MoreParts(i), PartAllowed(NextPart(i), Len(parts[i]) + 1)
  PROVE  chunk[i] <= MaxPart
<1>. SUFFICES ASSUME chunk[i] > MaxPart PROVE FALSE
  BY SizesAssumption DEF InstallTypeOK
<1>. DEFINE n == size[i]
            c == chunk[i]
            m == PartCount(n, c)
<1>1. n > c /\ n \in Nat /\ c \in Nat \ {0} /\ MaxPart \in Nat
  BY SizesAssumption DEF CallSound, InstallTypeOK, Multipart
<1>2. m \in Nat /\ m >= 1 /\ LastChunk(n, c) <= c /\ LastChunk(n, c) \in Nat
      /\ (m - 1) * c + LastChunk(n, c) = n
  BY <1>1, PartsCover
<1>3. m # 1
  BY <1>1, <1>2
<1>4. NextPart(i) = Part(file[i], n, c, 0) /\ 0 # m - 1
  <2>1. Len(parts[i]) = 0
    BY DEF CallSound
  <2>. QED BY <1>2, <1>3, <2>1 DEF NextPart
<1>5. NextPart(i).length = c
  BY <1>1, <1>2, <1>4, PartFacts
<1>. QED BY <1>1, <1>5 DEF PartAllowed

LEMMA InstallStepSound ==
  ASSUME RebuildAnytime = FALSE, InstallTypeOK, InstallInvariant, [Next]_vars
  PROVE  InstallInvariant'
<1>1. \A j \in Installer : CallSound(j)
  BY DEF InstallInvariant
<1>2. ObjectWhole
  BY DEF InstallInvariant
<1>3. ASSUME object' = object PROVE ObjectWhole'
  BY <1>2, <1>3 DEF ObjectWhole, Tiles
<1>4. CASE UNCHANGED vars
  BY <1>1, <1>3, <1>4, OthersSound DEF vars, callVars, InstallInvariant
<1>5. ASSUME NEW i \in Installer, NEW env \in EnvChunks, Start(i, env)
      PROVE  InstallInvariant'
  <2>1. CallSound(i)'
    <3>1. pc'[i] = "superblock" /\ chunk'[i] = ChunkSize(env) /\ parts'[i] = << >>
      <4>1. parts[i] = << >>
        BY <1>1, <1>5, Terminals DEF CallSound, Start
      <4>. QED BY <1>5, <4>1 DEF Start, Goto, InstallTypeOK
    <3>. QED BY <3>1, SizeTypes DEF CallSound
  <2>2. ASSUME NEW j \in Installer, j # i PROVE CallSound(j)'
    BY <1>1, <1>5, <2>2, OthersSound DEF Start, Goto, InstallTypeOK
  <2>. QED BY <1>3, <1>5, <2>1, <2>2 DEF InstallInvariant, Start
<1>6. ASSUME NEW i \in Installer, NEW outcome \in Ended, Leave(i, outcome),
             UNCHANGED <<object, file>>
      PROVE  InstallInvariant'
  BY <1>1, <1>3, <1>6, LeaveSound DEF InstallInvariant
<1>7. ASSUME NEW i \in Installer, InstallStep(i)
      PROVE  InstallInvariant'
  <2>1. CASE ReadSuperblock(i)
    <3>1. CallSound(i)'
      <4>1. pc'[i] = "size" /\ sb'[i] = file[i] /\ file' = file /\ chunk' = chunk
            /\ parts' = parts /\ pc[i] = "superblock" /\ SizeOf[file[i]] >= SuperblockSize
        BY <2>1 DEF ReadSuperblock, Goto, InstallTypeOK
      <4>. QED BY <1>1, <4>1 DEF CallSound
    <3>2. ASSUME NEW j \in Installer, j # i PROVE CallSound(j)'
      BY <1>1, <2>1, <3>2, OthersSound DEF ReadSuperblock, Goto, InstallTypeOK
    <3>. QED BY <1>3, <2>1, <3>1, <3>2 DEF InstallInvariant, ReadSuperblock
  <2>2. CASE FileTooShort(i)
    BY <1>6, <2>2, Terminals DEF FileTooShort, Ended
  <2>3. CASE CheckSize(i)
    <3>. DEFINE n == SizeOf[file[i]]
    <3>1. CASE Leave(i, "failed")
      BY <1>6, <2>3, <3>1 DEF CheckSize, Ended
    <3>2. ASSUME NEW label \in {"create", "put"}, Goto(i, label),
                 label = "create" => Multipart(n, chunk[i]),
                 size' = [size EXCEPT ![i] = n], UNCHANGED <<chunk, sb, parts>>
          PROVE  InstallInvariant'
      <4>1. pc[i] = "size" /\ UNCHANGED <<object, file>>
        BY <2>3 DEF CheckSize
      <4>2. CallSound(i)'
        <5>1. pc'[i] = label /\ size'[i] = n
          BY <3>2 DEF Goto, InstallTypeOK
        <5>2. /\ sb[i] = file[i] /\ parts[i] = << >> /\ chunk[i] >= MinPart
              /\ SizeOf[file[i]] >= SuperblockSize
          BY <1>1, <4>1 DEF CallSound
        <5>3. label # "part" /\ label # "size"
          OBVIOUS
        <5>. QED BY <3>2, <4>1, <5>1, <5>2, <5>3 DEF CallSound, Multipart
      <4>3. ASSUME NEW j \in Installer, j # i PROVE CallSound(j)'
        BY <1>1, <3>2, <4>1, <4>3, OthersSound DEF Goto, InstallTypeOK
      <4>. QED BY <1>3, <4>1, <4>2, <4>3 DEF InstallInvariant
    <3>. QED BY <2>3, <3>1, <3>2 DEF CheckSize
  <2>4. CASE CreateUpload(i)
    <3>1. CallSound(i)'
      <4>1. pc'[i] = "part" /\ pc[i] = "create" /\ UNCHANGED <<file, chunk, sb, size, parts>>
        BY <2>4 DEF CreateUpload, Goto, InstallTypeOK, callVars
      <4>2. /\ sb[i] = file[i] /\ parts[i] = << >> /\ chunk[i] >= MinPart
            /\ SizeOf[file[i]] >= SuperblockSize
            /\ size[i] = SizeOf[file[i]] /\ Multipart(size[i], chunk[i])
        BY <1>1, <4>1 DEF CallSound
      <4>3. PartCount(size[i], chunk[i]) \in Nat
        BY <4>2, PartsCover, SizesAssumption DEF Multipart, InstallTypeOK
      <4>4. Len(parts[i]) = 0
        BY <4>2
      <4>. QED BY <4>1, <4>2, <4>3, <4>4 DEF CallSound, Multipart
    <3>2. ASSUME NEW j \in Installer, j # i PROVE CallSound(j)'
      BY <1>1, <2>4, <3>2, OthersSound DEF CreateUpload, Goto, InstallTypeOK, callVars
    <3>. QED BY <1>3, <2>4, <3>1, <3>2 DEF InstallInvariant, CreateUpload
  <2>5. CASE CreateUploadFails(i)
    BY <1>6, <2>5 DEF CreateUploadFails, Ended
  <2>6. CASE UploadPart(i)
    <3>. DEFINE part == NextPart(i)
    <3>1. /\ pc[i] = "part" /\ UNCHANGED <<object, file, pc, chunk, sb, size>>
          /\ parts' = [parts EXCEPT ![i] = Append(parts[i], part)]
          /\ Len(parts[i]) < PartCount(size[i], chunk[i])
      BY <2>6 DEF UploadPart, MoreParts
    <3>2. part = Part(file[i], size[i], chunk[i], Len(parts[i]))
      BY DEF NextPart
    <3>. HIDE DEF part
    <3>3. parts[i] \in Seq(Parts)
      BY DEF InstallTypeOK
    <3>4. PartCount(size[i], chunk[i]) \in Nat
      BY <1>1, <3>1, PartsCover, SizesAssumption DEF Multipart, InstallTypeOK, CallSound
    <3>5. CallSound(i)'
      <4>1. /\ parts'[i] = Append(parts[i], part)
            /\ Len(parts'[i]) = Len(parts[i]) + 1 /\ Len(parts[i]) \in Nat
            /\ parts'[i][Len(parts[i]) + 1] = part
            /\ \A k \in 1 .. Len(parts[i]) : parts'[i][k] = parts[i][k]
        BY <3>1, <3>3 DEF InstallTypeOK
      <4>2. Len(parts'[i]) <= PartCount(size[i], chunk[i])
        BY <3>1, <3>4, <4>1
      <4>3. ASSUME NEW k \in 1 .. Len(parts'[i])
            PROVE  parts'[i][k] = Part(file[i], size[i], chunk[i], k - 1)
        <5>1. CASE k = Len(parts[i]) + 1
          BY <3>2, <4>1, <5>1
        <5>2. CASE k # Len(parts[i]) + 1
          BY <1>1, <3>1, <4>1, <5>2 DEF CallSound
        <5>. QED BY <5>1, <5>2
      <4>4. /\ chunk[i] >= MinPart /\ sb[i] = file[i] /\ size[i] = SizeOf[file[i]]
            /\ SizeOf[file[i]] >= SuperblockSize
            /\ Multipart(size[i], chunk[i])
        BY <1>1, <3>1 DEF CallSound
      <4>5. pc'[i] = "part" /\ file'[i] = file[i] /\ chunk'[i] = chunk[i]
            /\ sb'[i] = sb[i] /\ size'[i] = size[i]
        BY <3>1
      <4>6. chunk[i] <= MaxPart
        BY <1>1, <2>6, FirstPartRefused DEF UploadPart
      <4>7. chunk[i] > MaxPart => parts'[i] = << >>
        BY <4>4, <4>6, SizesAssumption DEF InstallTypeOK
      <4>. QED BY <4>2, <4>3, <4>4, <4>5, <4>7
           DEF CallSound, Multipart, PartCount, Part, LastChunk
    <3>6. ASSUME NEW j \in Installer, j # i PROVE CallSound(j)'
      BY <1>1, <3>1, <3>6, OthersSound DEF InstallTypeOK
    <3>. QED BY <1>3, <3>1, <3>5, <3>6 DEF InstallInvariant
  <2>7. CASE UploadPartFails(i)
    BY <1>6, <2>7, Terminals DEF UploadPartFails, Ended
  <2>8. CASE CompleteUpload(i)
    <3>1. PICK outcome \in Ended : Leave(i, outcome)
      BY <2>8 DEF CompleteUpload, Ended
    <3>2. file' = file /\ pc[i] = "part" /\ ~MoreParts(i)
          /\ object' = [sb |-> sb[i], parts |-> parts[i]]
      BY <2>8 DEF CompleteUpload
    <3>3. Tiles(parts[i], file[i]) /\ sb[i] = file[i] /\ file[i] \in Archives
      BY <1>1, <3>2, UploadTiles DEF CallSound, InstallTypeOK
    <3>4. ObjectWhole'
      BY <3>2, <3>3 DEF ObjectWhole, Tiles
    <3>. QED BY <1>1, <3>1, <3>2, <3>4, LeaveSound DEF InstallInvariant
  <2>9. CASE CompleteUploadFails(i)
    BY <1>6, <2>9 DEF CompleteUploadFails, Ended
  <2>10. CASE PutObject(i)
    <3>1. PICK outcome \in Ended : Leave(i, outcome)
      BY <2>10 DEF PutObject, Ended
    <3>2. file' = file /\ pc[i] = "put"
          /\ object' = [sb |-> sb[i], parts |-> <<WholeFile(file[i])>>]
      BY <2>10 DEF PutObject
    <3>3. Tiles(<<WholeFile(file[i])>>, file[i])
      <4>. DEFINE ps == <<WholeFile(file[i])>>
      <4>1. SizeOf[file[i]] \in Nat /\ SizeOf[file[i]] > 0
        BY <1>1, <3>2, SizesAssumption DEF CallSound, InstallTypeOK
      <4>2. Len(ps) = 1 /\ ps[1] = WholeFile(file[i])
        OBVIOUS
      <4>. HIDE DEF ps
      <4>3. Tiles(ps, file[i])
        BY <4>1, <4>2 DEF Tiles, WholeFile, PartEnd
      <4>. QED BY <4>3 DEF ps
    <3>4. sb[i] = file[i] /\ file[i] \in Archives
      BY <1>1, <3>2 DEF CallSound, InstallTypeOK
    <3>5. ObjectWhole'
      BY <3>2, <3>3, <3>4 DEF ObjectWhole, Tiles
    <3>. QED BY <1>1, <3>1, <3>2, <3>5, LeaveSound DEF InstallInvariant
  <2>11. CASE PutObjectFails(i)
    BY <1>6, <2>11 DEF PutObjectFails, Ended
  <2>. QED BY <1>7, <2>1, <2>2, <2>3, <2>4, <2>5, <2>6, <2>7, <2>8, <2>9, <2>10, <2>11
       DEF InstallStep
<1>8. ASSUME NEW i \in Installer, Crash(i) PROVE InstallInvariant'
  BY <1>6, <1>8 DEF Crash, Ended
<1>9. ASSUME NEW i \in Installer, NEW a \in Archives, Rebuild(i, a)
      PROVE  InstallInvariant'
  <2>1. pc[i] \in Ended /\ UNCHANGED <<object, pc, chunk, sb, size, parts>>
    BY <1>9 DEF Rebuild, callVars
  <2>2. CallSound(i)'
    BY <1>1, <2>1, Terminals DEF CallSound
  <2>3. ASSUME NEW j \in Installer, j # i PROVE CallSound(j)'
    BY <1>1, <1>9, <2>1, <2>3, OthersSound DEF Rebuild, InstallTypeOK
  <2>. QED BY <1>3, <2>1, <2>2, <2>3 DEF InstallInvariant
<1>. QED BY <1>4, <1>5, <1>7, <1>8, <1>9 DEF Next

\* If the archive file is left alone while it is installed, the object under the key is
\* at all times one whole archive with its own superblock.
THEOREM ObjectIsWhole ==
  ASSUME RebuildAnytime = FALSE
  PROVE  Spec => []ObjectWhole
<1>1. Init => InstallInvariant
  BY SizeTypes DEF Init, InstallInvariant, CallSound, ObjectWhole
<1>2. InstallTypeOK /\ InstallInvariant /\ [Next]_vars => InstallInvariant'
  BY InstallStepSound
<1>3. InstallInvariant => ObjectWhole
  BY DEF InstallInvariant
<1>. QED BY <1>1, <1>2, <1>3, InstallTypeCorrect, PTL DEF Spec

---------------------------------------------------------------------------
(* What S3 refuses of an upload *)

LEMMA SoundIsLegal ==
  ASSUME InstallTypeOK, InstallInvariant
  PROVE  PartsLegal
<1>. SUFFICES ASSUME NEW i \in Installer, pc[i] = "part"
     PROVE IF MoreParts(i)
             THEN /\ Readable(NextPart(i))
                  /\ PartAllowed(NextPart(i), Len(parts[i]) + 1) <=> chunk[i] <= MaxPart
             ELSE UploadAllowed(parts[i]) <=> size[i] <= MaxObject
  BY DEF PartsLegal
<1>. DEFINE n == size[i]
            c == chunk[i]
            m == PartCount(n, c)
<1>1. /\ n = SizeOf[file[i]] /\ n > c /\ (n \div c) + 1 <= MaxParts
      /\ Len(parts[i]) <= m
      /\ \A k \in 1 .. Len(parts[i]) : parts[i][k] = Part(file[i], n, c, k - 1)
  BY DEF InstallInvariant, CallSound, Multipart
<1>2. n \in Nat /\ c \in Nat \ {0} /\ c >= MinPart
  BY SizesAssumption DEF InstallTypeOK, InstallInvariant, CallSound
<1>3. m \in Nat /\ m >= 1 /\ m <= (n \div c) + 1 /\ n \div c \in Nat
  BY <1>1, <1>2, PartsCover, Division
<1>4. /\ Len(parts[i]) \in Nat /\ MaxParts \in Nat /\ MaxPart \in Nat /\ MinPart \in Nat
      /\ MaxObject \in Nat
  BY SizesAssumption DEF InstallTypeOK
<1>5. m <= MaxParts
  BY <1>1, <1>3, <1>4
<1>6. MoreParts(i) <=> Len(parts[i]) < m
  BY DEF MoreParts
<1>7. NextPart(i) = Part(file[i], n, c, Len(parts[i]))
  BY DEF NextPart
<1>8. MoreParts(i) /\ PartAllowed(NextPart(i), Len(parts[i]) + 1) => c <= MaxPart
  BY FirstPartRefused DEF InstallInvariant
<1>9. ~MoreParts(i) => Tiles(parts[i], file[i])
  BY UploadTiles DEF InstallInvariant
<1>. HIDE DEF n, c, m
<1>10. CASE MoreParts(i)
  <2>. DEFINE part == NextPart(i)
  <2>1. part.of = file[i] /\ part.length \in 1 .. c /\ PartEnd(part) <= n
    BY <1>1, <1>2, <1>4, <1>6, <1>7, <1>10, PartFacts DEF m
  <2>2. Readable(part)
    BY <1>1, <2>1 DEF Readable
  <2>3. c <= MaxPart => PartAllowed(part, Len(parts[i]) + 1)
    BY <1>2, <1>3, <1>4, <1>5, <1>6, <1>10, <2>1 DEF PartAllowed
  <2>. QED BY <1>8, <1>10, <2>2, <2>3 DEF c
<1>11. CASE ~MoreParts(i)
  <2>1. Len(parts[i]) = m
    BY <1>1, <1>3, <1>4, <1>6, <1>11
  <2>2. ASSUME NEW k \in 1 .. Len(parts[i]) - 1 PROVE parts[i][k].length >= MinPart
    <3>1. k - 1 \in Nat /\ k - 1 < m /\ k - 1 # m - 1 /\ k \in 1 .. Len(parts[i])
      BY <1>3, <2>1
    <3>2. parts[i][k].length = c
      BY <1>1, <1>2, <3>1, PartFacts DEF m
    <3>. QED BY <1>2, <3>2
  <2>3. PartEnd(parts[i][Len(parts[i])]) = n
    <3>1. Len(parts[i]) \in 1 .. Len(parts[i])
      BY <1>3, <2>1
    <3>2. \A k \in 1 .. Len(parts[i]) :
            PartEnd(parts[i][k]) = IF k = Len(parts[i]) THEN SizeOf[file[i]]
                                                        ELSE parts[i][k + 1].first
      BY <1>9, <1>11, Zenon DEF Tiles
    <3>. QED BY <1>1, <3>1, <3>2
  <2>. QED BY <1>11, <2>2, <2>3 DEF UploadAllowed, n
<1>. QED BY <1>10, <1>11

\* Whatever the size of the archive and the chunk size asked for, S3 refuses a part of an
\* upload only for a chunk size above its largest part, and a whole upload only for an
\* archive above its largest object.
THEOREM PartsAreLegal ==
  ASSUME RebuildAnytime = FALSE
  PROVE  Spec => []PartsLegal
<1>1. Init => InstallInvariant
  BY SizeTypes DEF Init, InstallInvariant, CallSound, ObjectWhole
<1>2. InstallTypeOK /\ InstallInvariant /\ [Next]_vars => InstallInvariant'
  BY InstallStepSound
<1>3. InstallTypeOK /\ InstallInvariant => PartsLegal
  BY SoundIsLegal
<1>. QED BY <1>1, <1>2, <1>3, InstallTypeCorrect, PTL DEF Spec
===========================================================================
