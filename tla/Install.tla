------------------------------ MODULE Install ------------------------------
(***************************************************************************)
(* Putting an archive on S3: intall_archivefs of repo.rs and upload_object *)
(* of transfer.rs, run by any number of hosts on one bucket and key, each  *)
(* with an archive file of its own that is rebuilt from time to time.      *)
(*                                                                         *)
(* The archive's bytes are not modelled: a part of an upload is the        *)
(* version it was read from, the offset it was read at and its length.     *)
(* S3 is external: it assembles the parts in the order of their numbers    *)
(* when the upload is completed, and the object changes at that moment     *)
(* only.  Sizes are small multiples of an arbitrary unit.                  *)
(***************************************************************************)
EXTENDS Integers, Sequences

CONSTANTS
  Installer,       \* the hosts that run s3archivefs install
  Archives,        \* the versions of the archive file
  SizeOf,          \* SizeOf[a]: the size of version a
  EnvChunks,       \* values of S3ARCHIVEFS_MPU_CHUNK_SIZE; unset or no number is 0
  SuperblockSize,
  MinPart, MaxPart, MaxParts,  \* S3_MIN_CHUNK_SIZE, S3_MAX_CHUNK_SIZE, S3_MAX_CHUNKS
  MaxObject,       \* the largest object S3 takes: 5 TiB, a tenth of MaxPart * MaxParts
  RebuildAnytime,  \* may an archive file be rebuilt while it is installed
  Faults,          \* what may fail: "create", "part", "complete", "put", "reply", "crash"
  NoArchive, NoObject

ASSUME SizesAssumption ==
  /\ SizeOf \in [Archives -> Nat]
  /\ EnvChunks \subseteq Nat
  /\ SuperblockSize \in Nat \ {0}
  /\ MinPart \in Nat \ {0} /\ MaxParts \in Nat \ {0} /\ MaxPart \in Nat /\ MinPart <= MaxPart
  /\ MaxObject \in Nat /\ MaxPart <= MaxObject

ASSUME InstallAssumption ==
  /\ RebuildAnytime \in BOOLEAN
  /\ NoArchive \notin Archives

VARIABLES
  object,  \* the object under the key: its superblock metadata and its parts
  file,    \* file[i]: the version in i's archive file
  pc,      \* pc[i]: where i is in the code
  chunk,   \* chunk[i]: chunk_size of the upload
  sb,      \* sb[i]: the version whose superblock goes into the metadata
  size,    \* size[i]: file_size, read once
  parts    \* parts[i]: upload_parts, with what was sent for each

callVars == <<chunk, sb, size, parts>>
vars == <<object, file, pc, callVars>>

Ended == {"idle", "installed", "failed", "panicked"}
Labels == Ended \cup {"superblock", "size", "create", "part", "put"}

Init ==
  /\ object = NoObject
  /\ file \in [Installer -> Archives]
  /\ pc = [i \in Installer |-> "idle"]
  /\ chunk = [i \in Installer |-> MinPart]
  /\ sb = [i \in Installer |-> NoArchive]
  /\ size = [i \in Installer |-> 0]
  /\ parts = [i \in Installer |-> << >>]

Goto(i, label) == pc' = [pc EXCEPT ![i] = label]

\* The command ends, and its memory with it.
LeaveKeeping(i, outcome) ==   \* seeded fault: the parts of a failed upload are kept
  /\ Goto(i, outcome)
  /\ chunk' = [chunk EXCEPT ![i] = MinPart]
  /\ sb' = [sb EXCEPT ![i] = NoArchive]
  /\ size' = [size EXCEPT ![i] = 0]
  /\ UNCHANGED parts
Leave(i, outcome) ==
  /\ Goto(i, outcome)
  /\ chunk' = [chunk EXCEPT ![i] = MinPart]
  /\ sb' = [sb EXCEPT ![i] = NoArchive]
  /\ size' = [size EXCEPT ![i] = 0]
  /\ parts' = [parts EXCEPT ![i] = << >>]

---------------------------------------------------------------------------
(* intall_archivefs *)

\* The chunk size: that of the environment if it is above S3's minimum.
ChunkSizeUnchecked(env) == IF env > 0 THEN env ELSE MinPart   \* seeded fault: no minimum
ChunkSize(env) == IF env > MinPart THEN env ELSE MinPart

Start(i, env) ==
  /\ pc[i] \in Ended
  /\ Goto(i, "superblock")
  /\ chunk' = [chunk EXCEPT ![i] = ChunkSize(env)]
  /\ UNCHANGED <<object, file, sb, size, parts>>

\* The superblock is read from the file, which is not kept open.
ReadSuperblock(i) ==
  /\ pc[i] = "superblock"
  /\ SizeOf[file[i]] >= SuperblockSize
  /\ sb' = [sb EXCEPT ![i] = file[i]]
  /\ Goto(i, "size")
  /\ UNCHANGED <<object, file, chunk, size, parts>>

FileTooShort(i) ==
  /\ pc[i] = "superblock"
  /\ SizeOf[file[i]] < SuperblockSize
  /\ Leave(i, "failed")
  /\ UNCHANGED <<object, file>>

---------------------------------------------------------------------------
(* upload_object *)

\* In several parts if the file is larger than a chunk, and not in too many; the limits
\* are those of the code.
Multipart(n, c) == n > c /\ (n \div c) + 1 <= MaxParts /\ n <= MaxPart * MaxParts
SinglePut(n, c) == n > 0 /\ n <= c /\ n <= MaxPart /\ n <= MaxPart * MaxParts

CheckSize(i) ==
  /\ pc[i] = "size"
  /\ LET n == SizeOf[file[i]] IN
       \/ /\ Multipart(n, chunk[i])
          /\ size' = [size EXCEPT ![i] = n]
          /\ Goto(i, "create")
          /\ UNCHANGED <<chunk, sb, parts>>
       \/ /\ SinglePut(n, chunk[i])
          /\ size' = [size EXCEPT ![i] = n]
          /\ Goto(i, "put")
          /\ UNCHANGED <<chunk, sb, parts>>
       \/ /\ ~Multipart(n, chunk[i]) /\ ~SinglePut(n, chunk[i])
          /\ Leave(i, "failed")
  /\ UNCHANGED <<object, file>>

---------------------------------------------------------------------------
(* multipart_upload_object *)

CreateUpload(i) ==
  /\ pc[i] = "create"
  /\ Goto(i, "part")
  /\ UNCHANGED <<object, file, callVars>>

CreateUploadFails(i) ==
  /\ "create" \in Faults
  /\ pc[i] = "create"
  /\ Leave(i, "panicked")
  /\ UNCHANGED <<object, file>>

\* chunk_count and size_of_last_chunk: the last chunk is a whole one if the size is a
\* multiple of the chunk size.
PartCountShort(n, c) == n \div c   \* seeded fault: the rest of the file is forgotten
PartCount(n, c) == IF n % c = 0 THEN n \div c ELSE (n \div c) + 1
LastChunk(n, c) == IF n % c = 0 THEN c ELSE n % c

Parts == [of : Archives, first : Nat, length : Nat]
PartEnd(part) == part.first + part.length

\* The part with the index k, counted from 0.
Part(a, n, c, k) ==
  [of |-> a, first |-> k * c,
   length |-> IF k = PartCount(n, c) - 1 THEN LastChunk(n, c) ELSE c]

NextPart(i) == Part(file[i], size[i], chunk[i], Len(parts[i]))
MoreParts(i) == Len(parts[i]) < PartCount(size[i], chunk[i])

\* What can be read from the file as it is now, and what S3 takes.
Readable(part) == PartEnd(part) <= SizeOf[part.of]
PartAllowed(part, number) == number <= MaxParts /\ part.length \in 1 .. MaxPart
UploadAllowed(ps) ==
  /\ \A k \in 1 .. Len(ps) - 1 : ps[k].length >= MinPart
  /\ PartEnd(ps[Len(ps)]) <= MaxObject   \* the parts follow each other without a gap

\* One turn of the loop.
UploadPart(i) ==
  /\ pc[i] = "part" /\ MoreParts(i)
  /\ Readable(NextPart(i)) /\ PartAllowed(NextPart(i), Len(parts[i]) + 1)
  /\ parts' = [parts EXCEPT ![i] = Append(@, NextPart(i))]
  /\ UNCHANGED <<object, file, pc, chunk, sb, size>>

\* A part that cannot be read, or that gets no answer, is a panic; one that S3 refuses is
\* an error.  The upload is left as it is, neither completed nor aborted.
UploadPartFails(i) ==
  /\ pc[i] = "part" /\ MoreParts(i)
  /\ \/ "part" \in Faults
     \/ ~Readable(NextPart(i))
     \/ ~PartAllowed(NextPart(i), Len(parts[i]) + 1)
  /\ \E outcome \in {"failed", "panicked"} : Leave(i, outcome)
  /\ UNCHANGED <<object, file>>

\* S3 puts the parts together; the answer may be lost.
CompleteUploadAgain(i) ==   \* seeded fault: without an answer, the whole upload again
  /\ pc[i] = "part" /\ ~MoreParts(i)
  /\ UploadAllowed(parts[i])
  /\ object' = [sb |-> sb[i], parts |-> parts[i]]
  /\ \/ Leave(i, "installed")
     \/ /\ "reply" \in Faults
        /\ parts' = [parts EXCEPT ![i] = << >>]
        /\ UNCHANGED <<pc, chunk, sb, size>>
  /\ UNCHANGED file
CompleteUpload(i) ==
  /\ pc[i] = "part" /\ ~MoreParts(i)
  /\ UploadAllowed(parts[i])
  /\ object' = [sb |-> sb[i], parts |-> parts[i]]
  /\ Leave(i, "installed") \/ ("reply" \in Faults /\ Leave(i, "panicked"))
  /\ UNCHANGED file

CompleteUploadFails(i) ==
  /\ pc[i] = "part" /\ ~MoreParts(i)
  /\ "complete" \in Faults \/ ~UploadAllowed(parts[i])
  /\ Leave(i, "panicked")
  /\ UNCHANGED <<object, file>>

---------------------------------------------------------------------------
(* put_object: the file is sent as it is now *)

WholeFile(a) == [of |-> a, first |-> 0, length |-> SizeOf[a]]

PutObject(i) ==
  /\ pc[i] = "put"
  /\ SizeOf[file[i]] <= MaxPart
  /\ object' = [sb |-> sb[i], parts |-> <<WholeFile(file[i])>>]
  /\ Leave(i, "installed") \/ ("reply" \in Faults /\ Leave(i, "failed"))
  /\ UNCHANGED file

PutObjectFails(i) ==
  /\ pc[i] = "put"
  /\ "put" \in Faults \/ SizeOf[file[i]] > MaxPart
  /\ Leave(i, "failed")
  /\ UNCHANGED <<object, file>>

---------------------------------------------------------------------------
(* Around the command *)

Crash(i) ==
  /\ "crash" \in Faults
  /\ pc[i] \notin Ended
  /\ Leave(i, "idle")
  /\ UNCHANGED <<object, file>>

\* mksquashfs writes another archive to the path.
Rebuild(i, a) ==
  /\ RebuildAnytime \/ pc[i] \in Ended
  /\ file' = [file EXCEPT ![i] = a]
  /\ UNCHANGED <<object, pc, callVars>>

InstallStep(i) ==
  \/ ReadSuperblock(i) \/ FileTooShort(i) \/ CheckSize(i)
  \/ CreateUpload(i) \/ CreateUploadFails(i)
  \/ UploadPart(i) \/ UploadPartFails(i)
  \/ CompleteUpload(i) \/ CompleteUploadFails(i)
  \/ PutObject(i) \/ PutObjectFails(i)

Next ==
  \E i \in Installer :
    \/ \E env \in EnvChunks : Start(i, env)
    \/ InstallStep(i)
    \/ Crash(i)
    \/ \E a \in Archives : Rebuild(i, a)

Spec == Init /\ [][Next]_vars

\* The command runs, and S3 answers or the connection breaks.
FairSpec == Spec /\ \A i \in Installer : WF_vars(InstallStep(i))

---------------------------------------------------------------------------
(* Properties *)

\* Every variable has its type, and a command that has ended holds nothing.
InstallTypeOK ==
  /\ file \in [Installer -> Archives]
  /\ pc \in [Installer -> Labels]
  /\ chunk \in [Installer -> Nat]
  /\ sb \in [Installer -> Archives \cup {NoArchive}]
  /\ size \in [Installer -> Nat]
  /\ parts \in [Installer -> Seq(Parts)]
  /\ \A i \in Installer :
       /\ Len(parts[i]) \in 0 .. MaxParts
       /\ pc[i] \in Ended => parts[i] = << >> /\ sb[i] = NoArchive /\ size[i] = 0

\* A sequence of parts that covers one version from its first byte to its last, without a
\* gap, an overlap or an empty part.
Tiles(ps, a) ==
  /\ Len(ps) > 0
  /\ ps[1].first = 0
  /\ \A k \in 1 .. Len(ps) :
       /\ ps[k].of = a /\ ps[k].length > 0
       /\ PartEnd(ps[k]) = IF k = Len(ps) THEN SizeOf[a] ELSE ps[k + 1].first

\* The object under the key is one whole archive with its own superblock, whichever of the
\* installers put it there, and however many others failed, were killed or were at work
\* at the same time.
ObjectWhole ==
  object # NoObject => \E a \in Archives : object.sb = a /\ Tiles(object.parts, a)

\* An upload at work reads within its file, and S3 refuses it for one of two reasons, the
\* two things upload_object does not test: a chunk size above the largest part, where the
\* first part is refused already, and an archive above the largest object, which is refused
\* after all of it was sent.  Any other part, and any other upload, is within S3's limits.
PartsLegal ==
  \A i \in Installer : pc[i] = "part" =>
    IF MoreParts(i)
      THEN /\ Readable(NextPart(i))
           /\ PartAllowed(NextPart(i), Len(parts[i]) + 1) <=> chunk[i] <= MaxPart
      ELSE UploadAllowed(parts[i]) <=> size[i] <= MaxObject

\* An install that was started ends, one way or another.
InstallEnds == \A i \in Installer : pc[i] \notin Ended ~> pc[i] \in Ended

---------------------------------------------------------------------------
(* Why the object is whole *)

\* What an installer at work knows: its superblock is of the archive in the file, the
\* size it has read is the archive's, and the parts sent so far are its first ones.
CallSound(i) ==
  /\ chunk[i] >= MinPart
  /\ pc[i] \in {"size", "create", "part", "put"} =>
       sb[i] = file[i] /\ SizeOf[file[i]] >= SuperblockSize
  /\ pc[i] \in {"create", "part"} =>
       size[i] = SizeOf[file[i]] /\ Multipart(size[i], chunk[i])
  /\ pc[i] = "part" =>
       /\ Len(parts[i]) <= PartCount(size[i], chunk[i])
       /\ \A k \in 1 .. Len(parts[i]) :
            parts[i][k] = Part(file[i], size[i], chunk[i], k - 1)
       /\ chunk[i] > MaxPart => parts[i] = << >>
  /\ pc[i] # "part" => parts[i] = << >>

\* Every upload at work holds a prefix of the parts of one archive, and the object is
\* whole: inductive as long as no archive file is rebuilt while it is installed.
InstallInvariant == ObjectWhole /\ \A i \in Installer : CallSound(i)
============================================================================
