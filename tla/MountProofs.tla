---------------------------- MODULE MountProofs ----------------------------
(***************************************************************************)
(* Theorems about Mount, for every archive, every number of archives that  *)
(* are installed in turn, all requests and all faults.                     *)
(***************************************************************************)
EXTENDS Mount, SequenceTheorems, WellFoundedInduction, TLAPS

---------------------------------------------------------------------------
(* The least of some numbers *)

\* A set of natural numbers that is not empty has a minimum.
LEMMA MinFacts ==
  ASSUME NEW S \in SUBSET Nat, S # {}
  PROVE  Min(S) \in S /\ \A n \in S : Min(S) <= n
<1>. DEFINE R == OpToRel(<, Nat)
<1>1. IsWellFoundedOn(R, Nat)
  BY NatLessThanWellFounded
<1>2. \A x, y \in Nat : y < x => <<y, x>> \in R
  BY DEF OpToRel
<1>. HIDE DEF R
<1>3. \E x \in S : \A y \in S : ~ (<<y, x>> \in R)
  BY <1>1, WFMin
<1>4. PICK x \in S : \A y \in S : ~ (<<y, x>> \in R)
  BY <1>3
<1>5. ASSUME NEW y \in S PROVE x <= y
  <2>1. x \in Nat /\ y \in Nat
    BY <1>4
  <2>2. ~ (y < x)
    BY <1>2, <1>4, <2>1
  <2>. QED BY <2>1, <2>2
<1>. QED BY <1>4, <1>5 DEF Min

---------------------------------------------------------------------------
(* The inductive invariant *)

\* The part of FsTypeOK that is about the file.
FileTypeOK ==
  /\ object \in Versions
  /\ exists \in BOOLEAN
  /\ page \in [Pages -> Versions \cup {Hole, Mixed}] /\ torn \subseteq Pages
  /\ fileSb \in Versions \cup {NoVersion} /\ born \in 0 .. object /\ copied \in 0 .. object

\* Until its metadata is copied the file has the superblock of its maker and nothing else.
MakingOK ==
  /\ pc = "create" => sb \in 1 .. object
  /\ pc = "metacopy" => /\ page = NewFile(sb) /\ torn = {0}
                        /\ sb = fileSb /\ born = fileSb /\ copied = NoVersion

\* A call is where its operation has brought it, and what it has collected is data.
CallOK ==
  /\ pc = "open_op" => req.op = "open"
  /\ pc = "lookup" => req.op \in Ops
  /\ pc \in Ops => req.op = pc
  /\ pc \in {"blocks", "raw"} => req.op = "read"
  /\ pc = "entries" => req.op = "readdir"
  /\ pc \in Ops \cup {"blocks", "raw", "entries"} => req.path \in Paths
  /\ reply \in FsAnswers \cup {NoReply}
  /\ bytes \in Seq(Items)
  /\ pc \notin {"blocks", "raw", "entries"} => bytes = << >>
  /\ pc = "raw" => More

\* A read knows what it is kept from: while it goes on no page comes to be in part.
SpoiltOK == pc \in {"lookup", "read", "blocks", "raw"} /\ req.op = "read" => TornBlocks \subseteq spoilt

\* What a call on a fresh cache has collected is what the archive has there.
CollectedOK ==
  Fresh =>
    /\ pc = "raw" => Holes(Block) = {}
    /\ pc \in {"blocks", "raw"} =>
         /\ Len(bytes) <= req.size
         /\ Len(bytes) > 0 => req.off + Len(bytes) <= Len(Content[req.path])
         /\ \A i \in 1 .. Len(bytes) : \/ bytes[i] = Content[req.path][req.off + i]
                                      \/ Content[req.path][req.off + i] \in spoilt
    /\ pc = "entries" =>
         /\ Len(bytes) <= Len(Content[req.path])
         /\ \A i \in 1 .. Len(bytes) : bytes[i] = Content[req.path][i]

Inv == FsTypeOK /\ MakingOK /\ CallOK /\ SpoiltOK /\ CacheFresh /\ CollectedOK

---------------------------------------------------------------------------
(* What the steps do to the file *)

LEMMA PageFacts ==
  /\ LastPage \in Pages /\ LastPage \in Nat /\ IdPage \in Pages
  /\ MetaPages \subseteq Pages
  /\ \A b \in Blocks : PagesOf(b) \subseteq Pages
BY ArchiveAssumption DEF Pages, MetaPages, PagesOf

\* A page is in its chunk.
LEMMA ChunkFacts ==
  ASSUME NEW g \in Pages
  PROVE  /\ AlignDown(g) \in Nat /\ AlignDown(g) <= g
         /\ ChunkEnd(g) \in Pages /\ g <= ChunkEnd(g)
<1>1. g \in Nat /\ g <= LastPage /\ LastPage \in Nat /\ ChunkPages \in Nat \ {0}
  BY ArchiveAssumption DEF Pages
<1>. DEFINE q == g \div ChunkPages
<1>2. q \in Nat /\ q * ChunkPages <= g /\ g < q * ChunkPages + ChunkPages
  BY <1>1
<1>3. AlignDown(g) = q * ChunkPages /\ q * ChunkPages \in Nat
  BY <1>1, <1>2 DEF AlignDown
<1>. HIDE DEF q
<1>4. AlignDown(g) \in Nat /\ AlignDown(g) <= g /\ g <= AlignDown(g) + ChunkPages - 1
  BY <1>1, <1>2, <1>3
<1>. QED BY <1>1, <1>4 DEF ChunkEnd, Pages

\* A stream of the current version is written to the file, whole or in part.
Streamed ==
  /\ \E done, part : part \subseteq Pages /\ Write(done, part)
  /\ UNCHANGED <<object, exists, born, copied>>
  /\ pc' \notin {"exists", "head", "create", "metacopy"}

LEMMA UpToFacts ==
  ASSUME NEW g, NEW n \in Pages, WriteUpTo(g, n)
  PROVE  \E done, part : part \subseteq Pages /\ Write(done, part)
<1>1. PICK part \in SUBSET {n} : Write(g .. n - 1, part)
  BY DEF WriteUpTo
<1>2. part \subseteq Pages
  BY <1>1
<1>. QED BY <1>1, <1>2

LEMMA NextCases ==
  ASSUME Next
  PROVE  UNCHANGED fileVars \/ Create \/ CopyMeta \/ Install \/ Streamed
<1>. USE DEF fileVars, Return, ReadReturns, End, Goto
<1>1. ASSUME NEW r \in {"mount", "command", "force"}, Start(r) PROVE UNCHANGED fileVars
  BY <1>1 DEF Start
<1>2. ASSUME NEW r \in Requests, Call(r) PROVE UNCHANGED fileVars
  BY <1>2 DEF Call
<1>3. ASSUME NEW n \in Pages, MetaBreaks(n) PROVE Streamed
  <2>1. \E done, part : part \subseteq Pages /\ Write(done, part)
    BY <1>3, UpToFacts DEF MetaBreaks
  <2>. QED BY <1>3, <2>1 DEF MetaBreaks, Streamed
<1>4. StartStep => Create \/ CopyMeta \/ UNCHANGED fileVars \/ Streamed
  BY <1>3 DEF StartStep, CheckExists, GetMetadata, StartFails, Open, OpenFails
<1>5. ASSUME FetchBlock PROVE Streamed
  <2>1. {} \subseteq Pages /\ Write(FetchFirst(Block) .. FetchLast(Block), {})
    BY <1>5 DEF FetchBlock
  <2>2. \E done, part : part \subseteq Pages /\ Write(done, part)
    BY <2>1
  <2>. QED BY <1>5, <2>2 DEF FetchBlock, Streamed
<1>6. ASSUME NEW n \in Pages, FetchBreaks(n) PROVE Streamed
  <2>1. \E done, part : part \subseteq Pages /\ Write(done, part)
    BY <1>6, UpToFacts DEF FetchBreaks
  <2>. QED BY <1>6, <2>1 DEF FetchBreaks, Streamed
<1>7. ReadStep => UNCHANGED fileVars \/ Streamed
  BY <1>5, <1>6 DEF ReadStep, LoadFragments, ReadBlock, BlockUnreadable, ReadEnd
<1>8. ASSUME NEW i \in ChunkStarts, NEW j \in ChunkStarts, Misread(i, j) PROVE Streamed
  <2>1. {} \subseteq Pages /\ Write(i .. ChunkEnd(j), {})
    BY <1>8 DEF Misread
  <2>2. \E done, part : part \subseteq Pages /\ Write(done, part)
    BY <2>1
  <2>. QED BY <1>8, <2>2 DEF Misread, Streamed
<1>9. OpStep => UNCHANGED fileVars \/ Streamed
  BY <1>7, <1>8 DEF OpStep, OpenOp, Lookup, LookupFails, ReturnWithout, TablePanics, OpenDir,
         OpenDirFails, NextEntry, ReaddirEnd, EntryFails, Stat, Readlink, Getxattr, Listxattr
<1>10. Take \/ Exit \/ Kill => UNCHANGED fileVars
  BY DEF Take, Exit, Kill
<1>11. ASSUME NEW n \in Pages, KillCopying(n) PROVE Streamed
  <2>1. \E done, part : part \subseteq Pages /\ Write(done, part)
    BY <1>11, UpToFacts DEF KillCopying
  <2>. QED BY <1>11, <2>1 DEF KillCopying, Streamed
<1>. QED BY <1>1, <1>2, <1>4, <1>9, <1>10, <1>11 DEF Next

\* What is written is of the current version, or was there.
LEMMA WriteFacts ==
  ASSUME FileTypeOK, NEW done, NEW part, part \subseteq Pages, Write(done, part)
  PROVE  /\ page' \in [Pages -> Versions \cup {Hole, Mixed}] /\ torn' \subseteq Pages
         /\ fileSb' \in {fileSb, object}
         /\ \A g \in Pages : g \in done => page'[g] = object /\ (g \in torn' => g \in part)
         /\ \A g \in Pages : page[g] \in {object, Hole} =>
              page'[g] \in {object, Hole} /\ (page[g] = object => page'[g] = object)
         /\ \A g \in Pages : g \in torn' => g \in torn \/ (g \in part /\ page[g] = Hole)
<1>1. page' = Written(done, part)
  BY DEF Write
<1>2. Written(done, part) \in [Pages -> Versions \cup {Hole, Mixed}]
  BY DEF Written, FileTypeOK
<1>3. \A g \in Pages : page'[g] = IF g \in done \/ (g \in part /\ page[g] \in {Hole, object}) THEN object
                                  ELSE IF g \in part THEN Mixed ELSE page[g]
  BY <1>1 DEF Written
<1>4. torn' = (torn \ done) \cup {g \in part : page[g] = Hole}
  BY DEF Write
<1>5. fileSb' \in {fileSb, object}
  BY DEF Write
<1>. QED BY <1>1, <1>2, <1>3, <1>4, <1>5 DEF FileTypeOK

LEMMA FileTypeStep ==
  ASSUME Inv, [Next]_mountVars
  PROVE  FileTypeOK'
<1>. FileTypeOK
  BY DEF Inv, FsTypeOK, FileTypeOK
<1>1. CASE UNCHANGED fileVars
  BY <1>1 DEF FileTypeOK, fileVars
<1>2. CASE Create
  <2>1. sb \in 1 .. object
    BY <1>2 DEF Inv, MakingOK, Create
  <2>2. sb \in Versions /\ 0 \in Pages
    BY <2>1, ArchiveAssumption DEF FileTypeOK, Versions, Pages
  <2>3. page' \in [Pages -> Versions \cup {Hole, Mixed}]
    BY <1>2, <2>2 DEF Create, NewFile
  <2>. QED BY <1>2, <2>1, <2>2, <2>3 DEF Create, FileTypeOK, Versions, NoVersion
<1>3. CASE CopyMeta
  <2>1. {} \subseteq Pages /\ Write(MetaPages, {})
    BY <1>3 DEF CopyMeta
  <2>2. page' \in [Pages -> Versions \cup {Hole, Mixed}] /\ torn' \subseteq Pages /\ fileSb' \in {fileSb, object}
    BY <2>1, WriteFacts
  <2>. QED BY <1>3, <2>2 DEF CopyMeta, FileTypeOK, Versions
<1>4. CASE Streamed
  <2>1. page' \in [Pages -> Versions \cup {Hole, Mixed}] /\ torn' \subseteq Pages /\ fileSb' \in {fileSb, object}
    BY <1>4, WriteFacts DEF Streamed
  <2>. QED BY <1>4, <2>1 DEF Streamed, FileTypeOK
<1>5. CASE Install
  BY <1>5, ArchiveAssumption DEF Install, FileTypeOK, Versions
<1>6. CASE UNCHANGED mountVars
  BY <1>6, <1>1 DEF mountVars
<1>. QED BY <1>1, <1>2, <1>3, <1>4, <1>5, <1>6, NextCases

LEMMA MakingStep ==
  ASSUME Inv, [Next]_mountVars
  PROVE  MakingOK'
<1>. FileTypeOK /\ FileTypeOK' /\ MakingOK
  BY FileTypeStep DEF Inv, FsTypeOK, FileTypeOK
<1>. USE DEF Goto, Return, ReturnWithout, ReadReturns, End, fileVars, procVars
<1>1. CASE Create
  <2>1. page' = NewFile(sb') /\ torn' = {0} /\ pc' = "metacopy"
    BY <1>1 DEF Create, NewFile
  <2>. QED BY <1>1, <2>1 DEF Create, MakingOK
<1>2. CASE CopyMeta \/ Streamed
  BY <1>2 DEF CopyMeta, Streamed, MakingOK
<1>3. CASE Install
  BY <1>3 DEF Install, MakingOK, FileTypeOK, Versions, NoVersion, NewFile
<1>4. CASE GetMetadata
  BY <1>4 DEF GetMetadata, MakingOK, FileTypeOK, Versions
<1>5. CASE UNCHANGED mountVars
  BY <1>5 DEF mountVars, MakingOK, NewFile
<1>6. CASE Next /\ ~Create /\ ~GetMetadata /\ ~Install /\ ~CopyMeta /\ ~Streamed
  <2>. DEFINE Elsewhere == pc' \notin {"create", "metacopy"}
  <2>1. ASSUME NEW r \in {"mount", "command", "force"}, Start(r) PROVE Elsewhere
    BY <2>1 DEF Start
  <2>2. ASSUME NEW r \in Requests, Call(r) PROVE Elsewhere
    BY <2>2 DEF Call
  <2>3. ASSUME StartStep PROVE Elsewhere
    BY <1>6, <2>3 DEF StartStep, CheckExists, StartFails, Open, OpenFails, MetaBreaks
  <2>4. ASSUME ReadStep PROVE Elsewhere
    BY <2>4 DEF ReadStep, LoadFragments, FetchBlock, ReadBlock, BlockUnreadable, ReadEnd, FetchBreaks
  <2>5. ASSUME Lookup PROVE Elsewhere
    BY <2>5 DEF Lookup, Inv, CallOK, Ops
  <2>6. ASSUME NEW i, NEW j, Misread(i, j) PROVE Elsewhere
    BY <2>6 DEF Misread
  <2>7. ASSUME NextEntry PROVE Elsewhere
    BY <2>7 DEF NextEntry
  <2>8. ASSUME OpStep PROVE Elsewhere
    BY <2>4, <2>5, <2>6, <2>7, <2>8 DEF OpStep, OpenOp, LookupFails, TablePanics, OpenDir, OpenDirFails,
         ReaddirEnd, EntryFails, Stat, Readlink, Getxattr, Listxattr
  <2>9. ASSUME Take \/ Exit \/ Kill PROVE Elsewhere
    BY <2>9 DEF Take, Exit, Kill
  <2>10. ASSUME NEW n \in Pages, KillCopying(n) PROVE Elsewhere
    BY <2>10 DEF KillCopying
  <2>11. Elsewhere
    BY <1>6, <2>1, <2>2, <2>3, <2>8, <2>9, <2>10 DEF Next
  <2>. QED BY <2>11 DEF MakingOK
<1>. QED BY <1>1, <1>2, <1>3, <1>4, <1>5, <1>6

---------------------------------------------------------------------------
(* A fresh cache *)

\* The part of CacheFresh that is about the file.
FreshFile ==
  /\ fileSb = object
  /\ \A g \in Pages : page[g] \in {object, Hole}
  /\ \A g \in MetaPages : page[g] = object /\ g \notin torn

\* More of the current version keeps it fresh.
LEMMA WriteFresh ==
  ASSUME FileTypeOK, FreshFile, NEW done, NEW part, part \subseteq Pages, Write(done, part),
         object' = object
  PROVE  FreshFile'
<1>1. object # Hole
  BY SentinelAssumption DEF FileTypeOK
<1>2. /\ fileSb' \in {fileSb, object}
      /\ \A g \in Pages : page[g] \in {object, Hole} =>
           page'[g] \in {object, Hole} /\ (page[g] = object => page'[g] = object)
      /\ \A g \in Pages : g \in torn' => g \in torn \/ (g \in part /\ page[g] = Hole)
  BY WriteFacts
<1>. QED BY <1>1, <1>2, PageFacts DEF FreshFile

LEMMA FreshFileStep ==
  ASSUME Inv, [Next]_mountVars, Fresh'
  PROVE  FreshFile'
<1>. FileTypeOK /\ FileTypeOK' /\ MakingOK /\ (Fresh => FreshFile)
  BY FileTypeStep DEF Inv, FsTypeOK, FileTypeOK, CacheFresh, FreshFile
<1>. USE DEF Fresh
<1>1. CASE UNCHANGED fileVars
  BY <1>1 DEF fileVars, FreshFile
<1>2. CASE Create
  BY <1>2 DEF Create, FileTypeOK, Versions, NoVersion
<1>3. CASE CopyMeta
  <2>1. /\ page = NewFile(object) /\ torn = {0} /\ fileSb = object
        /\ {} \subseteq Pages /\ Write(MetaPages, {}) /\ object' = object
    BY <1>3 DEF CopyMeta, MakingOK
  <2>2. \A g \in Pages : g = LastPage \/ page[g] \in {object, Hole}
    BY <2>1 DEF NewFile
  <2>3. /\ fileSb' = object
        /\ \A g \in Pages : g \in MetaPages => page'[g] = object /\ g \notin torn'
        /\ \A g \in Pages : page[g] \in {object, Hole} => page'[g] \in {object, Hole}
    BY <2>1, WriteFacts
  <2>4. LastPage \in MetaPages /\ MetaPages \subseteq Pages
    BY ArchiveAssumption DEF MetaPages, Pages
  <2>. QED BY <2>1, <2>2, <2>3, <2>4 DEF FreshFile
<1>4. CASE Streamed
  <2>1. Fresh /\ object' = object
    BY <1>4 DEF Streamed
  <2>. QED BY <1>4, <2>1, WriteFresh DEF Streamed
<1>5. CASE Install
  BY <1>5 DEF Install, FileTypeOK, Versions
<1>6. CASE UNCHANGED mountVars
  BY <1>6, <1>1 DEF mountVars
<1>. QED BY <1>1, <1>2, <1>3, <1>4, <1>5, <1>6, NextCases

---------------------------------------------------------------------------
(* Types, and where a call is *)

Held == {"inode", "dr", "data", "xr"}

LEMMA AnswerFacts ==
  ASSUME NEW code \in Codes, NEW data \in Seq(Items), NEW size \in Nat
  PROVE  [code |-> code, data |-> data, size |-> size] \in FsAnswers
<1>. DEFINE D == Seq(Items)
<1>1. data \in D
  OBVIOUS
<1>2. FsAnswers = [code : Codes, data : D, size : Nat]
  BY DEF FsAnswers
<1>. HIDE DEF D
<1>. QED BY <1>1, <1>2

LEMMA DataFacts ==
  ASSUME NEW n \in Items
  PROVE  <<n>> \in Seq(Items) /\ Len(<<n>>) = 1 /\ << >> \in Seq(Items) /\ Len(<< >>) = 0
<1>1. << >> \in Seq(Items)
  BY EmptySeq
<1>2. Append(<< >>, n) \in Seq(Items)
  BY <1>1, AppendProperties
<1>3. Append(<< >>, n) = <<n>>
  OBVIOUS
<1>. QED BY <1>1, <1>2, <1>3

LEMMA AttrFacts ==
  ASSUME NEW f \in Paths
  PROVE  /\ Attrs[f] \in Seq(Items) /\ Len(Attrs[f]) \in Nat
         /\ \A i \in DOMAIN Attrs[f] : i \in Nat /\ Attrs[f][i] \in AttrNames
<1>1. Attrs[f] \in Seq(AttrNames) /\ AttrNames \subseteq Items
  BY ArchiveAssumption DEF Items
<1>2. Attrs[f] \in Seq(Items)
  BY <1>1, SeqMonotonic
<1>. QED BY <1>1, <1>2

\* The file a read is of, and the directory a readdir is of.
LEMMA ReadFacts ==
  ASSUME FsTypeOK, CallOK, pc \in {"blocks", "raw"}
  PROVE  /\ req.path \in Paths /\ req.off \in Nat /\ req.size \in Nat
         /\ Content[req.path] \in Seq(Blocks) /\ Len(Content[req.path]) \in Nat
         /\ Len(bytes) \in Nat /\ bytes \in Seq(Items)
         /\ More => Block \in Blocks
<1>1. req \in Requests /\ req.op = "read"
  BY DEF FsTypeOK, CallOK, Serving
<1>2. /\ req.path \in Paths /\ req.off \in Nat /\ req.size \in Nat
      /\ Content[req.path] \in Seq(Blocks)
  BY <1>1, RequestAssumption, ArchiveAssumption
<1>3. bytes \in Seq(Items) /\ Len(bytes) \in Nat
  BY LenProperties DEF CallOK
<1>4. Len(Content[req.path]) \in Nat
  BY <1>2, LenProperties
<1>5. ASSUME More PROVE Block \in Blocks
  <2>1. NextBlock \in 1 .. Len(Content[req.path])
    BY <1>2, <1>3, <1>4, <1>5 DEF More, NextBlock
  <2>. QED BY <1>2, <2>1, ElementOfSeq DEF Block
<1>. QED BY <1>2, <1>3, <1>4, <1>5

LEMMA EntriesFacts ==
  ASSUME FsTypeOK, CallOK, pc = "entries"
  PROVE  /\ req.path \in Paths /\ req.op = "readdir"
         /\ Content[req.path] \in Seq(Paths) /\ Len(Content[req.path]) \in Nat
         /\ Len(bytes) \in Nat /\ bytes \in Seq(Items)
         /\ Len(bytes) < Len(Content[req.path]) => Content[req.path][Len(bytes) + 1] \in Paths
<1>1. req \in Requests /\ req.op = "readdir"
  BY DEF FsTypeOK, CallOK, Serving
<1>2. req.path \in Paths /\ Content[req.path] \in Seq(Paths)
  BY <1>1, RequestAssumption, ArchiveAssumption
<1>3. bytes \in Seq(Items) /\ Len(bytes) \in Nat
  BY LenProperties DEF CallOK
<1>4. Len(Content[req.path]) \in Nat
  BY <1>2, LenProperties
<1>5. ASSUME Len(bytes) < Len(Content[req.path]) PROVE Content[req.path][Len(bytes) + 1] \in Paths
  <2>1. Len(bytes) + 1 \in 1 .. Len(Content[req.path])
    BY <1>3, <1>4, <1>5
  <2>. QED BY <1>2, <2>1, ElementOfSeq
<1>. QED BY <1>1, <1>2, <1>3, <1>4, <1>5

\* Answers without data, and with one item.
LEMMA PlainAnswers ==
  /\ \A n \in Nat : Size(n) \in FsAnswers
  /\ \A code \in Codes : Err(code) \in FsAnswers
  /\ \A n \in Items : Ok(<<n>>) \in FsAnswers
  /\ \A data \in Seq(Items) : Ok(data) \in FsAnswers
<1>1. << >> \in Seq(Items) /\ "ok" \in Codes
  BY EmptySeq DEF Codes
<1>2. ASSUME NEW n \in Nat PROVE Size(n) \in FsAnswers
  BY <1>1, AnswerFacts DEF Size
<1>3. ASSUME NEW code \in Codes PROVE Err(code) \in FsAnswers
  BY <1>1, AnswerFacts DEF Err
<1>4. ASSUME NEW data \in Seq(Items) PROVE Ok(data) \in FsAnswers
  <2>1. Len(data) \in Nat
    BY LenProperties
  <2>. QED BY <1>1, <2>1, AnswerFacts DEF Ok
<1>5. ASSUME NEW n \in Items PROVE Ok(<<n>>) \in FsAnswers
  BY <1>4, DataFacts
<1>. QED BY <1>2, <1>3, <1>4, <1>5

LEMMA NotFoundAnswer ==
  ASSUME NEW o
  PROVE  NotFound(o) \in FsAnswers /\ NotFound(o) \in {Err("ENODATA"), Ok(<< >>), Err("ENOENT")}
<1>1. << >> \in Seq(Items) /\ "ENODATA" \in Codes /\ "ENOENT" \in Codes
  BY EmptySeq DEF Codes
<1>. QED BY <1>1, PlainAnswers DEF NotFound

\* The first attribute that begins with the name.
LEMMA MatchFacts ==
  ASSUME NEW f \in Paths, NEW n, Matches(f, n) # {}
  PROVE  Min(Matches(f, n)) \in Matches(f, n) /\ Min(Matches(f, n)) \in DOMAIN Attrs[f]
<1>1. Matches(f, n) \in SUBSET Nat
  BY AttrFacts DEF Matches
<1>2. Min(Matches(f, n)) \in Matches(f, n)
  BY <1>1, MinFacts
<1>. QED BY <1>2 DEF Matches

LEMMA ValueAnswer ==
  ASSUME NEW n \in AttrNames, NEW size
  PROVE  Value(n, size) \in FsAnswers
<1>1. /\ <<n>> \in Seq(Items) /\ << >> \in Seq(Items)
      /\ "ok" \in Codes /\ "ERANGE" \in Codes /\ ItemSize \in Nat
  BY DataFacts DEF Items, Codes, ItemSize
<1>2. [Size(ItemSize) EXCEPT !.data = <<n>>] = [code |-> "ok", data |-> <<n>>, size |-> ItemSize]
  BY DEF Size
<1>3. [code |-> "ok", data |-> <<n>>, size |-> ItemSize] \in FsAnswers
  BY <1>1, AnswerFacts
<1>4. Size(ItemSize) \in FsAnswers /\ Err("ERANGE") \in FsAnswers
  BY <1>1, PlainAnswers
<1>. QED BY <1>2, <1>3, <1>4 DEF Value

LEMMA NamesAnswer ==
  ASSUME NEW r, r.path \in Paths
  PROVE  Names(r) \in FsAnswers
<1>. DEFINE n == ItemSize * Len(Attrs[r.path])
            data == IF r.size = 0 THEN << >> ELSE Attrs[r.path]
<1>1. n \in Nat /\ "ok" \in Codes /\ "ENOENT" \in Codes
  BY AttrFacts DEF ItemSize, Codes
<1>2. data \in Seq(Items)
  BY AttrFacts, EmptySeq
<1>3. [Size(n) EXCEPT !.data = data] = [code |-> "ok", data |-> data, size |-> n]
  BY DEF Size
<1>4. Names(r) = IF ~HasAttrs(r.path) THEN Err("ENOENT") ELSE [Size(n) EXCEPT !.data = data]
  BY DEF Names
<1>. HIDE DEF n, data
<1>. QED BY <1>1, <1>2, <1>3, <1>4, PlainAnswers, AnswerFacts

LEMMA TargetAnswer ==
  ASSUME NEW r, r.path \in Paths
  PROVE  Target(r) \in FsAnswers
<1>1. r.path \in Items /\ 0 \in Nat /\ "EIO" \in Codes
  BY DEF Items, Codes
<1>. QED BY <1>1, PlainAnswers DEF Target

\* The answer of getxattr: nothing, or the first attribute that begins with the name.
LEMMA GetxattrAnswer ==
  ASSUME NEW f \in Paths, NEW n, NEW size, NEW a,
         a = IF ~HasAttrs(f) THEN Err("ENODATA")
             ELSE IF Matches(f, n) = {} THEN Size(0)
             ELSE Value(Attrs[f][Min(Matches(f, n))], size)
  PROVE  a \in FsAnswers
<1>1. "ENODATA" \in Codes /\ 0 \in Nat
  BY DEF Codes
<1>2. CASE Matches(f, n) # {}
  <2>1. Attrs[f][Min(Matches(f, n))] \in AttrNames
    BY <1>2, MatchFacts, AttrFacts
  <2>. QED BY <1>1, <2>1, ValueAnswer, PlainAnswers
<1>. QED BY <1>1, <1>2, PlainAnswers

LEMMA EndTypes ==
  ASSUME FsTypeOK, End, FileTypeOK'
  PROVE  FsTypeOK' /\ CallOK'
<1>1. << >> \in Seq(Items)
  BY EmptySeq
<1>. QED BY <1>1 DEF End, Goto, FsTypeOK, FileTypeOK, CallOK, Starting, Serving, Ops

LEMMA ReturnTypes ==
  ASSUME FsTypeOK, FileTypeOK', pc \in Serving,
         NEW a \in FsAnswers, NEW left \in SUBSET Held,
         Return(a, left) \/ \E x \in SUBSET Paths : ReturnWithout(x, a, left)
  PROVE  FsTypeOK' /\ CallOK'
<1>1. << >> \in Seq(Items) /\ a # NoReply
  BY EmptySeq, SentinelAssumption
<1>2. /\ reply' = a /\ held' = left /\ bytes' = << >> /\ pc' = "done"
      /\ UNCHANGED <<procVars, req>> /\ spoilt' \subseteq Blocks \cup Paths
  BY DEF Return, ReturnWithout, Goto, FsTypeOK
<1>. QED BY <1>1, <1>2 DEF FsTypeOK, FileTypeOK, CallOK, Starting, Serving, Ops, procVars, Held

\* A step inside a call.
LEMMA MoveTypes ==
  ASSUME FsTypeOK, FileTypeOK', pc \in Serving, pc' \in Serving, held' \subseteq Held,
         UNCHANGED <<procVars, req, reply, spoilt>>
  PROVE  FsTypeOK'
BY DEF FsTypeOK, FileTypeOK, Starting, Serving, Ops, procVars, Held

LEMMA TypeStep ==
  ASSUME Inv, [Next]_mountVars
  PROVE  FsTypeOK' /\ CallOK'
<1>. FsTypeOK /\ CallOK /\ MakingOK /\ FileTypeOK'
  BY FileTypeStep DEF Inv
<1>0. held \subseteq Held
  BY DEF FsTypeOK, Held
<1>. USE DEF Goto
<1>1. ASSUME NEW r \in {"mount", "command", "force"}, Start(r) PROVE FsTypeOK' /\ CallOK'
  BY <1>1 DEF Start, FsTypeOK, FileTypeOK, CallOK, Starting, Serving, Ops, reqVars
<1>2. ASSUME NEW r \in Requests, Call(r) PROVE FsTypeOK' /\ CallOK'
  BY <1>2, RequestAssumption DEF Call, TornBlocks, FsTypeOK, FileTypeOK, CallOK, Starting, Serving, Ops, procVars
<1>3. CASE StartStep
  <2>1. CASE CheckExists \/ GetMetadata \/ Create \/ CopyMeta \/ Open
    BY <2>1 DEF CheckExists, GetMetadata, Create, CopyMeta, Open, FsTypeOK, FileTypeOK, CallOK,
                Starting, Serving, Ops, fileVars, procVars, reqVars
  <2>. QED BY <1>3, <2>1, EndTypes DEF StartStep, StartFails, OpenFails, MetaBreaks
<1>4. CASE Take
  BY <1>4 DEF Take, FsTypeOK, FileTypeOK, CallOK, Starting, Serving, Ops, procVars
<1>5. CASE Exit \/ Kill \/ \E n \in Pages : KillCopying(n)
  BY <1>5, EndTypes DEF Exit, Kill, KillCopying
<1>6. CASE Install
  BY <1>6 DEF Install, FsTypeOK, FileTypeOK, CallOK, Starting, Serving, Ops, procVars, reqVars, More, NextBlock
<1>7. CASE OpStep
  <2>. DEFINE Typed == FsTypeOK' /\ CallOK'
  <2>0. /\ {"EACCES", "EIO", "ENOENT", "ENODATA"} \subseteq Codes
        /\ 0 \in Nat /\ << >> \in Seq(Items)
    BY EmptySeq DEF Codes
  <2>1. CASE OpenOp
    <3>. DEFINE a == IF req.write THEN Err("EACCES") ELSE Size(0)
    <3>1. a \in FsAnswers
      BY <2>0, PlainAnswers
    <3>. HIDE DEF a
    <3>2. pc \in Serving /\ Return(a, held)
      BY <2>1 DEF OpenOp, a, Serving
    <3>. QED BY <3>1, <3>2, <1>0, ReturnTypes
  <2>2. CASE Lookup
    <3>1. req.op \in Ops /\ pc \in Serving
      BY <2>2 DEF Lookup, CallOK, Serving
    <3>2. FsTypeOK'
      BY <2>2, <3>1, MoveTypes DEF Lookup, Serving, Held
    <3>. QED BY <2>2, <3>1, <3>2 DEF Lookup, CallOK, Ops
  <2>3. CASE LookupFails
    <3>1. NotFound(req.op) \in FsAnswers /\ pc \in Serving
      BY <2>3, NotFoundAnswer DEF LookupFails, Serving
    <3>2. CASE req.op = "readdir"
      <4>1. req.path \in Paths
        BY <3>1, <3>2, RequestAssumption DEF FsTypeOK
      <4>2. {"dr"} \in SUBSET Held /\ \E x \in SUBSET Paths : ReturnWithout(x, NotFound(req.op), {"dr"})
        BY <2>3, <3>2, <4>1 DEF LookupFails, Held
      <4>. QED BY <3>1, <4>2, ReturnTypes
    <3>3. CASE req.op # "readdir"
      BY <2>3, <3>1, <3>3, ReturnTypes DEF LookupFails, Held
    <3>. QED BY <3>2, <3>3
  <2>4. CASE TablePanics
    BY <2>4, EndTypes DEF TablePanics
  <2>5. ASSUME NEW i \in ChunkStarts, NEW j \in ChunkStarts, Misread(i, j) PROVE Typed
    <3>1. Ok(<<Garbage>>) \in FsAnswers
      BY PlainAnswers DEF Items
    <3>. QED BY <2>5, <3>1, ReturnTypes DEF Misread, Serving, Held
  <2>6. CASE ReadStep
    <3>1. ASSUME pc \in {"blocks", "raw"}, NEW a \in FsAnswers, ReadReturns(a) PROVE Typed
      BY <3>1, <1>0, ReturnTypes DEF ReadReturns, Serving, Held
    <3>2. Err("EIO") \in FsAnswers /\ Ok(bytes) \in FsAnswers
      BY <2>0, PlainAnswers DEF CallOK
    <3>3. CASE LoadFragments
      <4>1. FsTypeOK'
        BY <3>3, <1>0, MoveTypes DEF LoadFragments, Serving, Ops, Held
      <4>. QED BY <3>3, <4>1 DEF LoadFragments, CallOK, Ops
    <3>4. CASE FetchBlock
      <4>1. FsTypeOK'
        BY <3>4, <1>0, MoveTypes DEF FetchBlock, Missing, Serving, Ops, Held, reqVars, procVars
      <4>. QED BY <3>4, <4>1 DEF FetchBlock, Missing, CallOK, Ops, reqVars, More, NextBlock
    <3>5. CASE ReadBlock
      <4>1. pc \in {"blocks", "raw"} /\ More
        BY <3>5 DEF ReadBlock, Present, CallOK
      <4>2. FsTypeOK'
        BY <3>5, <4>1, <1>0, MoveTypes DEF ReadBlock, Serving, Ops, Held
      <4>3. Block \in Items
        BY <4>1, ReadFacts DEF Items
      <4>4. bytes' \in Seq(Items)
        BY <3>5, <4>3, AppendProperties DEF ReadBlock, CallOK, Items
      <4>. QED BY <3>5, <4>1, <4>2, <4>4 DEF ReadBlock, CallOK, Ops
    <3>. QED BY <2>6, <3>1, <3>2, <3>3, <3>4, <3>5 DEF ReadStep, BlockUnreadable, Present, Missing, ReadEnd, FetchBreaks
  <2>7. CASE OpenDir
    <3>1. FsTypeOK'
      BY <2>7, <1>0, MoveTypes DEF OpenDir, Serving, Ops, Held
    <3>. QED BY <2>7, <3>1 DEF OpenDir, CallOK, Ops
  <2>8. CASE OpenDirFails
    <3>1. Ok(<< >>) \in FsAnswers
      BY <2>0, PlainAnswers
    <3>2. req.path \in Paths /\ pc \in Serving /\ held \ {"inode"} \in SUBSET Held
      BY <2>8, <1>0 DEF OpenDirFails, CallOK, Serving, Ops
    <3>3. \E x \in SUBSET Paths : ReturnWithout(x, Ok(<< >>), held \ {"inode"})
      BY <2>8, <3>2 DEF OpenDirFails
    <3>. QED BY <3>1, <3>2, <3>3, ReturnTypes
  <2>9. CASE NextEntry
    <3>. DEFINE name == Content[req.path][Len(bytes) + 1]
    <3>1. pc = "entries" /\ name \in Items /\ bytes \in Seq(Items)
      BY <2>9, EntriesFacts DEF NextEntry, Items
    <3>2. bytes' \in Seq(Items)
      BY <2>9, <3>1, AppendProperties DEF NextEntry
    <3>3. FsTypeOK'
      BY <2>9, <3>1, <1>0, MoveTypes DEF NextEntry, Serving, Held, StatLeaves
    <3>. QED BY <2>9, <3>1, <3>2, <3>3 DEF NextEntry, CallOK, Ops
  <2>10. CASE ReaddirEnd
    <3>1. Ok(bytes) \in FsAnswers
      BY PlainAnswers DEF CallOK
    <3>. QED BY <2>10, <3>1, <1>0, ReturnTypes DEF ReaddirEnd, Serving, Held
  <2>15. CASE EntryFails
    <3>1. Ok(bytes) \in FsAnswers
      BY PlainAnswers DEF CallOK
    <3>2. req.path \in Paths /\ pc \in Serving /\ held \ {"dr"} \in SUBSET Held
      BY <2>15, <1>0 DEF EntryFails, CallOK, Serving
    <3>3. \E x \in SUBSET Paths : ReturnWithout(x, Ok(bytes), held \ {"dr"})
      BY <2>15, <3>2 DEF EntryFails
    <3>. QED BY <3>1, <3>2, <3>3, ReturnTypes
  <2>11. CASE Stat
    <3>1. Ok(<<req.path>>) \in FsAnswers
      BY <2>11, PlainAnswers DEF Stat, CallOK, Items, Ops
    <3>. QED BY <2>11, <3>1, <1>0, ReturnTypes DEF Stat, Serving, Ops, Held, StatLeaves
  <2>12. CASE Readlink
    <3>1. Target(req) \in FsAnswers
      BY <2>12, TargetAnswer DEF Readlink, CallOK, Ops
    <3>. QED BY <2>12, <3>1, <1>0, ReturnTypes DEF Readlink, Serving, Ops, Held
  <2>13. CASE Getxattr
    <3>1. req.path \in Paths /\ pc \in Serving
      BY <2>13 DEF Getxattr, CallOK, Ops, Serving
    <3>2. PICK a : /\ Return(a, held \ {"inode"})
                   /\ a = IF ~HasAttrs(req.path) THEN Err("ENODATA")
                          ELSE IF Matches(req.path, req.name) = {} THEN Size(0)
                          ELSE Value(Attrs[req.path][Min(Matches(req.path, req.name))], req.size)
      BY <2>13 DEF Getxattr
    <3>3. a \in FsAnswers
      BY <3>1, <3>2, GetxattrAnswer
    <3>. QED BY <3>1, <3>2, <3>3, <1>0, ReturnTypes
  <2>14. CASE Listxattr
    <3>1. Names(req) \in FsAnswers
      BY <2>14, NamesAnswer DEF Listxattr, CallOK, Ops
    <3>. QED BY <2>14, <3>1, <1>0, ReturnTypes DEF Listxattr, Serving, Ops, Held
  <2>. QED BY <1>7, <2>1, <2>2, <2>3, <2>4, <2>5, <2>6, <2>7, <2>8, <2>9, <2>10, <2>11, <2>12, <2>13, <2>14, <2>15
           DEF OpStep
<1>8. CASE UNCHANGED mountVars
  BY <1>8 DEF mountVars, FsTypeOK, FileTypeOK, CallOK, Starting, Serving, Ops, procVars, reqVars, fileVars, More, NextBlock
<1>. QED BY <1>1, <1>2, <1>3, <1>4, <1>5, <1>6, <1>7, <1>8 DEF Next

---------------------------------------------------------------------------
(* What a call on a fresh cache works with *)

\* A process that serves keeps its superblock, and a fresh file has the one of the object.
LEMMA CacheFreshStep ==
  ASSUME Inv, [Next]_mountVars
  PROVE  CacheFresh'
<1>. SUFFICES ASSUME Fresh'
              PROVE  pc' \in Serving \cup {"ready", "done"} => sb' = object'
  BY FreshFileStep DEF CacheFresh, FreshFile
<1>. FsTypeOK /\ CallOK /\ MakingOK /\ CacheFresh /\ FsTypeOK'
  BY TypeStep DEF Inv
<1>. DEFINE Served == Serving \cup {"ready", "done"}
<1>. USE DEF Goto
<1>1. CASE pc \in Served /\ sb' = sb /\ Fresh /\ object' = object
  BY <1>1 DEF CacheFresh
<1>2. CASE pc' \notin Served
  BY <1>2
<1>3. CASE Open
  BY <1>3 DEF Open, CacheFresh, Fresh, fileVars
<1>4. CASE Install
  BY <1>4 DEF Install, Fresh, FsTypeOK, Versions
<1>5. CASE Next /\ ~Open /\ ~Install
  <2>. USE DEF Fresh, fileVars, procVars, Return, ReadReturns, Serving, Ops
  <2>1. ASSUME NEW r \in {"mount", "command", "force"}, Start(r) PROVE pc' \notin Served
    BY <2>1 DEF Start
  <2>2. ASSUME NEW r \in Requests, Call(r) PROVE pc \in Served /\ sb' = sb /\ Fresh /\ object' = object
    BY <2>2 DEF Call
  <2>3. ASSUME StartStep PROVE pc' \notin Served
    BY <1>5, <2>3 DEF StartStep, CheckExists, GetMetadata, Create, CopyMeta, StartFails, OpenFails, MetaBreaks, End
  <2>4. ASSUME End PROVE pc' \notin Served
    BY <2>4 DEF End
  <2>5. ASSUME ReadStep PROVE pc \in Served /\ sb' = sb /\ Fresh /\ object' = object
    BY <2>5 DEF ReadStep, LoadFragments, FetchBlock, ReadBlock, BlockUnreadable, ReadEnd, FetchBreaks, Present, Missing
  <2>6. ASSUME NEW i \in ChunkStarts, NEW j \in ChunkStarts, Misread(i, j)
        PROVE  pc \in Served /\ sb' = sb /\ Fresh /\ object' = object
    BY <2>6 DEF Misread
  <2>7. ASSUME OpStep PROVE (pc \in Served /\ sb' = sb /\ Fresh /\ object' = object) \/ pc' \notin Served
    BY <2>4, <2>5, <2>6, <2>7 DEF OpStep, OpenOp, Lookup, LookupFails, ReturnWithout, TablePanics, OpenDir,
         OpenDirFails, NextEntry, ReaddirEnd, EntryFails, Stat, Readlink, Getxattr, Listxattr
  <2>8. ASSUME Take PROVE pc \in Served /\ sb' = sb /\ Fresh /\ object' = object
    BY <2>8 DEF Take
  <2>9. ASSUME Exit \/ Kill \/ \E n \in Pages : KillCopying(n) PROVE pc' \notin Served
    BY <2>4, <2>9 DEF Exit, Kill, KillCopying
  <2>. QED BY <1>1, <1>2, <1>5, <2>1, <2>2, <2>3, <2>7, <2>8, <2>9 DEF Next
<1>6. CASE UNCHANGED mountVars
  BY <1>6 DEF mountVars, CacheFresh, Fresh, fileVars, procVars
<1>. QED BY <1>3, <1>4, <1>5, <1>6

---------------------------------------------------------------------------
(* What a read is kept from *)

LEMMA SpoiltStep ==
  ASSUME Inv, [Next]_mountVars
  PROVE  SpoiltOK'
<1>. FsTypeOK /\ CallOK /\ SpoiltOK /\ FileTypeOK
  BY DEF Inv, FsTypeOK, FileTypeOK
<1>. DEFINE Reading == {"lookup", "read", "blocks", "raw"}
<1>. USE DEF Goto
<1>1. CASE pc' \notin Reading
  BY <1>1 DEF SpoiltOK
<1>2. ASSUME pc \in Reading, torn' \subseteq torn, req' = req, spoilt' = spoilt PROVE SpoiltOK'
  BY <1>2 DEF SpoiltOK, TornBlocks
<1>3. ASSUME NEW r \in Requests, Call(r) PROVE SpoiltOK'
  <2>1. req' = r /\ torn' = torn
    BY <1>3 DEF Call, fileVars
  <2>2. r.op = "read" => spoilt' = TornBlocks
    BY <1>3 DEF Call
  <2>3. TornBlocks' = TornBlocks
    BY <2>1 DEF TornBlocks
  <2>. QED BY <2>1, <2>2, <2>3 DEF SpoiltOK
<1>4. CASE Lookup
  BY <1>2, <1>4 DEF Lookup, fileVars
<1>5. CASE LoadFragments \/ ReadBlock
  BY <1>2, <1>5 DEF LoadFragments, ReadBlock, Present, fileVars
<1>6. CASE FetchBlock
  <2>1. {} \subseteq Pages /\ Write(FetchFirst(Block) .. FetchLast(Block), {})
    BY <1>6 DEF FetchBlock
  <2>2. torn' \subseteq torn
    BY <2>1 DEF Write
  <2>. QED BY <1>2, <1>6, <2>2 DEF FetchBlock, Missing, reqVars
<1>7. CASE Install \/ UNCHANGED mountVars
  BY <1>1, <1>2, <1>7 DEF Install, mountVars, fileVars, reqVars
<1>8. CASE Next /\ ~Lookup /\ ~LoadFragments /\ ~ReadBlock /\ ~FetchBlock /\ ~Install
  <2>. USE DEF Return, ReturnWithout, ReadReturns, End
  <2>1. ASSUME NEW r \in {"mount", "command", "force"}, Start(r) PROVE pc' \notin Reading
    BY <2>1 DEF Start
  <2>2. ASSUME StartStep PROVE pc' \notin Reading
    BY <2>2 DEF StartStep, CheckExists, GetMetadata, Create, CopyMeta, StartFails, Open, OpenFails, MetaBreaks
  <2>3. ASSUME ReadStep PROVE pc' \notin Reading
    BY <1>8, <2>3 DEF ReadStep, BlockUnreadable, ReadEnd, FetchBreaks
  <2>4. ASSUME NEW i, NEW j, Misread(i, j) PROVE pc' \notin Reading
    BY <2>4 DEF Misread
  <2>5. ASSUME OpStep PROVE pc' \notin Reading
    BY <1>8, <2>3, <2>4, <2>5 DEF OpStep, OpenOp, LookupFails, TablePanics, OpenDir, OpenDirFails, NextEntry,
         ReaddirEnd, EntryFails, Stat, Readlink, Getxattr, Listxattr
  <2>6. ASSUME Take \/ Exit \/ Kill \/ \E n \in Pages : KillCopying(n) PROVE pc' \notin Reading
    BY <2>6 DEF Take, Exit, Kill, KillCopying
  <2>. QED BY <1>1, <1>3, <1>8, <2>1, <2>2, <2>5, <2>6 DEF Next
<1>. QED BY <1>3, <1>4, <1>5, <1>6, <1>7, <1>8

\* In a fresh file the pages of a block are the current version's, or missing; and whole,
\* if it is not what the read is kept from.
LEMMA FreshBlock ==
  ASSUME Inv, Fresh, NEW b \in Blocks, pc \in {"blocks", "raw"}
  PROVE  /\ sb = object /\ object # Hole
         /\ \A g \in PagesOf(b) : g \in Pages /\ (page[g] = object \/ g \in Holes(b))
         /\ b \in spoilt \/ \A g \in PagesOf(b) : g \notin torn
<1>1. sb = object /\ \A g \in Pages : page[g] \in {object, Hole}
  BY DEF Inv, CacheFresh, Serving
<1>2. object # Hole
  BY SentinelAssumption DEF Inv, FsTypeOK
<1>3. b \in spoilt \/ \A g \in PagesOf(b) : g \notin torn
  BY DEF Inv, CallOK, SpoiltOK, TornBlocks
<1>. QED BY <1>1, <1>2, <1>3, PageFacts DEF Holes

\* A fetch leaves no hole in the block.
LEMMA FetchCovers ==
  ASSUME NEW b \in Blocks, NEW g \in Holes(b)
  PROVE  g \in FetchFirst(b) .. FetchLast(b)
<1>1. /\ At[b].first \in Nat /\ At[b].last \in Nat /\ At[b].stop \in Pages
      /\ At[b].last <= At[b].stop
  BY ArchiveAssumption DEF Pages
<1>2. Holes(b) \in SUBSET Nat /\ Holes(b) # {} /\ g \in At[b].first .. At[b].last /\ Holes(b) \subseteq Pages
  BY <1>1, PageFacts DEF Holes, PagesOf
<1>3. Min(Holes(b)) \in Pages /\ Min(Holes(b)) <= g
  BY <1>2, MinFacts
<1>4. /\ FetchFirst(b) \in Nat /\ FetchFirst(b) <= Min(Holes(b)) /\ Min(Holes(b)) \in Nat
      /\ FetchLast(b) \in Nat /\ At[b].stop <= FetchLast(b) /\ At[b].stop \in Nat
  BY <1>1, <1>3, ChunkFacts DEF FetchFirst, FetchLast, Pages
<1>. QED BY <1>1, <1>2, <1>3, <1>4

LEMMA CollectedStep ==
  ASSUME Inv, [Next]_mountVars
  PROVE  CollectedOK'
<1>. SUFFICES ASSUME Fresh' PROVE CollectedOK'
  BY DEF CollectedOK
<1>. FsTypeOK /\ CallOK /\ FileTypeOK /\ CollectedOK
  BY DEF Inv, FsTypeOK, FileTypeOK
<1>. DEFINE Collecting == {"raw", "blocks", "entries"}
<1>. USE DEF Goto
<1>1. CASE pc' \notin Collecting
  BY <1>1 DEF CollectedOK
<1>2. CASE LoadFragments
  <2>1. /\ pc' = "blocks" /\ bytes' = << >> /\ req' = req
        /\ req \in Requests /\ req.op = "read"
    BY <1>2 DEF LoadFragments, CallOK, FsTypeOK, Serving, Ops
  <2>2. req.size \in Nat /\ Len(<< >>) = 0
    BY <2>1, RequestAssumption, EmptySeq
  <2>3. 1 .. Len(bytes') = {} /\ Len(bytes') = 0
    BY <2>1, <2>2
  <2>. QED BY <2>1, <2>2, <2>3 DEF CollectedOK
<1>3. CASE FetchBlock
  <2>1. /\ pc = "blocks" /\ pc' = "raw" /\ More /\ Fresh
        /\ bytes' = bytes /\ req' = req /\ spoilt' = spoilt
        /\ {} \subseteq Pages /\ Write(FetchFirst(Block) .. FetchLast(Block), {})
    BY <1>3 DEF FetchBlock, Missing, Fresh, reqVars
  <2>2. Block \in Blocks /\ Block' = Block
    BY <2>1, ReadFacts DEF Block, NextBlock
  <2>3. ASSUME NEW g \in PagesOf(Block) PROVE page'[g] # Hole
    <3>1. g \in Pages /\ object # Hole /\ (page[g] = object \/ g \in Holes(Block))
      BY <2>1, <2>2, FreshBlock
    <3>2. g \in Holes(Block) => g \in FetchFirst(Block) .. FetchLast(Block)
      BY <2>2, FetchCovers
    <3>. DEFINE range == FetchFirst(Block) .. FetchLast(Block)
    <3>3. Write(range, {})
      BY <2>1
    <3>. HIDE DEF range
    <3>4. /\ g \in range => page'[g] = object
          /\ page[g] = object => page'[g] = object
      BY <2>1, <3>1, <3>3, WriteFacts
    <3>. QED BY <3>1, <3>2, <3>4 DEF range
  <2>4. Holes(Block)' = {}
    BY <2>2, <2>3 DEF Holes, PagesOf
  <2>. QED BY <2>1, <2>4 DEF CollectedOK
<1>4. CASE ReadBlock
  <2>1. /\ pc \in {"blocks", "raw"} /\ pc' = "blocks" /\ More /\ Fresh /\ Holes(Block) = {}
        /\ req' = req /\ spoilt' = spoilt
    BY <1>4 DEF ReadBlock, Present, Fresh, CallOK, CollectedOK, fileVars
  <2>2. /\ Block \in Blocks /\ req.off \in Nat /\ req.size \in Nat
        /\ Len(bytes) \in Nat /\ bytes \in Seq(Items) /\ Len(Content[req.path]) \in Nat
    BY <2>1, ReadFacts
  <2>3. Block \in spoilt \/ \A g \in PagesOf(Block) : Sound(g)
    BY <2>1, <2>2, FreshBlock DEF Sound
  <2>4. PICK item \in Items : bytes' = Append(bytes, item) /\ (item = Block \/ Block \in spoilt)
    BY <1>4, <2>2, <2>3 DEF ReadBlock, Items
  <2>5. /\ Len(bytes') = Len(bytes) + 1
        /\ \A i \in 1 .. Len(bytes) : bytes'[i] = bytes[i]
        /\ bytes'[Len(bytes) + 1] = item
        /\ Block = Content[req.path][req.off + Len(bytes) + 1]
    BY <2>2, <2>4, AppendProperties DEF Block, NextBlock
  <2>6. Len(bytes) < req.size /\ req.off + Len(bytes) + 1 <= Len(Content[req.path])
    BY <2>1 DEF More, NextBlock
  <2>7. ASSUME NEW i \in 1 .. Len(bytes) + 1
        PROVE  bytes'[i] = Content[req.path][req.off + i] \/ Content[req.path][req.off + i] \in spoilt
    <3>1. CASE i = Len(bytes) + 1
      <4>1. req.off + Len(bytes) + 1 = req.off + i
        BY <2>2, <3>1
      <4>. QED BY <2>4, <2>5, <3>1, <4>1
    <3>2. CASE i # Len(bytes) + 1
      <4>1. i \in 1 .. Len(bytes)
        BY <2>2, <3>2
      <4>. QED BY <2>1, <2>5, <4>1 DEF CollectedOK
    <3>. QED BY <3>1, <3>2
  <2>. QED BY <2>1, <2>2, <2>5, <2>6, <2>7 DEF CollectedOK
<1>5. CASE OpenDir
  <2>1. /\ pc' = "entries" /\ bytes' = << >> /\ req' = req
        /\ req \in Requests /\ req.op = "readdir"
    BY <1>5 DEF OpenDir, CallOK, FsTypeOK, Serving, Ops
  <2>2. Len(Content[req.path]) \in Nat /\ Len(<< >>) = 0
    BY <2>1, RequestAssumption, ArchiveAssumption, LenProperties, EmptySeq
  <2>3. 1 .. Len(bytes') = {} /\ Len(bytes') = 0
    BY <2>1, <2>2
  <2>. QED BY <2>1, <2>2, <2>3 DEF CollectedOK
<1>6. CASE NextEntry
  <2>. DEFINE name == Content[req.path][Len(bytes) + 1]
  <2>1. /\ pc = "entries" /\ pc' = "entries" /\ Fresh /\ req' = req
        /\ Len(bytes) < Len(Content[req.path]) /\ bytes' = Append(bytes, name)
    BY <1>6 DEF NextEntry, Fresh, fileVars
  <2>2. /\ name \in Items /\ Len(bytes) \in Nat /\ bytes \in Seq(Items)
        /\ Len(Content[req.path]) \in Nat
    BY <2>1, EntriesFacts DEF Items
  <2>3. /\ Len(bytes') = Len(bytes) + 1
        /\ \A i \in 1 .. Len(bytes) : bytes'[i] = bytes[i]
        /\ bytes'[Len(bytes) + 1] = name
    BY <2>1, <2>2, AppendProperties
  <2>4. ASSUME NEW i \in 1 .. Len(bytes) + 1 PROVE bytes'[i] = Content[req.path][i]
    <3>1. CASE i = Len(bytes) + 1
      BY <2>3, <3>1
    <3>2. CASE i # Len(bytes) + 1
      <4>1. i \in 1 .. Len(bytes)
        BY <2>2, <3>2
      <4>. QED BY <2>1, <2>3, <4>1 DEF CollectedOK
    <3>. QED BY <3>1, <3>2
  <2>. QED BY <2>1, <2>2, <2>3, <2>4 DEF CollectedOK
<1>7. CASE Install
  BY <1>7 DEF Install, Fresh, FsTypeOK, Versions
<1>8. CASE UNCHANGED mountVars
  BY <1>8 DEF mountVars, fileVars, procVars, reqVars, CollectedOK, Fresh, Holes, PagesOf, Block, NextBlock
<1>9. CASE Next /\ ~LoadFragments /\ ~FetchBlock /\ ~ReadBlock /\ ~OpenDir /\ ~NextEntry /\ ~Install
  <2>. USE DEF Return, ReturnWithout, ReadReturns, End
  <2>1. ASSUME NEW r \in {"mount", "command", "force"}, Start(r) PROVE pc' \notin Collecting
    BY <2>1 DEF Start
  <2>2. ASSUME NEW r \in Requests, Call(r) PROVE pc' \notin Collecting
    BY <2>2 DEF Call
  <2>3. ASSUME StartStep PROVE pc' \notin Collecting
    BY <2>3 DEF StartStep, CheckExists, GetMetadata, Create, CopyMeta, StartFails, Open, OpenFails, MetaBreaks
  <2>4. ASSUME ReadStep PROVE pc' \notin Collecting
    BY <1>9, <2>4 DEF ReadStep, BlockUnreadable, ReadEnd, FetchBreaks
  <2>5. ASSUME NEW i \in ChunkStarts, NEW j \in ChunkStarts, Misread(i, j) PROVE pc' \notin Collecting
    BY <2>5 DEF Misread
  <2>6. ASSUME Lookup PROVE pc' \notin Collecting
    BY <2>6 DEF Lookup, CallOK, Ops
  <2>7. ASSUME OpStep PROVE pc' \notin Collecting
    BY <1>9, <2>4, <2>5, <2>6, <2>7 DEF OpStep, OpenOp, LookupFails, TablePanics, OpenDirFails,
         ReaddirEnd, EntryFails, Stat, Readlink, Getxattr, Listxattr
  <2>8. ASSUME Take \/ Exit \/ Kill \/ \E n \in Pages : KillCopying(n) PROVE pc' \notin Collecting
    BY <2>8 DEF Take, Exit, Kill, KillCopying
  <2>. QED BY <1>1, <1>7, <1>9, <2>1, <2>2, <2>3, <2>7, <2>8 DEF Next
<1>. QED BY <1>2, <1>3, <1>4, <1>5, <1>6, <1>7, <1>8, <1>9

---------------------------------------------------------------------------

LEMMA InvInit == Init => Inv
<1>. SUFFICES ASSUME Init PROVE Inv
  OBVIOUS
<1>1. << >> \in Seq(Items)
  BY EmptySeq
<1>2. page \in [Pages -> Versions \cup {Hole, Mixed}] /\ torn \subseteq Pages
  BY DEF Init
<1>3. 1 \in Versions /\ ~Fresh
  BY ArchiveAssumption DEF Versions, Init, Fresh, NoVersion
<1>4. FsTypeOK
  <2>1. /\ object \in Versions /\ fileSb = NoVersion /\ sb = NoVersion
        /\ born \in 0 .. object /\ copied \in 0 .. object
    BY <1>3 DEF Init, NoVersion
  <2>2. exists \in BOOLEAN
    BY Zenon DEF Init
  <2>3. pc = "dead" /\ req = NoReq /\ held = {} /\ reply = NoReply /\ role = "mount" /\ spoilt = {}
    BY DEF Init
  <2>4. pc \notin Serving /\ pc # "done"
    BY <2>3 DEF Serving, Ops
  <2>. QED BY <1>2, <2>1, <2>2, <2>3, <2>4 DEF FsTypeOK
<1>5. MakingOK
  BY DEF Init, MakingOK
<1>6. CallOK
  BY <1>1 DEF Init, CallOK, Ops
<1>. QED BY <1>3, <1>4, <1>5, <1>6 DEF Init, Inv, SpoiltOK, CacheFresh, CollectedOK

LEMMA InvStep == Inv /\ [Next]_mountVars => Inv'
BY TypeStep, MakingStep, SpoiltStep, CacheFreshStep, CollectedStep DEF Inv

\* Types of the mount, for every archive, any number of installs, and all faults.
THEOREM MountTypeCorrect == Spec => []FsTypeOK
<1>1. Inv => FsTypeOK
  BY DEF Inv
<1>. QED BY <1>1, InvInit, InvStep, PTL DEF Spec

\* A cache made of the archive that is under the key has nothing of an older one, and all
\* of its metadata: whatever was fetched, broken off or killed before it was made, and
\* neither in the file nor in the memory of the process that serves from it.
THEOREM CacheIsFresh == Spec => []CacheFresh
<1>1. Inv => CacheFresh
  BY DEF Inv
<1>. QED BY <1>1, InvInit, InvStep, PTL DEF Spec

---------------------------------------------------------------------------
(* What a call has allocated *)

\* The readers and inodes of a call, where it is; an answered call keeps its known leaks.
HeldOK ==
  /\ pc \notin Serving \cup {"done"} => held = {}
  /\ pc \in {"open_op", "lookup"} => held = {}
  /\ pc \in Ops \ {"readdir"} => held = {"inode"}
  /\ pc = "readdir" => held = {"inode", "dr"}
  /\ pc \in {"blocks", "raw"} => held = {"inode", "data"}
  /\ pc = "entries" => held \subseteq {"dr", "xr"}
  /\ ReleasedAtReply

LEMMA HeldStep ==
  ASSUME Inv, HeldOK, [Next]_mountVars
  PROVE  HeldOK'
<1>. FsTypeOK /\ CallOK
  BY DEF Inv
<1>. DEFINE Kept(left) == /\ left \subseteq Leaks(req)
                          /\ "dr" \in left => reply'.data = << >>
<1>1. ASSUME NEW a, NEW left, Return(a, left) \/ \E x : ReturnWithout(x, a, left), Kept(left) PROVE HeldOK'
  BY <1>1 DEF Return, ReturnWithout, Goto, HeldOK, ReleasedAtReply, Serving, Ops, Leaks
<1>2. CASE End
  BY <1>2 DEF End, Goto, HeldOK, ReleasedAtReply, Serving, Ops
<1>. USE DEF Goto
<1>3. ASSUME NEW r \in {"mount", "command", "force"}, Start(r) PROVE HeldOK'
  BY <1>3 DEF Start, reqVars, HeldOK, ReleasedAtReply, Serving, Ops
<1>4. ASSUME NEW r \in Requests, Call(r) PROVE HeldOK'
  BY <1>4 DEF Call, HeldOK, ReleasedAtReply, Serving, Ops
<1>5. CASE StartStep
  BY <1>2, <1>5 DEF StartStep, CheckExists, GetMetadata, Create, CopyMeta, StartFails, Open,
       OpenFails, MetaBreaks, reqVars, HeldOK, ReleasedAtReply, Serving, Ops
<1>6. CASE Take
  BY <1>6 DEF Take, HeldOK, ReleasedAtReply, Serving, Ops
<1>7. CASE Exit \/ Kill \/ \E n \in Pages : KillCopying(n)
  BY <1>2, <1>7 DEF Exit, Kill, KillCopying
<1>8. CASE Install \/ UNCHANGED mountVars
  BY <1>8 DEF Install, mountVars, reqVars, HeldOK, ReleasedAtReply
<1>9. CASE OpStep
  <2>1. CASE OpenOp
    <3>1. held = {} /\ \E a : Return(a, held)
      BY <2>1 DEF OpenOp, HeldOK
    <3>. QED BY <1>1, <3>1
  <2>2. CASE Lookup
    BY <2>2 DEF Lookup, CallOK, HeldOK, ReleasedAtReply, Serving, Ops
  <2>3. CASE TablePanics
    BY <1>2, <2>3 DEF TablePanics
  <2>4. ASSUME NEW i \in ChunkStarts, NEW j \in ChunkStarts, Misread(i, j) PROVE HeldOK'
    BY <1>1, <2>4 DEF Misread
  <2>5. CASE ReadStep
    <3>1. ASSUME NEW a, pc \in {"blocks", "raw"}, ReadReturns(a) PROVE HeldOK'
      BY <1>1, <3>1 DEF ReadReturns, HeldOK
    <3>2. CASE LoadFragments \/ FetchBlock \/ ReadBlock
      BY <3>2 DEF LoadFragments, FetchBlock, ReadBlock, Present, Missing, reqVars, HeldOK, ReleasedAtReply, Serving, Ops
    <3>3. CASE BlockUnreadable
      <4>1. pc \in {"blocks", "raw"} /\ ReadReturns(Err("EIO"))
        BY <3>3 DEF BlockUnreadable, Present, Missing
      <4>. QED BY <3>1, <4>1
    <3>4. CASE ReadEnd
      <4>1. pc = "blocks" /\ ReadReturns(Ok(bytes))
        BY <3>4 DEF ReadEnd
      <4>. QED BY <3>1, <4>1
    <3>5. ASSUME NEW n \in Pages, FetchBreaks(n) PROVE HeldOK'
      <4>1. pc = "blocks" /\ ReadReturns(Err("EIO"))
        BY <3>5 DEF FetchBreaks, Missing
      <4>. QED BY <3>1, <4>1
    <3>. QED BY <2>5, <3>2, <3>3, <3>4, <3>5 DEF ReadStep
  <2>6. CASE OpenDir \/ NextEntry
    BY <2>6 DEF OpenDir, NextEntry, StatLeaves, HeldOK, ReleasedAtReply, Serving, Ops
  <2>7. CASE OpenDirFails
    <3>1. held = {"inode", "dr"} /\ req.op = "readdir" /\ reply'.data = << >>
      BY <2>7 DEF OpenDirFails, HeldOK, CallOK, ReturnWithout, Ok, Ops
    <3>2. Kept(held \ {"inode"})
      BY <3>1 DEF Leaks
    <3>3. \E x : ReturnWithout(x, Ok(<< >>), held \ {"inode"})
      BY <2>7 DEF OpenDirFails
    <3>. QED BY <1>1, <3>2, <3>3
  <2>8. CASE ReaddirEnd
    <3>1. held \subseteq {"dr", "xr"} /\ req.op = "readdir"
      BY <2>8 DEF ReaddirEnd, HeldOK, CallOK
    <3>. QED BY <1>1, <2>8, <3>1 DEF ReaddirEnd, Leaks
  <2>12. CASE EntryFails
    <3>1. held \subseteq {"dr", "xr"} /\ req.op = "readdir"
      BY <2>12 DEF EntryFails, HeldOK, CallOK
    <3>2. Kept(held \ {"dr"})
      BY <3>1 DEF Leaks
    <3>3. \E x : ReturnWithout(x, Ok(bytes), held \ {"dr"})
      BY <2>12 DEF EntryFails
    <3>. QED BY <1>1, <3>2, <3>3
  <2>9. CASE Stat
    <3>1. held = {"inode"} /\ req.op = "getattr"
      BY <2>9 DEF Stat, HeldOK, CallOK, Ops
    <3>. QED BY <1>1, <2>9, <3>1 DEF Stat, StatLeaves, Leaks
  <2>10. CASE Readlink \/ Getxattr \/ Listxattr
    <3>1. held \ {"inode"} = {}
      BY <2>10 DEF Readlink, Getxattr, Listxattr, HeldOK, Ops
    <3>2. \E a : Return(a, held \ {"inode"})
      BY <2>10 DEF Readlink, Getxattr, Listxattr
    <3>. QED BY <1>1, <3>1, <3>2
  <2>11. CASE LookupFails
    <3>1. CASE req.op = "readdir"
      <4>1. ReturnWithout({req.path}, NotFound(req.op), {"dr"})
        BY <2>11, <3>1 DEF LookupFails
      <4>2. NotFound(req.op) = Ok(<< >>)
        BY <3>1 DEF NotFound
      <4>3. reply'.data = << >>
        BY <4>1, <4>2 DEF ReturnWithout, Ok
      <4>. QED BY <1>1, <3>1, <4>1, <4>3 DEF Leaks
    <3>2. CASE req.op # "readdir"
      <4>1. Return(NotFound(req.op), {})
        BY <2>11, <3>2 DEF LookupFails
      <4>. QED BY <1>1, <4>1
    <3>. QED BY <3>1, <3>2
  <2>. QED BY <1>9, <2>1, <2>2, <2>3, <2>4, <2>5, <2>6, <2>7, <2>8, <2>9, <2>10, <2>11, <2>12 DEF OpStep
<1>. QED BY <1>3, <1>4, <1>5, <1>6, <1>7, <1>8, <1>9 DEF Next

\* Every call that answers has given back what it allocated, but for the two known leaks,
\* on every way through every operation.
THEOREM CallsRelease == Spec => []ReleasedAtReply
<1>1. Init => HeldOK
  BY DEF Init, HeldOK, ReleasedAtReply, Serving, Ops
<1>2. Inv /\ HeldOK /\ [Next]_mountVars => HeldOK'
  BY HeldStep
<1>3. HeldOK => ReleasedAtReply
  BY DEF HeldOK
<1>. QED BY <1>1, <1>2, <1>3, InvInit, InvStep, PTL DEF Spec

---------------------------------------------------------------------------
(* The mount is a read-only file system *)

\* A sequence that agrees with the beginning of what stands behind off is that part of it.
LEMMA PartFacts ==
  ASSUME NEW S, NEW T, NEW s \in Seq(S), NEW t \in Seq(T), NEW off \in Nat,
         Len(t) > 0 => off + Len(t) <= Len(s),
         \A i \in 1 .. Len(t) : t[i] = s[off + i],
         NEW n \in Int, n = off + Len(t) \/ (Len(t) = 0 /\ n <= off)
  PROVE  t = SubSeq(s, off + 1, n)
<1>1. Len(t) \in Nat /\ Len(s) \in Nat
  BY LenProperties
<1>2. CASE Len(t) = 0
  <2>1. SubSeq(s, off + 1, n) = << >>
    BY <1>1, <1>2, SubSeqEmpty
  <2>2. t = << >>
    BY <1>2, EmptySeq
  <2>. QED BY <2>1, <2>2
<1>3. CASE Len(t) > 0
  <2>. DEFINE u == SubSeq(s, off + 1, off + Len(t))
  <2>1. \A i \in off + 1 .. off + Len(t) : i \in 1 .. Len(s) /\ s[i] \in S
    BY <1>1, <1>3, ElementOfSeq
  <2>2. /\ u \in Seq(S) /\ Len(u) = Len(t)
        /\ \A i \in 1 .. Len(t) : u[i] = s[off + i]
    BY <1>1, <1>3, <2>1
  <2>. HIDE DEF u
  <2>3. t = u
    BY <2>2, SeqEqual
  <2>. QED BY <1>1, <1>3, <2>3 DEF u
<1>. QED BY <1>1, <1>2, <1>3

\* The same of its length and places, for one that need not agree.
LEMMA PartPlaces ==
  ASSUME NEW S, NEW s \in Seq(S), NEW k \in Nat, NEW off \in Nat,
         k > 0 => off + k <= Len(s),
         NEW n \in Int, n = off + k \/ (k = 0 /\ n <= off)
  PROVE  LET t == SubSeq(s, off + 1, n) IN
         Len(t) = k /\ DOMAIN t = 1 .. k /\ \A i \in 1 .. k : t[i] = s[off + i]
<1>1. Len(s) \in Nat
  BY LenProperties
<1>. DEFINE t == SubSeq(s, off + 1, n)
<1>2. CASE k = 0
  <2>1. t = << >>
    BY <1>1, <1>2, SubSeqEmpty
  <2>. QED BY <1>2, <2>1, EmptySeq
<1>3. CASE k > 0
  <2>1. \A i \in off + 1 .. off + k : i \in 1 .. Len(s) /\ s[i] \in S
    BY <1>1, <1>3, ElementOfSeq
  <2>2. n = off + k
    BY <1>3
  <2>. QED BY <1>1, <1>3, <2>1, <2>2
<1>. QED BY <1>1, <1>2, <1>3

\* A step that ends a call answers it with what the archive has, if its cache is fresh, but
\* for what the call was kept from.
LEMMA ReadIsRight ==
  ASSUME Inv, Fresh, ReadEnd
  PROVE  RightAnswer(req, spoilt, Ok(bytes))
<1>. DEFINE s == Content[req.path]
            S == {req.off + req.size, Len(s)}
            n == Min(S)
<1>1. /\ pc = "blocks" /\ ~More /\ req.op = "read" /\ req.path \in Paths
      /\ req.off \in Nat /\ req.size \in Nat
      /\ s \in Seq(Blocks) /\ Len(s) \in Nat /\ bytes \in Seq(Items) /\ Len(bytes) \in Nat
  BY ReadFacts DEF ReadEnd, Inv, CallOK
<1>2. /\ Len(bytes) <= req.size
      /\ Len(bytes) > 0 => req.off + Len(bytes) <= Len(s)
      /\ \A i \in 1 .. Len(bytes) : bytes[i] = s[req.off + i] \/ s[req.off + i] \in spoilt
  BY <1>1 DEF Inv, CollectedOK
<1>3. Len(bytes) = req.size \/ req.off + Len(bytes) + 1 > Len(s)
  BY <1>1, <1>2 DEF More, NextBlock
<1>4. n \in S /\ n <= req.off + req.size /\ n <= Len(s)
  <2>1. S \in SUBSET Nat /\ S # {}
    BY <1>1
  <2>. HIDE DEF S
  <2>2. n \in S /\ \A x \in S : n <= x
    BY <2>1, MinFacts
  <2>. QED BY <2>2 DEF S
<1>. HIDE DEF n, s
<1>5. n \in Int /\ (n = req.off + Len(bytes) \/ (Len(bytes) = 0 /\ n <= req.off))
  <2>1. n = req.off + req.size \/ n = Len(s)
    BY <1>4
  <2>2. CASE Len(bytes) = 0
    BY <1>1, <1>3, <1>4, <2>1, <2>2
  <2>3. CASE Len(bytes) > 0
    BY <1>1, <1>2, <1>3, <1>4, <2>1, <2>3
  <2>. QED BY <1>1, <2>2, <2>3
<1>6. /\ Len(SubSeq(s, req.off + 1, n)) = Len(bytes)
      /\ DOMAIN SubSeq(s, req.off + 1, n) = 1 .. Len(bytes)
      /\ \A i \in 1 .. Len(bytes) : SubSeq(s, req.off + 1, n)[i] = s[req.off + i]
  <2>. DEFINE off == req.off
              k == Len(bytes)
  <2>1. /\ off \in Nat /\ k \in Nat
        /\ k > 0 => off + k <= Len(s)
        /\ n = off + k \/ (k = 0 /\ n <= off)
    BY <1>1, <1>2, <1>5
  <2>. HIDE DEF off, k
  <2>2. LET t == SubSeq(s, off + 1, n) IN
        Len(t) = k /\ DOMAIN t = 1 .. k /\ \A i \in 1 .. k : t[i] = s[off + i]
    BY <1>1, <1>5, <2>1, PartPlaces
  <2>. QED BY <2>2 DEF off, k
<1>7. RightContent(req) = SubSeq(s, req.off + 1, n)
  BY DEF RightContent, n, s
<1>8. AgreesBut(spoilt, bytes, RightContent(req))
  BY <1>2, <1>6, <1>7 DEF AgreesBut
<1>9. Ok(bytes).data = bytes
  BY DEF Ok
<1>. QED BY <1>1, <1>8, <1>9 DEF RightAnswer

\* What has been collected of a directory is the beginning of it.
LEMMA EntriesAreFirst ==
  ASSUME Inv, Fresh, pc = "entries"
  PROVE  /\ IsPrefix(bytes, Content[req.path])
         /\ Len(bytes) = Len(Content[req.path]) => bytes = Content[req.path]
<1>. DEFINE s == Content[req.path]
<1>1. s \in Seq(Paths) /\ Len(s) \in Nat /\ bytes \in Seq(Items) /\ Len(bytes) \in Nat
  BY EntriesFacts DEF Inv
<1>2. Len(bytes) <= Len(s) /\ \A i \in 1 .. Len(bytes) : bytes[i] = s[i]
  BY DEF Inv, CollectedOK
<1>. HIDE DEF s
<1>3. bytes = SubSeq(s, 1, Len(bytes))
  <2>1. \A i \in 1 .. Len(bytes) : bytes[i] = s[0 + i]
    BY <1>1, <1>2
  <2>2. bytes = SubSeq(s, 0 + 1, Len(bytes))
    BY <1>1, <1>2, <2>1, PartFacts
  <2>. QED BY <2>2
<1>4. bytes = SubSeq(bytes, 1, Len(bytes))
  <2>1. \A i \in 1 .. Len(bytes) : bytes[i] = bytes[0 + i]
    BY <1>1
  <2>2. bytes = SubSeq(bytes, 0 + 1, Len(bytes))
    BY <1>1, <2>1, PartFacts
  <2>. QED BY <2>2
<1>5. Len(bytes) = Len(s) => bytes = s
  BY <1>1, <1>2, SeqEqual
<1>. QED BY <1>2, <1>3, <1>4, <1>5 DEF IsPrefix, s

LEMMA ReaddirIsRight ==
  ASSUME Inv, Fresh, ReaddirEnd \/ EntryFails
  PROVE  RightAnswer(req, spoilt', Ok(bytes))
<1>1. pc = "entries" /\ req.op = "readdir" /\ req.path \in Paths
  BY EntriesFacts DEF ReaddirEnd, EntryFails, Inv
<1>2. Ok(bytes).data = bytes
  BY DEF Ok
<1>3. CASE ReaddirEnd
  <2>1. bytes = Content[req.path]
    BY <1>1, <1>3, EntriesAreFirst DEF ReaddirEnd
  <2>2. IsPrefix(bytes, Content[req.path])
    BY <1>1, EntriesAreFirst
  <2>. QED BY <1>1, <1>2, <2>1, <2>2 DEF RightAnswer, RightNames
<1>4. CASE EntryFails
  <2>1. req.path \in spoilt'
    BY <1>4 DEF EntryFails, ReturnWithout
  <2>2. IsPrefix(bytes, Content[req.path])
    BY <1>1, EntriesAreFirst
  <2>. QED BY <1>1, <1>2, <2>1, <2>2 DEF RightAnswer, RightNames
<1>. QED BY <1>3, <1>4

\* A directory that is not found, or does not open, is empty.
LEMMA NoEntries ==
  ASSUME NEW r, r.op = "readdir", r.path \in Paths, Kind[r.path] = "dir", NEW x, r.path \in x
  PROVE  RightAnswer(r, x, Ok(<< >>))
<1>. DEFINE e == << >>
            s == Content[r.path]
<1>1. s \in Seq(Paths) /\ Len(s) \in Nat /\ e \in Seq(Paths) /\ Len(e) = 0
  BY ArchiveAssumption, LenProperties, EmptySeq
<1>2. SubSeq(s, 1, 0) = << >> /\ SubSeq(e, 1, 0) = << >>
  BY <1>1, SubSeqEmpty
<1>3. IsPrefix(e, s)
  BY <1>1, <1>2 DEF IsPrefix
<1>4. Ok(<< >>).data = << >>
  BY DEF Ok
<1>. QED BY <1>3, <1>4 DEF RightAnswer, RightNames

LEMMA GetxattrIsRight ==
  ASSUME NEW r, r.op = "getxattr", r.path \in Paths, NEW x, NEW a,
         a = IF ~HasAttrs(r.path) THEN Err("ENODATA")
             ELSE IF Matches(r.path, r.name) = {} THEN Size(0)
             ELSE Value(Attrs[r.path][Min(Matches(r.path, r.name))], r.size)
  PROVE  a \in FsErrors \/ RightAnswer(r, x, a) \/ KnownAnswer(r, a)
<1>. DEFINE found == Matches(r.path, r.name)
<1>1. CASE ~HasAttrs(r.path)
  BY <1>1 DEF FsErrors
<1>2. CASE HasAttrs(r.path) /\ found = {}
  BY <1>2 DEF KnownAnswer
<1>3. CASE HasAttrs(r.path) /\ found # {}
  <2>1. Min(found) \in DOMAIN Attrs[r.path]
    BY <1>3, MatchFacts
  <2>. HIDE DEF found
  <2>2. a = Value(Attrs[r.path][Min(found)], r.size)
    BY <1>3 DEF found
  <2>3. CASE Attrs[r.path][Min(found)] = r.name
    <3>1. r.name \in Range(Attrs[r.path])
      BY <2>1, <2>3 DEF Range
    <3>2. a = RightValue(r)
      BY <2>2, <2>3, <3>1 DEF RightValue
    <3>. QED BY <3>2 DEF RightAnswer
  <2>4. CASE Attrs[r.path][Min(found)] # r.name
    BY <1>3, <2>2, <2>4 DEF KnownAnswer, found
  <2>. QED BY <2>3, <2>4
<1>. QED BY <1>1, <1>2, <1>3

\* Errors of S3 and of the file, and what is not there.
LEMMA FailsAreErrors ==
  ASSUME Inv, Fresh, LookupFails
  PROVE  NotFound(req.op) \in FsErrors \/ RightAnswer(req, spoilt', NotFound(req.op))
<1>1. req \in Requests /\ req.op \in Ops
  BY DEF Inv, FsTypeOK, CallOK, LookupFails, Serving
<1>2. CASE req.op = "readdir"
  <2>1. req.path \in Paths /\ Kind[req.path] = "dir"
    BY <1>1, <1>2, RequestAssumption
  <2>2. req.path \in spoilt'
    BY <1>2 DEF LookupFails, ReturnWithout
  <2>3. NotFound(req.op) = Ok(<< >>)
    BY <1>2 DEF NotFound
  <2>. QED BY <1>2, <2>1, <2>2, <2>3, NoEntries
<1>3. CASE req.op # "readdir"
  BY <1>3 DEF NotFound, FsErrors
<1>. QED BY <1>2, <1>3

LEMMA AnswersAreRight ==
  ASSUME Inv, Fresh, OpStep, pc' = "done"
  PROVE  reply' \in FsErrors \/ RightAnswer(req, spoilt', reply') \/ KnownAnswer(req, reply')
<1>. FsTypeOK /\ CallOK /\ CacheFresh
  BY DEF Inv
<1>. USE DEF Goto, Return, ReturnWithout, ReadReturns
<1>1. CASE OpenOp
  <2>1. req.op = "open"
    BY <1>1 DEF OpenOp, CallOK
  <2>. QED BY <1>1, <2>1 DEF OpenOp, RightAnswer
<1>2. CASE LookupFails
  <2>1. reply' = NotFound(req.op)
    BY <1>2 DEF LookupFails
  <2>. QED BY <1>2, <2>1, FailsAreErrors
<1>3. CASE Lookup
  BY <1>3 DEF Lookup, CallOK, Ops
<1>4. ASSUME NEW i \in ChunkStarts, NEW j \in ChunkStarts, Misread(i, j) PROVE FALSE
  BY <1>4, PageFacts DEF Misread, MetaFits, Sound, CacheFresh, Serving
<1>5. CASE ReadStep
  <2>1. CASE ReadEnd
    <3>1. reply' = Ok(bytes) /\ spoilt' = spoilt
      BY <2>1 DEF ReadEnd
    <3>. QED BY <2>1, <3>1, ReadIsRight
  <2>2. CASE ~ReadEnd
    <3>1. reply' = Err("EIO")
      BY <1>5, <2>2 DEF ReadStep, LoadFragments, FetchBlock, ReadBlock, BlockUnreadable, FetchBreaks
    <3>. QED BY <3>1 DEF FsErrors
  <2>. QED BY <2>1, <2>2
<1>6. CASE OpenDirFails
  <2>1. /\ req \in Requests /\ req.op = "readdir" /\ req.path \in Paths
        /\ req.path \in spoilt' /\ reply' = Ok(<< >>)
    BY <1>6 DEF OpenDirFails, FsTypeOK, CallOK, Serving, Ops
  <2>. QED BY <2>1, RequestAssumption, NoEntries
<1>7. CASE ReaddirEnd \/ EntryFails
  <2>1. reply' = Ok(bytes)
    BY <1>7 DEF ReaddirEnd, EntryFails
  <2>. QED BY <1>7, <2>1, ReaddirIsRight
<1>8. CASE Stat
  <2>1. req.op = "getattr" /\ req.path \in Paths /\ reply' = Ok(<<req.path>>)
    BY <1>8 DEF Stat, CallOK, Ops
  <2>. QED BY <2>1 DEF RightAnswer
<1>9. CASE Readlink
  <2>1. req.op = "readlink" /\ req.path \in Paths /\ reply' = Target(req)
    BY <1>9 DEF Readlink, CallOK, Ops
  <2>. QED BY <2>1 DEF RightAnswer
<1>10. CASE Getxattr
  <2>1. req.op = "getxattr" /\ req.path \in Paths
    BY <1>10 DEF Getxattr, CallOK, Ops
  <2>2. reply' = IF ~HasAttrs(req.path) THEN Err("ENODATA")
                 ELSE IF Matches(req.path, req.name) = {} THEN Size(0)
                 ELSE Value(Attrs[req.path][Min(Matches(req.path, req.name))], req.size)
    BY <1>10 DEF Getxattr
  <2>. QED BY <2>1, <2>2, GetxattrIsRight
<1>11. CASE Listxattr
  <2>1. req.op = "listxattr" /\ req.path \in Paths /\ reply' = Names(req)
    BY <1>11 DEF Listxattr, CallOK, Ops
  <2>. QED BY <2>1 DEF RightAnswer
<1>12. CASE OpenDir \/ NextEntry \/ TablePanics
  BY <1>12 DEF OpenDir, NextEntry, TablePanics, End
<1>. QED BY <1>1, <1>2, <1>3, <1>4, <1>5, <1>6, <1>7, <1>8, <1>9, <1>10, <1>11, <1>12 DEF OpStep

\* What a step of an operation does to what the callers see: nothing, an answer, or the end.
LEMMA OpStepSeen ==
  ASSUME Inv, OpStep
  PROVE  /\ pc \in Serving /\ UNCHANGED <<object, born, copied>>
         /\ \/ UNCHANGED <<req, reply>>
            \/ pc' = "done" /\ req' = req
            \/ End
<1>. USE DEF Goto, Return, ReturnWithout, ReadReturns, fileVars, reqVars, Serving, Ops
<1>1. CASE ReadStep
  BY <1>1 DEF ReadStep, LoadFragments, FetchBlock, ReadBlock, BlockUnreadable, ReadEnd, FetchBreaks, Present, Missing
<1>2. ASSUME NEW i \in ChunkStarts, NEW j \in ChunkStarts, Misread(i, j)
      PROVE  pc = "lookup" /\ UNCHANGED <<object, born, copied>> /\ pc' = "done" /\ req' = req
  BY <1>2 DEF Misread
<1>3. CASE TablePanics
  BY <1>3 DEF TablePanics, LooksAtAttrs
<1>4. CASE OpenOp \/ Lookup \/ LookupFails \/ OpenDir \/ OpenDirFails \/ NextEntry \/ ReaddirEnd \/ EntryFails
  BY <1>4 DEF OpenOp, Lookup, LookupFails, OpenDir, OpenDirFails, NextEntry, ReaddirEnd, EntryFails
<1>5. CASE Stat \/ Readlink \/ Getxattr \/ Listxattr
  BY <1>5 DEF Stat, Readlink, Getxattr, Listxattr
<1>. QED BY <1>1, <1>2, <1>3, <1>4, <1>5 DEF OpStep

LEMMA FsStep ==
  ASSUME Inv, [Next]_mountVars
  PROVE  [Fs!Next]_(Fs!fsVars)
<1>. FsTypeOK /\ CallOK /\ MakingOK /\ FsTypeOK' /\ CallOK'
  BY TypeStep DEF Inv
<1>. DEFINE stale == ~Fresh
<1>. USE DEF Fs!fsVars, Goto
<1>1. /\ req = NoReq <=> pc \notin Serving \cup {"done"}
      /\ reply = NoReply <=> pc # "done"
      /\ pc' = "done" => reply' \in FsAnswers
  BY DEF FsTypeOK, CallOK
<1>2. ASSUME NEW r \in Requests, Call(r) PROVE Fs!Call(r)
  BY <1>1, <1>2 DEF Call, Fs!Call, Fresh, fileVars, Serving, Ops
<1>3. ASSUME End, UNCHANGED <<object, born, copied>> PROVE Fs!Forget \/ UNCHANGED Fs!fsVars
  BY <1>1, <1>3 DEF End, Fs!Forget, Fresh, Serving
<1>4. CASE OpStep
  <2>1. CASE UNCHANGED <<req, reply>> \/ End
    BY <1>3, <1>4, <2>1, OpStepSeen DEF Fs!Next, Fresh
  <2>2. CASE pc' = "done" /\ req' = req
    <3>1. req # NoReq /\ reply = NoReply /\ (Fresh' <=> Fresh)
      BY <1>1, <1>4, OpStepSeen DEF Serving, Ops, Fresh
    <3>2. Fresh => \/ reply' \in FsErrors
                   \/ RightAnswer(req, spoilt', reply') \/ KnownAnswer(req, reply')
      BY <1>4, <2>2, AnswersAreRight
    <3>3. reply' \in FsAnswers /\ reply' # NoReply
      BY <1>1, <2>2, SentinelAssumption
    <3>. QED BY <2>2, <3>1, <3>2, <3>3 DEF Fs!Next, Fs!Answer
  <2>. QED BY <1>4, <2>1, <2>2, OpStepSeen
<1>5. CASE Create
  <2>1. req = NoReq /\ ~Fresh' /\ UNCHANGED <<req, reply>>
    BY <1>1, <1>5 DEF Create, Fresh, FsTypeOK, Versions, NoVersion, reqVars, Serving, Ops
  <2>. QED BY <2>1 DEF Fs!Next, Fs!Replaced
<1>6. CASE CopyMeta
  <2>1. req = NoReq /\ ~Fresh /\ UNCHANGED <<req, reply>>
    BY <1>1, <1>6 DEF CopyMeta, Fresh, MakingOK, FsTypeOK, Versions, NoVersion, reqVars, Serving, Ops
  <2>. QED BY <2>1 DEF Fs!Next, Fs!Remade
<1>7. CASE Install
  <2>1. ~Fresh' /\ UNCHANGED <<req, reply>>
    BY <1>7 DEF Install, Fresh, FsTypeOK, Versions, reqVars
  <2>. QED BY <2>1 DEF Fs!Next, Fs!Replaced
<1>8. CASE StartStep /\ ~Create /\ ~CopyMeta
  <2>1. CASE CheckExists \/ GetMetadata \/ Open
    BY <2>1 DEF CheckExists, GetMetadata, Open, Fresh, fileVars, reqVars
  <2>2. CASE StartFails \/ OpenFails \/ \E n \in Pages : MetaBreaks(n)
    BY <1>3, <2>2 DEF StartFails, OpenFails, MetaBreaks, fileVars, Fs!Next
  <2>. QED BY <1>8, <2>1, <2>2 DEF StartStep
<1>9. CASE Take
  BY <1>1, <1>9 DEF Take, Fresh, fileVars, Fs!Next, Fs!Forget
<1>10. CASE Exit \/ Kill \/ \E n \in Pages : KillCopying(n)
  BY <1>3, <1>10 DEF Exit, Kill, KillCopying, fileVars, Fs!Next
<1>11. ASSUME NEW r \in {"mount", "command", "force"}, Start(r) PROVE UNCHANGED Fs!fsVars
  BY <1>11 DEF Start, Fresh, fileVars, reqVars
<1>12. CASE UNCHANGED mountVars
  BY <1>12 DEF mountVars, Fresh, fileVars, reqVars
<1>. QED BY <1>2, <1>4, <1>5, <1>6, <1>7, <1>8, <1>9, <1>10, <1>11, <1>12 DEF Next, Fs!Next

\* The mount implements a read-only file system: as long as the archive the cache was made
\* of is the one in S3, every call is answered by what the archive has or by an error, but for
\* the blocks that lie in a page in part, the directories the disk fails to give, and the
\* attributes that begin alike.
THEOREM MountImplementsFs == Spec => ImplementsReadOnlyFs
<1>1. Init => Fs!Init
  BY Zenon DEF Init, Fs!Init
<1>2. Inv /\ [Next]_mountVars => [Fs!Next]_(Fs!fsVars)
  BY FsStep
<1>. QED BY <1>1, <1>2, InvInit, InvStep, PTL DEF Spec, ImplementsReadOnlyFs, Fs!Spec
============================================================================
