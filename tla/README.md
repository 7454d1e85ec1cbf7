# S3 archive access for squashfs: specification, model checking, proofs

This directory holds a TLA+ development of `s3archivefs`: a squashfs archive is kept as one S3
object and read through a sparse local cache file, which is filled range by range as libsquashfs
asks for it. It states what the parts of the program promise, checks the promises on small instances
with TLC, and proves the most important ones for every value of the constants with TLAPS.

Paths below are relative to the repository; `PROJECT.json` maps every definition to the lines it
stands for, every hazard of the code to the properties that would catch it, and every property to a
fault in the code that breaks it.

## 1. The system

| Part | Source | State | Operations |
|---|---|---|---|
| Cache file and fetching | `s3archivefs/src/repo.rs` 94-102, 219-258, 319-358 | the sparse file, the `flock` on it, the `Local` of each process | fetch an aligned range, take the lock within 10 s, copy the stream |
| Hooked read | `s3archivefs/src/hook_helper.rs` | the two function slots of `sqfs_file_t` | `archive_read_at`: metadata or data, hole detection (`ALLZERO`, `LSEEK`), fetch, raw read |
| Making and opening the cache | `repo.rs` 111-213, `squashfs_v1.rs` 107-211, `squashfs.rs` 168-216 | the cache path | `Local::new`: test, HeadObject, create, superblock, metadata, open, hook |
| Installing | `repo.rs` 77-85, `transfer.rs` | the object and its superblock metadata | `intall_archivefs`, `upload_object`, multipart, put |
| Object Lambda: list | `s3archivefs-lambda/src/main.rs` 326-422, `squashfs_v1.rs` 438-495 | the client's token | `list_objects_v2_handler`, `filter_result` |
| Object Lambda: head, get | `main.rs` 87-324, `squashfs_v1.rs` 273-411 | the temporary directory of an instance | `head_object_handler`, `get_object_handler`, `do_extract_one` |
| Prefix map | `s3archivefs-lambda/src/vmap.rs` | the map of virtual prefixes | `PrefixVMap::new`, `query`, stripping of the prefix |
| FUSE front end | `s3archivefs-fuse/src/main.rs`, `squashfs.rs` 218-793 | none of its own | `read`, `readdir`, `readlink`, `getattr`, `getxattr`, `listxattr` |
| Command line | `s3archivefs/src/main.rs` | none | `meta`, `install`, `extract`, `list`, `stat` |

How they interact:

- libsquashfs calls `archive_read_at` for every read of the archive; it finds its `Local` in a
  thread-local `CONTEXT`, and calls `request_remote_data_task`, which runs in a thread of its own
  and is joined, so that each process has one call under way.
- Processes share nothing but the cache file: one FUSE mount and several commands on one path, or
  many lambda instances on one EFS directory. The file lock covers the copy of a stream only; hole
  detection and raw reads take no lock, and neither does `Local::new`.
- Installers share the S3 object. A reader meets it three times: HeadObject for the superblock,
  GetObject for the metadata, GetObject for each range, with no check that it is still the same
  object. A mount keeps its cache file over restarts and reinstalls.
- The lambda makes a new `Local` for each request. Instances share the cache only if it is on EFS;
  each has its own temporary directory.

What is hard: the interleaving of detection, fetch and read of several processes over one file with
no lock around them; pages of the file that are written in part, and that lseek takes for data; a
file that is visible from its creation on; processes that are killed at any point; streams that
break; the boundary arithmetic of chunks, parts and pages; lost answers; paging over instances that
do not have the same archive; error codes of a C library whose sign matters.

What makes the parts correct:

- *Cache*: a read that succeeds returns the archive's bytes; what is right stays right; nobody waits
  for the lock for ever; a cached range needs nothing from S3. In short, the cache is invisible. The
  code falls short of this at pages that are written in part, in page 0, and in the all-zero mode
  (section 5); what is checked and proved is that it does so nowhere else.
- *Local::new*: who gets through has a superblock and all the metadata; `force` always gets through;
  a start ends.
- *Installing*: the object is always one whole archive with its own superblock.
- *Listing*: no key twice, none missing, and an end.
- *Head and get*: a 200 is the whole file, a 206 the range (unless a block was skipped), a 404 means
  that there is no such file; a download ends.
- *Prefix map*: the longest mapping serves a key; a listing has all the keys that begin with its
  prefix; a key that was listed is fetched as the file it was listed for.
- *FUSE*: an answer is what the archive has, or an error, as long as the archive under the key is
  the one the cache was made of; every call is answered and gives back what it allocated. The wrong
  answers and the leaks there are are named in the properties.

## 2. Modules

| Module | Lines of code it models | Contents |
|---|---|---|
| `CacheFile` | `repo.rs` 88-102, 152-163, 225-228 | the page-granular cache file, the lock, `Local`, the address arithmetic |
| `ArchiveFile` | none: the promise | an archive file without a cache: call, answer (an error, or the right bytes but for pages that are named as partial), forget |
| `ReadAt` | `hook_helper.rs`, `repo.rs` 219-258, 319-358, `transfer.rs` 231-256 | one process step by step, any number of them, faults, crash, restart |
| `ReadAtProofs` | | theorems about `ReadAt` |
| `LocalNew` | `repo.rs` 45-68, 111-213, `squashfs_v1.rs` 61-70, 107-211, `squashfs.rs` 168-216 | `Local::new` |
| `SharedCache` | `s3archivefs/src/main.rs` 117-188 | `ReadAt` and `LocalNew` composed: the life of one cache path |
| `SharedCacheProofs` | | theorems about `SharedCache`, `LocalNew` and `ReadAt` together: what opens, and what is read through a file that is made, abandoned and made again |
| `Install` | `repo.rs` 77-83, `transfer.rs` 40-229 | installers on one key |
| `InstallProofs` | | theorems about `Install` |
| `Listing` | `s3archivefs-lambda/src/main.rs` 47-67, 326-480, `squashfs_v1.rs` 438-495 | ListObjectsV2 and its client |
| `ListingProofs` | | theorems about `Listing`, and what its traversal and its pages are |
| `GetObject` | `s3archivefs-lambda/src/main.rs` 87-324, `squashfs_v1.rs` 273-411 | HeadObject, GetObject and the client that downloads |
| `GetObjectProofs` | | theorems about `GetObject` |
| `PrefixMap` | `s3archivefs-lambda/src/vmap.rs` 13-111, `main.rs` 37-45, 92-96, 123-136, 262-300, 328-387, 424-480 | the map, the query, and the way of a key through the three handlers |
| `PrefixMapProofs` | | theorems about `PrefixMap`, and what its functions on strings compute |
| `DataLemmas` | | induction, recursion and prefixes: what the proofs about strings and paths need |
| `ReadOnlyFs` | none: the promise | a mounted archive: call, answer (the right one but for what the call was kept from, a known wrong one, or an error), forget; stale or not |
| `Mount` | `s3archivefs-fuse/src/main.rs` 34-188, 328-378, `squashfs.rs` 47-82, 168-301, 363-793 | the FUSE operations over a cache whose archive is replaced |
| `MountProofs` | | theorems about `Mount` |
| `MC*` | | constants for TLC |

### How state and actions correspond

**CacheFile, ReadAt.** `page[g]` is what the cache file holds at block `g` of the local file system.
The archive's bytes are not modelled: page `g` of the archive is the number `g`, so "right" is
`page[g] = g`. `Hole` is a page never written (what `SEEK_HOLE` finds), `Torn` a page written in
part, `Tail` the last page with the zero byte that gives the file its length, `Super` page 0 with
the superblock and zeros behind it. The last three are data for `SEEK_HOLE` (`Unfinished`).
Positions are pages because a hole is; a chunk is a whole number of pages. `pc` walks through
`archive_read_at`: `ready`, `detect`, `request` (S3 is asked), `lock` (`FileLock::poll`), `copy`,
`read`, `done`. The copy writes its buffer wherever in a page it is full: `CopyPart` writes a part
of the next page, `CopyPage` all of it, and between the two others read, and the stream breaks, or
the process is killed, and leaves the page as it is. `from` is `new_offset`, `wpos` the file
position of the copy. `local[p].read_at` and `write_at` are the slots of `sqfs_file_t`; the raw read
goes through `write_at`, as in the code. The ten seconds of the timeout are a choice that is open
while somebody else has the lock.

**LocalNew, SharedCache.** One label for each await of `Local::new`. `expect` and `panic!` lead to
`panicked`, from where the process can only be started again. `Tables[v]` are the metadata pages
reader version `v` cannot open the file without; one that is there in part may load or not
(`CanOpen`, `MustOpen`). `CopyMetaPart` and `CopyMetaPage` are the metadata copy, in pieces of any
length too; `Hook` is `set_hook`. After a superblock that could not be read version 1 goes on with
what was on the stack (`ret > 0` at `squashfs_v1.rs` 120, while the errors are negative): label
`undefined`, which is not followed. `SharedCache` starts from no file and lets any process start,
panic, exit and be killed.

**Install.** A part is the archive it was read from, its offset and its length. The object changes
only in `CompleteUpload` and `PutObject`; S3's assembly in the order of the part numbers is
external, and so are its limits: for a part (`PartAllowed`), and for all but the last part and the
object (`UploadAllowed`). `unwrap` is `panicked`, an `Err` is `failed`.

**Listing.** A path is a sequence of numbers, in the order of names in a directory. `TraverseTree`
is the traversal, a recursive function of how far down it goes, and `Siblings` what it does with the
entries of one directory; `FilterResult` is the filter with its order of steps (token, prefix,
page). The client, lost answers and the replacement of instances are external.

**GetObject.** Unit `k` of a file of version `v` is `<<v, k>>`. The extraction is a step for each
block; `rest` is the code's `file_size`, `blk` its `i`. `free` is what is left of the temporary
directory, which nothing gives back. `ByteStream` with `Length::Exact` refuses a file that is too
short. Any block may fail to be read, and is then written as no bytes (`SkipBlock`, `squashfs_v1.rs`
331); `skipped` and `gaps` observe how many were. A read of the archive is taken to be right or to
fail. `ReadAt` shows how far the hooked read is; for version 1 of the reader, which the lambda uses,
it is an assumption: hooked twice it does not return (finding 1).

**PrefixMap.** A string is the sequence of its bytes, which are small numbers, so that keys sort as
in the code. `slots` and `lines` are the variables and the file the map is loaded from, by every
invocation anew; `Found` is `rfind` over the sorted prefixes, `Seen` those it has looked at,
`CutsCharacter` the panic of `split_at` inside a character. A mapping's target is an archive, or
`NoArchive` if it is no s3 URL of an object. `PathKey` is the key as GetObject and HeadObject see
it, percent-encoded and without its first slashes; a listing's prefix comes decoded. `Canonical` is
what libsquashfs makes of a path, and a path that goes on below a file (`RunsThroughFile`) is a
panic of the reader. `%` is itself one of the bytes a URL escapes. `Trimmed`, `Encoded` and
`NamesUpTo` are recursive functions of the length treated so far. What GetObject then answers is
`GetObject`'s.

**Mount.** The archives that are installed under the key in turn have numbers, and `page[g]` is the
version page `g` of the cache file was fetched from, or `Hole`; `Mixed` is a page with bytes of two
of them, or of none. `torn` are the pages that are there in part: page 0 once the superblock is
written, and those a stream stopped inside of (`WriteUpTo`, in `MetaBreaks`, `FetchBreaks`,
`KillCopying`). `Holes` are found page by page, as lseek does, so that a block in such a page is
read as it is; `TornBlocks` are the blocks this happens to. A fetch is a step, from the chunk of the
first hole to the end of the chunk behind the block; what several processes do to one another is
`ReadAt`'s and `SharedCache`'s. `pc` walks through `Local::new` (`exists` to `open`) and through
each operation: `lookup` is `sqfs_dir_reader_find_by_path`, then the operation's own label; `blocks`
and `raw` are the read loop, `entries` the directory iterator. `held` names what libsquashfs has
allocated and was not given back. `role` is the mount, which never forces, or a command on the same
cache, which may. `born` and `copied` observe which archives the superblock and the metadata came
from, and `spoilt` what the call under way was kept from: blocks in part, and a directory of which
the disk did not give an entry. `Misread` is a call on metadata that does not fit: it may fetch any
range and answers anything. The observers are needed because the file does not tell: a fetch of page
0 after a reinstall writes the new superblock over the old one (`fileSb` in `Write`), so that a
later start finds the superblock of the archive in S3 in a cache with the metadata of the last one.
The model has this; `CacheFresh` shows that it ends with the next start with force.

## 3. Runs

| Run | Expect | Bounds | What it shows |
|---|---|---|---|
| `read_shared` | pass | 2 processes, 7 pages, chunks of 2 and 3, 4 ranges, both modes | all properties of `ReadAt` but `ReadsCorrect`, and that it implements `ArchiveFile`, with writes that end inside a page, failing requests, streams and locks, kills and restarts |
| `cache_lifecycle` | pass | 2 processes, 6 pages, chunks of 2 and 3, both readers, with and without force | starts, failures and kills at any step, and in any page, of making and using the file: what opens is complete, what is finished stays finished, force always opens, and all of it implements `ArchiveFile` |
| `install_shared` | pass | 2 installers, 7 sizes, chunks of 2, 4 and 5, parts of 2 to 4, 3 parts, objects of at most 10 | the object is whole; S3 refuses a part exactly if the chunk is too large, and an upload exactly if the object is; every install ends |
| `listing_pages` | pass | 2 instances, 2 versions, 7 and 6 files, pages of 0 to 3 keys, 2 retries | no key twice, none lost that need not be, an end |
| `gateway_get` | pass | 2 instances, 2 versions, 10 kinds of objects, blocks of 2 of which any may fail, 6 units of space, 1 retry | whole and range answers, downloads and what a skipped block does to them, 404 only if the disk is full |
| `mount` | pass | 1 process, 3 versions, 6 pages in chunks of 2, 4 paths, 23 requests | every FUSE operation over a cache that gets stale and pages that get torn: while it is fresh no wrong answer but those named, no leak but the known ones, an answer to every call |
| `key_routing` | pass | 2 variables, 1 line, 8 mappings and a malformed one, 11 prefixes, 7 keys | every map of these settings: the longest mapping serves, listings are what was asked for, listed keys are found |
| `first_page` | violation | 1 process | the first block, if it ends inside page 0, is read as zeros |
| `allzero_shared` | violation | 2 processes, no fault | the all-zero mode reads half-copied ranges |
| `torn_shared` | violation | 2 processes, no fault | lseek finds no hole in a page the other process is in the middle of |
| `init_concurrent` | violation | 2 processes, no fault | the second start panics on the file of the first |
| `double_hook` | violation | 1 process, no fault | a read behind version 1 calls itself for ever |

Why the bounds are enough for the cases to happen:

- *Reads.* Seven pages with the inode table in page 5: chunks of 2 put the metadata copy a page
  below the table, chunks of 3 two pages below. The ranges start and end at, before and behind chunk
  boundaries, overlap each other, and include one whose last page's end is the next page's start. A
  range spans up to two chunks, so a fetch can find its first chunk there and its second missing,
  and the all-zero mode half of what it looks at. Two processes suffice for every interleaving of a
  fetch with a fetch and of a fetch with a read; a third would be one more reader.
- *Cache.* Six pages with the metadata in the last three and a table in each of them: the fragment
  table, the id table, which version 2 opens with, and behind it the xattr table, which it meets
  later. Any prefix of the metadata copy is a possible leftover, with and without the tables each
  reader needs, and with any of them in part.
- *Install.* Sizes 0, 2, 4, 5, 8, 11 and 13 with parts of 2 to 4, at most 3 of them, and objects of
  at most 10: too short for a superblock, one put, an exact multiple, a short last chunk, one that
  needs the environment's chunk, one that is too large for S3 only, one that is too large for the
  code. Chunk sizes from the environment below the minimum, at S3's limit for a part, and above it.
- *Listing.* Directories before and behind the prefix, nested, vanishing and new between versions;
  pages of 0 keys (the panic), 1, 2, 3.
- *Get.* Files of whole blocks, with a short last block, with a fragment, empty, beyond the range of
  an `i32`; a temporary directory that holds one and a half downloads.
- *Mount.* Three versions, because a cache made during the second install is the first that can have
  three of them in it. The file's blocks are one that lies in page 0 behind the superblock, one that
  ends where a chunk begins, one that runs into the first metadata chunk, and a fragment in it, so
  that a fetch can be wholly in the data, run into the metadata, rewrite the superblock, and break
  in each kind of page. Attributes of which one begins with the other, in both orders; reads of all,
  of one block, of the middle, over the end, and behind it.
- *Key routing.* Nested prefixes, with and without slashes at either end, the root mapping, one that
  maps to no archive, one that is not ASCII, and a setting that is not a pair; paths with a space
  and a percent sign, with the names of the prefixes, and with repetitions of them, so that a listed
  path can begin with the prefix of its mapping once more; keys and prefixes that go on below a
  file; 1000 ways to set the variables and the file.

`CHECK_DEADLOCK FALSE` is in the listing run only: there the system ends when the client has its
list.

### Fairness

- `ReadAt`: weak fairness of each process's own steps (detection, polling, raw read, return).
  `FileLock::poll` wakes itself (`repo.rs` 356), and the rest is straight-line code. Nothing is
  assumed of S3 or of the holder of the lock: `LockWaitEnds` comes from the timeout.
- `SharedCache`: in addition S3 answers in the end. `StartEnds` needs it: no request has a timeout
  of its own.
- `Install`, `GetObject`, `Listing`: the command or the handler runs and is answered; the client
  goes on. Weak fairness is of the disjunction of all outcomes, so nothing says which one it is. A
  client asks a bounded number of times (`MaxTries`).
- `Mount`: weak fairness of `StartStep` and of `OpStep`: S3 answers or fails, and the process goes
  on. Nothing makes the kernel ask, take its answer, or anybody start, exit or install.
- `PrefixMap` has safety properties only: an invocation is straight-line code.

## 4. Proofs

`ReadAtProofs`, for any set of processes, geometry and requests that satisfy the assumptions of the
modules:

- `TypeCorrect`, `CopiesExcludeEachOther`, `CacheNeverDegrades`, `RangesAreFetched`,
  `ReadsAreFetched`, `CopiesAreWhole` and `CacheImplementsArchive` need no further assumption: they
  hold in both modes, for writes that end anywhere in a page, and with every fault.
- `ReadsAreRightAlone` assumes `AloneSetup`: one process, lseek mode, no stream that breaks and no
  kill, chunks of at least two pages, and a first data block that does not end inside page 0. Each
  part is needed, as `torn_shared`, `allzero_shared` and `first_page` show; a stream that breaks, or
  a kill, leaves the page of `torn_shared` in the file. In the all-zero mode one process alone is
  not enough: of a block that lies in two chunks, a neighbour's fetch brings one, and the block then
  has a byte that is not zero. Chunks of one page would let page 1 be fetched without page 0, which
  then keeps the superblock's zeros.

The argument: `AnswersFetched` is not inductive, because the raw read is right only if what the
detection skipped has stayed and what it missed has been written. `FetchInvariant` says that. Of the
file: each page is a hole, or right, or begun, and the metadata is complete. Of a process under way:
the pages of its range before `from` are no holes, and what it has written is right. Other processes
preserve all of it because no step turns a right page into another (`CacheNeverDegrades`) and none
makes a page a hole. At the end of the copy the whole range is right (`CopiesAreWhole`), and the
refinement follows: each answer is an error, or the archive's bytes wherever the file was not in
part when it was read. What `ArchiveFile` leaves open is the set `partial`, which is the file's own
state at the time of the answer: with lseek the pages that are `Unfinished`, with the all-zero mode
those that are not right. Metadata is complete in `ReadAt` and is never in it.

`ReadsAreRightAlone` adds `TornInStream`, which ties each torn page to the holder of the lock, which
is at it, and `FrontSound`, which says that page 1 is not there without page 0, so that a range from
page 0 on always finds its hole at page 1 and fetches from page 0.

`InstallProofs`: `InstallTypeCorrect` without further assumption; `ObjectIsWhole` if no archive file
is rebuilt while it is installed (with `RebuildAnytime = TRUE` TLC finds an object of two archives),
and so does `PartsAreLegal`, whose two cases of a refusal are those the code does not test: a chunk
size from the environment above S3's limit for a part, refused with the first part
(`FirstPartRefused`), and an archive above the limit for an object. `InstallInvariant` says that an
upload under way holds the first parts of one archive; the arithmetic lemmas `Division`,
`PartsCover` and `PartFacts` show that the parts tile it.

`SharedCacheProofs`: `CacheTypeCorrect`, `HookedOnce` and `SharedCopiesExclude` hold for every
setup; the others assume `SoloInstall`, the rule of the deployment below, without which they are
false (`init_concurrent`). `WhatOpensIsComplete` needs to know what an interrupted start leaves
behind. `Solo` says that who makes the file is alone. `NoGap` says of the file that no hole in the
metadata, nor any page in part, has a page above it that is there, and `Streaming` of who copies
that all metadata pages below its position are there; since copies and fetches go through the file
in order, a table that loads has everything below it, and the superblock was written before it.
`Progress` says how far the maker is (truncated, with the superblock, up to page `wpos`), so that it
reaches `open` with a finished file: hence `ForcedStartSucceeds` and, since no other step of anybody
takes a page away, `FinishedStays`. A table loads as soon as its pages are there: that a table of
another version may pass for one is `Mount`'s.

The second half of the module is about reads: `SharedReadsAreFetched` and
`SharedCacheImplementsArchive` assume `SoloInstall` and nothing else. `ReadAtProofs` starts from a
file with all its metadata; here nothing is there at first, and a start that failed leaves a file
with holes in the metadata. `Filled` says that these have no gap, so that the metadata up to the
last table a process opened with is there; above it version 2 may meet a page that is not, as its
xattr table in a file whose copy was interrupted behind the id table, and `CachePartial` promises
nothing of those. `FileSound` says of the data what `FetchInvariant` does. `Served` says which
processes read at all (version 2's, hooked once, on a file whose tables load), and from there the
steps of `ReadAt` are those that `ReadAtProofs` has done. Processes of version 1 are hooked twice
and answer nothing (`Twice`, finding 1).

`GetObjectProofs`: no assumption but those of `GetObject` on its constants; any archives, instances,
space, ranges, losses and retries. `Extracted` is about the temporary file: as long as it and what
is left to extract make up the whole file, it is the front of the file, because bytes are only ever
lost, to blocks that are skipped and writes that are cut; if no block was skipped they are lost only
when there is no space left. Hence a 200, whose stream is refused if it is short, is the whole file,
a 206 is its part if no block was skipped (`PartRight`) and otherwise has, at each place, a unit of
this place or of a later one (`PartLate`), and a 404 means a full instance: `Answered`, from which
`WholeAnswersAreRight` and `FilesAreFound` follow. `Loaded` says the same of each unit the client
has, in some version, and `Complete` that a download that ended is a whole file or as long as
HeadObject said: `DownloadsAreRight`.

`ListingProofs`: any versions of the archive, of any depth and number of names, any prefix, page
sizes, instances, losses and retries. Paths are ordered by the first directory in which they part
(`Before`). `WalkList` says that what the traversal makes of any version is the files below the
directory in this order, by induction over the height and, in `SiblingsList`, over the entries;
`AfterTokenList`, `RetainList` and `PageFacts` that the token, the filter and the page keep the
order, and `HandlerFacts` puts them together: the keys of an answer are behind the token, and every
wanted key behind the token is among them or behind the next one. The order is the same in all
versions, which is why a token that another version gave out does no harm: `ListedInv` says that
what the client has is in order and ends with its token, and that the answer on its way is to this
token. `ListingTypeCorrect` and `KeysGivenOnce` follow. `NothingSkipped` adds that a key of all
versions that was not given yet is behind the token; it is inductive as long as the token itself is
in all versions, and for a client that looks for the token in `ContinuationToken`.
`ListingsAreComplete` states these two conditions: where the first fails the answer is empty and the
rest is lost, where the second fails there is one page only (section 5).

`PrefixMapProofs`: any settings, archives, prefixes and keys, of any length; only the assumptions of
`PrefixMap`: a byte is a number, `/` and the hexadecimal digits are not escaped, `%` and a byte that
continues a character are, no path in an archive has an empty name, and a file is no directory. The
invariant is `RoutingInv`. `Loaded(n)` says of the map that it has the first `n` settings that are
read, for each prefix the last of them (of which `KeysAreRouted` says no more than that it is one of
them): it grows with `LoadSlot` and `LoadLine`, and at `query` it is all of them. `RouteInv` ties
the route and the answer to that map, and `FromInv` remembers of a listed key which pair and which
archive it came from, since the next invocation loads a new map from the same settings. The rest is
about strings. `DataLemmas` has induction over the numbers as the least counterexample, and that a
recursive function on `0 .. n` exists, from which `TrimmedFacts`, `EncodedFacts` and `NamesFacts`
follow. `FoundLongest`: among prefixes of one key the order of bytes is that of length
(`PrefixOrder`), so that the last that matches is the longest, and none cuts a character; with
`BestFacts` this is `KeysAreRouted`. `TopFacts`: the directory that is searched is above every file
whose path begins with what is searched for, and the paths it gives are a slash and the file, unless
the prefix runs through a file; with `SearchBelow` this is `ListingsMatch`. `PathLeadsBack`: a
listed path, whatever slashes the client put in it, is the file's once libsquashfs has skipped the
empty names; with `KeyLeadsBack` and `OwnRoute` this is `ListedKeysComeBack`. The exceptions in the
property are not there for the proof: each is a behaviour of the code (section 5), and TLC finds
`key_routing` violated without it.

`MountProofs`: again no assumption but those on the constants. `MakingOK` says what is in the file
at each step of `Local::new`: nothing until it exists, and at `metacopy` nothing but the superblock
of its maker, because only a start with force makes a file that exists anew, and it truncates it.
From there `CacheIsFresh`: nothing but `object` is ever written (`WriteFresh`), so in a cache whose
superblock and metadata are of the archive that is under the key now, everything is, and the
metadata, once copied, is written over only from its front. `CallOK` places a call in its operation.
`SpoiltOK` says that a read knows all blocks in a page that is there in part: none comes to be while
it goes on, because a fetch that stops inside a page ends the call. `CollectedOK` says that what it
has collected from a fresh cache is a beginning of its answer, but for those blocks.
`MountImplementsFs` is the refinement: every step of `Mount` is one of `ReadOnlyFs` under `call <-
req, answer <- reply, stale <- ~Fresh, spoilt <- spoilt`, or a stutter; a cache becomes fresh only
in `CopyMeta`, while nothing is served, and stale in `Install` or `Create`. What it promises of a
fresh cache is the archive's answer or an error, with three exceptions, which are the code's: a
block in a page that is there in part may be anything (`AgreesBut`); a directory the disk does not
give an entry of is a beginning of it (`RightNames`); and `getxattr` gives the value of the first
attribute whose name begins with the one asked for, or an empty value (`KnownAnswer`). `HeldOK`
lists what each label may hold, for `CallsRelease`.

### Refinements

`ReadAt` implements `ArchiveFile` (`ImplementsArchiveFile`), and so does all of its life in
`SharedCache` (`CacheImplementsFile`); `Mount` implements `ReadOnlyFs` (`ImplementsReadOnlyFs`). All
three are checked and proved. The mappings are written with INSTANCE ... WITH and hide the cache,
but for what the abstract modules name as excepted: the pages in part, and what a call was kept
from. These are parameters of the promise, computed from the state of the code when it answers, and
not state of the abstract modules.

### Only model-checked

- Liveness (`LockWaitEnds`, `CachedReadAnswered`, `StartEnds`, `InstallEnds`, `ListingEnds`,
  `DownloadEnds`, `RequestEnds`): the prover has no fairness and no `ENABLED`.

Every other property of the passing runs is stated by a theorem. `ReadsCorrect`, `StartNeverPanics`
and `ReadReturns`, which the code violates, are properties of the violation runs; the first is a
theorem under `AloneSetup`.

## 5. Findings

Each violation run is a disagreement between the code and what it, or its documentation, says;
`PROJECT.json` quotes the lines.

1. `double_hook`: version 1 of the reader is hooked twice, after which a data read recurses.
2. `first_page`: a first block inside page 0 is never fetched.
3. `allzero_shared`: the mode chosen for a shared cache reads what is half copied. It fails for one
   process alone too, on a block that lies in two chunks of which its neighbour's fetch has brought
   one.
4. `torn_shared`: a page that is written in part is data for lseek, and the rest of it is read as
   zeros, by others while the copy goes on, and by everybody, from then on, if the stream broke or
   the process was killed there.
5. `init_concurrent`: a cache file is used before it is finished. A process killed in `Local::new`
   leaves the same file behind; only `force` helps (`ForcedStartOpens`). If it was killed behind the
   id table, version 2 does open the file, and meets a missing xattr table later (`CachePartial`).

Disagreements met while modelling that no run shows, because the models have them as they are in the
code, as an answer or an excluded case, or leave them out:

- *Listing.* The token is answered as `ContinuationToken` (`s3archivefs-lambda/src/main.rs` 405),
  while S3's clients look for `NextContinuationToken` and see one page. `Listing` has a client that
  takes it from where it is. `max-keys=0` panics, and the client gives up. If the archive of the
  instance that is asked for the next page has no such key as the token, the answer is empty and
  says that it is the last: `ListingComplete` speaks of listings to which this does not happen.
- *Get.* `ret > 0` at `squashfs_v1.rs` 331 does not see libsquashfs's errors, which are negative: a
  block that fails is skipped, and a 206 may carry bytes of a later place (`DownloadRight` says that
  much, and no more, if one was skipped). `sqfs_super_read` is tested the same way (120). From 4 GiB
  on HeadObject's length is a small positive number, and a client that goes by it has a part of the
  file. An instance whose temporary directory is full answers 404, as `FoundUnlessFull` permits.
  HeadObject answers 200 for a symbolic link and GetObject 404.
- *Prefix map.* A mapping set again replaces the first, where the comments say "key exist in vmap,
  skip it" and "ignore key" (`vmap.rs` 31-33, 50-52); `RoutedToLongest` leaves open which of the two
  is right. A path that runs through a file is a panic, not a 404 (`squashfs_v1.rs` 289, 488). A key
  that another mapping extends goes to that one. Mappings match without regard to slashes, so `a`
  serves `ab/x`. A prefix that is cut inside a character panics (75). GetObject and HeadObject look
  for the percent-encoded key (`main.rs` 94), so a listed key with a space is not found, nor one
  with a percent sign, which the URL has as `%25`. `trim_start_matches` (41) strips a prefix as
  often as it stands there: if the path behind the mapping `a` begins with `a` once more, as in
  `aa/b`, a prefix of the key, GetObject strips both and does not find the file that was listed. A
  mapping that ends in a slash, or the root mapping, lists no top-level names for a part of a name.
- *FUSE.* getxattr takes the first attribute that begins with the name asked for (`squashfs.rs`
  544), and answers size 0 instead of ENODATA for a file that has others; the xattr reader of a stat
  (773) and the directory reader of a directory that is not found leak; an error inside a directory
  ends the listing without an error (60); a directory that does not open is empty.
- *Command line.* A failed install exits with status 0 (`s3archivefs/src/main.rs` 110). The size
  limit is 48.8 TiB where the message says 5 TiB (`transfer.rs` 88). Failed multipart uploads are
  left on S3.

Rules a deployment must observe for the passing runs to apply, none of them enforced by the code:
one process alone while the cache file is made or made anew (`SoloInstall`; without it
`AnswersFetched` and `OpenedComplete` fail); no rebuild of an archive file while it is installed; a
start with force after each reinstall. For reads to be right as well (`ReadsAreRightAlone`): lseek,
one process on the cache file, a first block that reaches beyond page 0, and a new cache, or a start
with force, after a copy was interrupted.

## 6. Not modelled, and why

- **Two processes with different versions of the archive on one cache, page by page**: `Mount` has
  versions with one process at a time, `ReadAt` and `SharedCache` have many processes and one
  version.
- **Buffers too small for listxattr, empty attribute names** and `readdir_cb`, which nothing calls;
  the kernel's cache of attributes and names.
- **Version 1's printing of the tree and of one inode**: formatting, no state.
- **libsquashfs**: external; modelled by the ranges it reads, the tables it loads and the sign of
  its errors. Its own caching of blocks is left out, which only adds reads.
- **Which bytes of a page in part are there**: an answer from it is taken for wrong, although it is
  right where the part is behind it.
- **Time**: no clock; the lock timeout is a choice.
- **Formatting, logging, XML and JSON, options, storage class, time statistics, the syntax of HTTP
  ranges.**
- **Unfinished multipart uploads** on S3: nothing reads them again.
- **Where in a page a write ends**: a page is whole, or in part. Compression, checksums (the code
  has none).

## 7. Plan

Done, in this order: `CacheFile`, `ArchiveFile`, `ReadAt` and their proofs; `LocalNew` and
`SharedCache`; `Install` with proofs; `Listing`; `GetObject`; `PrefixMap`; `ReadOnlyFs` and `Mount`
with proofs and the refinement; the proofs of `SharedCache`, `GetObject`, `PrefixMap` and `Listing`,
and of the reads through `SharedCache`.

What remains:

1. Versions in `CacheFile`, so that reads of several processes meet a reinstall page by page.
   Bounds: 2 versions, 2 readers, 1 installer.

## 8. Running

    tlc -workers 2 -config read_shared.cfg MCReadAt.tla
    tlc -workers 2 -config cache_lifecycle.cfg MCSharedCache.tla
    tlc -workers 2 -config mount.cfg MCMount.tla
    tlc -workers 2 -config gateway_get.cfg MCGetObject.tla
    tlc -workers 2 -config key_routing.cfg MCPrefixMap.tla
    tlapm ReadAtProofs.tla      # and the other modules with Proofs in their name, and DataLemmas

`PROJECT.json` has the module of every run. Every run takes less than two minutes on two cores; each
proof module takes some minutes.
