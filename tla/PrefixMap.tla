----------------------------- MODULE PrefixMap -----------------------------
(***************************************************************************)
(* How the lambda finds the archive, and the path in it, for a key: the    *)
(* prefix map of vmap.rs, which every invocation loads anew, and the head  *)
(* of the three handlers of main.rs that ask it; and how the keys of a     *)
(* listing are made, so that a client can ask for them.                    *)
(*                                                                         *)
(* A string is the sequence of its bytes, which are numbers, so that keys  *)
(* sort as in the code.  What an archive holds is given; its pages are     *)
(* Listing's, and what GetObject answers with is GetObject's.              *)
(***************************************************************************)
EXTENDS Integers, SequencesExt

CONSTANTS
  Slash, Percent, Hex,   \* the bytes "/", "%" and a hexadecimal digit
  Escaped,               \* the bytes that a URL has as %XX, "%" itself among them
  Continuation,          \* those of them that continue a character
  MaxSlots,              \* MAX_ENV_PREFIX_VMAP
  Settings,              \* the settings that may be made, see SettingAssumption
  Extensions,            \* what S3ARCHIVEFS_PREFIX_VMAP_EXT_FILE may hold: sequences of settings
  Archives,              \* the archives in S3
  Files,                 \* Files[t]: the paths of the files in archive t, without a leading slash
  Searches,              \* the prefixes clients list
  Keys,                  \* the keys clients ask for that no listing gave them
  Unset, Malformed,      \* a variable that is not set, a setting that is not a pair
  NotFound, Panics, NoKey, NoAnswer

Strings == Seq(Nat)

\* A pair of a prefix and an archive, or a target that is no s3 URL of an object.
NoArchive == "no archive"
ASSUME SettingAssumption ==
  /\ \A s \in Settings \ {Malformed} : s.prefix \in Strings /\ s.target \in Archives \cup {NoArchive}
  /\ Extensions \subseteq Seq(Settings)

ASSUME BytesAssumption ==
  /\ {Slash, Hex} \subseteq Nat \ Escaped /\ Percent \in Escaped
  /\ Escaped \subseteq Nat /\ Continuation \subseteq Escaped /\ MaxSlots \in Nat
  /\ \A q \in Searches \cup Keys : q \in Strings

\* A path in an archive is made of names, none of them empty, and a file is no directory.
NoEmptyName(q) == \A i \in 1 .. Len(q) - 1 : q[i] # Slash \/ q[i + 1] # Slash
Clean(f) == f # << >> /\ f[1] # Slash /\ f[Len(f)] # Slash /\ NoEmptyName(f)
ASSUME FilesAssumption ==
  \A t \in Archives : \A f \in Files[t] :
    f \in Strings /\ Clean(f) /\ \A g \in Files[t] : ~IsPrefix(Append(f, Slash), g)

VARIABLES
  slots,   \* slots[i]: the environment variable S3ARCHIVEFS_PREFIX_VMAPi
  lines,   \* the lines of S3ARCHIVEFS_PREFIX_VMAP_EXT_FILE
  pc,      \* the invocation: "idle", "env", "file", "query", "search" or "done"
  op,      \* "list", or "get" for GetObject and HeadObject
  key,     \* the prefix, or the key, as the handler has it
  from,    \* observes: the entry of a listing the key was taken from, or NoKey
  at,      \* the slot or line loaded next
  vmap,    \* the map
  route,   \* what query returned
  answer   \* the listing, or the file

keyVars == <<slots, lines, pc, op, key, from, at, vmap, route, answer>>

NoMap == [x \in {} |-> NoArchive]
NoRoute == [prefix |-> << >>, target |-> NoArchive]

Init ==
  /\ slots \in [1 .. MaxSlots -> Settings \cup {Unset}]
  /\ lines \in Extensions
  /\ pc = "idle" /\ op = "list" /\ key = << >> /\ from = NoKey
  /\ at = 1 /\ vmap = NoMap /\ route = NoRoute /\ answer = NoAnswer

---------------------------------------------------------------------------
(* Strings *)

\* trim_start_matches: p is removed as often as it stands there; an empty p never.
Trimmed(s, p) ==
  LET t[n \in 0 .. Len(s)] ==
        IF n = 0 THEN s
        ELSE IF IsPrefix(p, t[n - 1]) THEN SubSeq(t[n - 1], Len(p) + 1, Len(t[n - 1])) ELSE t[n - 1]
  IN  t
TrimStart(s, p) == Trimmed(s, p)[Len(s)]

\* The order of the bytes.
Less(s, t) ==
  \/ IsStrictPrefix(s, t)
  \/ \E i \in DOMAIN s \cap DOMAIN t : s[i] < t[i] /\ \A j \in 1 .. i - 1 : s[j] = t[j]

\* The path of a URL stays percent-encoded; the values of its query do not.
Encoded(s) ==
  LET e[n \in 0 .. Len(s)] ==
        IF n = 0 THEN << >>
        ELSE e[n - 1] \o IF s[n] \in Escaped THEN <<Percent, Hex, Hex>> ELSE <<s[n]>>
  IN  e
Encode(s) == Encoded(s)[Len(s)]

---------------------------------------------------------------------------
(* PrefixVMap::new *)

\* A later setting for a prefix replaces an earlier one.
EntryUntrimmed(s) == s.prefix   \* seeded fault: the slash in front is kept
Entry(s) == TrimStart(s.prefix, <<Slash>>)
Insert(s) ==
  vmap' = IF s = Malformed THEN vmap
          ELSE [x \in DOMAIN vmap \cup {Entry(s)} |-> IF x = Entry(s) THEN s.target ELSE vmap[x]]

\* The first variable that is not set ends the loop.
IsSet(i) == i \in DOMAIN slots /\ slots[i] # Unset

LoadSlot ==
  /\ pc = "env" /\ IsSet(at)
  /\ Insert(slots[at])
  /\ at' = at + 1
  /\ UNCHANGED <<slots, lines, pc, op, key, from, route, answer>>

SlotsLoaded ==
  /\ pc = "env" /\ ~IsSet(at)
  /\ pc' = "file" /\ at' = 1
  /\ UNCHANGED <<slots, lines, op, key, from, vmap, route, answer>>

LoadLine ==
  /\ pc = "file" /\ at <= Len(lines)
  /\ Insert(lines[at])
  /\ at' = at + 1
  /\ UNCHANGED <<slots, lines, pc, op, key, from, route, answer>>

FileLoaded ==
  /\ pc = "file" /\ at > Len(lines)
  /\ pc' = "query" /\ at' = 1
  /\ UNCHANGED <<slots, lines, op, key, from, vmap, route, answer>>

---------------------------------------------------------------------------
(* PrefixVMap::query *)

\* A mapping matches a key that begins with its prefix, and one that is the beginning of it.
Matches(x, q) == IF Len(q) > Len(x) THEN IsPrefix(x, q) ELSE IsPrefix(q, x)
Matching(q) == {x \in DOMAIN vmap : Matches(x, q)}

\* rfind over the sorted prefixes: the last that matches.
FoundFirst(q) == {x \in Matching(q) : \A y \in Matching(q) : x = y \/ Less(x, y)}   \* seeded fault: find
Found(q) == {x \in Matching(q) : \A y \in Matching(q) : x = y \/ Less(y, x)}

\* On its way there rfind cuts q at the length of every prefix, and a cut inside a
\* character is a panic.
Seen(q) == {y \in DOMAIN vmap : \A x \in Found(q) : x = y \/ Less(x, y)}
CutsCharacter(q) == \E y \in Seen(q) : Len(q) > Len(y) /\ q[Len(y) + 1] \in Continuation

\* If none matches, the root mapping does.
Chosen(q) == IF Found(q) # {} THEN Found(q) ELSE {x \in DOMAIN vmap : x = << >>}

\* A target that names no object is as good as none.
Routes(q) == {[prefix |-> x, target |-> vmap[x]] : x \in {x \in Chosen(q) : vmap[x] # NoArchive}}

---------------------------------------------------------------------------
(* get_repo_search_top_and_key, do_file_list and the lookup of a path *)

\* What follows the prefix; nothing of a key that is shorter than it.
SearchKey(q, x) == IF Len(q) < Len(x) THEN << >> ELSE TrimStart(q, x)

\* Of that, what stands before the last slash.
SearchTopWhole(s) == s   \* seeded fault: the last part is not dropped
SearchTop(s) ==
  LET slashes == {i \in DOMAIN s : s[i] = Slash}
  IN  IF slashes = {} THEN << >> ELSE SubSeq(s, 1, Max(slashes) - 1)

\* libsquashfs skips empty names in a path: a slash stays where a name stands before it and after it.
NamesUpTo(s) ==
  LET c[n \in 0 .. Len(s)] ==
        IF n = 0 THEN << >>
        ELSE IF s[n] = Slash THEN c[n - 1]
        ELSE IF c[n - 1] # << >> /\ s[n - 1] = Slash THEN c[n - 1] \o <<Slash, s[n]>>
        ELSE Append(c[n - 1], s[n])
  IN  c
Canonical(s) == NamesUpTo(s)[Len(s)]

\* A path that goes on below a file is SQFS_ERROR_NOT_DIR and not SQFS_ERROR_NO_ENTRY: each
\* of the callers of sqfs_dir_reader_get_full_hierarchy panics.
RunsThroughFile(t, path) == \E f \in Files[t] : IsPrefix(Append(f, Slash), path)

\* do_file_list: the names below a directory, behind the directory as it was asked for.
Below(f, dir) == IF dir = << >> THEN f ELSE SubSeq(f, Len(dir) + 2, Len(f))
FileList(t, top) ==
  LET dir == Canonical(top)
      inside == {f \in Files[t] : dir = << >> \/ IsPrefix(Append(dir, Slash), f)}
  IN  {[path |-> top \o <<Slash>> \o Below(f, dir), file |-> f] : f \in inside}

\* The entries whose path begins with the search key, and their keys.
ListedKeyBare(x, path) == path   \* seeded fault: without the prefix of the mapping
ListedKey(x, path) == x \o path
Listed(q, r) ==
  LET s == SearchKey(q, r.prefix)
  IN  {[key |-> ListedKey(r.prefix, e.path), prefix |-> r.prefix, target |-> r.target, file |-> e.file] :
         e \in {e \in FileList(r.target, SearchTop(s)) : IsPrefix(s, e.path)}}

---------------------------------------------------------------------------
(* An invocation *)

Invoke(o, q, entry) ==
  /\ pc' = "env" /\ op' = o /\ key' = q /\ from' = entry
  /\ at' = 1 /\ vmap' = NoMap /\ route' = NoRoute /\ answer' = NoAnswer
  /\ UNCHANGED <<slots, lines>>

\* The key of GetObject and HeadObject is the path of the URL; a listing's prefix is a
\* parameter of it.
PathKey(k) == TrimStart(Encode(k), <<Slash>>)

Ask ==
  /\ pc \in {"idle", "done"}
  /\ \/ \E q \in Searches : Invoke("list", q, NoKey)
     \/ \E k \in Keys : Invoke("get", PathKey(k), NoKey)

\* A client asks for a key that it was listed.
AskListed ==
  /\ pc = "done" /\ op = "list" /\ answer \notin {NotFound, Panics}
  /\ \E e \in answer : Invoke("get", PathKey(e.key), e)

FindRoute ==
  /\ pc = "query"
  /\ \/ /\ CutsCharacter(key)
        /\ pc' = "done" /\ answer' = Panics /\ UNCHANGED route
     \/ /\ ~CutsCharacter(key) /\ Routes(key) = {}
        /\ pc' = "done" /\ answer' = NotFound /\ UNCHANGED route
     \/ /\ ~CutsCharacter(key)
        /\ \E r \in Routes(key) : pc' = "search" /\ route' = r /\ UNCHANGED answer
  /\ UNCHANGED <<slots, lines, op, key, from, at, vmap>>

List ==
  /\ pc = "search" /\ op = "list"
  /\ answer' =
       IF RunsThroughFile(route.target, Canonical(SearchTop(SearchKey(key, route.prefix))))
       THEN Panics ELSE Listed(key, route)
  /\ pc' = "done"
  /\ UNCHANGED <<slots, lines, op, key, from, at, vmap, route>>

Lookup ==
  /\ pc = "search" /\ op = "get"
  /\ LET f == Canonical(SearchKey(key, route.prefix)) IN
     answer' = CASE RunsThroughFile(route.target, f) -> Panics
                 [] f \in Files[route.target] -> [target |-> route.target, file |-> f]
                 [] OTHER -> NotFound
  /\ pc' = "done"
  /\ UNCHANGED <<slots, lines, op, key, from, at, vmap, route>>

Next ==
  \/ Ask \/ AskListed
  \/ LoadSlot \/ SlotsLoaded \/ LoadLine \/ FileLoaded
  \/ FindRoute \/ List \/ Lookup

Spec == Init /\ [][Next]_keyVars

---------------------------------------------------------------------------
(* Properties *)

NoSlashFirst(s) == s = << >> \/ s[1] # Slash

\* Every variable has its type, and no prefix in the map begins with a slash, as no key
\* that is looked up does: a mapping written with one would never match.
KeyTypeOK ==
  /\ slots \in [1 .. MaxSlots -> Settings \cup {Unset}] /\ lines \in Seq(Settings)
  /\ pc \in {"idle", "env", "file", "query", "search", "done"}
  /\ op \in {"list", "get"} /\ key \in Strings
  /\ at \in Nat \ {0}
  /\ \A x \in DOMAIN vmap : x \in Strings /\ NoSlashFirst(x) /\ vmap[x] \in Archives \cup {NoArchive}
  /\ route.prefix \in Strings /\ route.target \in Archives \cup {NoArchive}
  /\ pc \in {"search", "done"} /\ route # NoRoute => route.prefix \in DOMAIN vmap
  /\ pc # "done" => answer = NoAnswer

\* The settings that are read, in their order, and the pairs among them.
SlotsRead == Max({n \in 0 .. MaxSlots : \A i \in 1 .. n : IsSet(i)})
SettingsRead == [i \in 1 .. SlotsRead |-> slots[i]] \o lines
Pairs == {i \in DOMAIN SettingsRead : SettingsRead[i] # Malformed}
Prefix(i) == Entry(SettingsRead[i])
Mapped == {Prefix(i) : i \in Pairs}

\* The pairs that may serve a key: those of the longest prefix the key begins with.
Best(q) ==
  {i \in Pairs : IsPrefix(Prefix(i), q) /\
     \A j \in Pairs : IsPrefix(Prefix(j), q) => Len(Prefix(j)) <= Len(Prefix(i))}
Serves(i) == SettingsRead[i].target # NoArchive

\* A key, or prefix, that no mapping extends is served by an archive that was set for the
\* longest mapped prefix it begins with, and by none if there is none.  Which one, if the
\* prefix was set more than once, is left open: the comments of PrefixVMap::new say that
\* the later one is skipped, and insert takes it.  A key that some mapping does extend is
\* another's: the last of these is taken even for a key that is itself mapped.
Extended(q) == \E x \in Mapped : IsStrictPrefix(q, x)
OneByteEach(q) == \A i \in DOMAIN q : q[i] \notin Continuation
RoutedToLongest ==
  pc \in {"search", "done"} /\ ~Extended(key) /\ OneByteEach(key) =>
    \/ \E i \in Best(key) :
         Serves(i) /\ route = [prefix |-> Prefix(i), target |-> SettingsRead[i].target]
    \/ answer = NotFound /\ (Best(key) = {} \/ \E i \in Best(key) : ~Serves(i))

\* A listing of what is above a mapping, or below it and its slash, has the files of its
\* archive whose keys begin with the prefix asked for, all of them and nothing else, as
\* long as no name in the prefix is empty and the prefix does not run through a file.
ListingMatchesSearch ==
  pc = "done" /\ op = "list" /\ answer \notin {NotFound, Panics} /\ NoEmptyName(key)
    /\ (IsPrefix(key, route.prefix) \/ IsPrefix(Append(route.prefix, Slash), key))
  => {e.key : e \in answer} =
       {k \in {route.prefix \o <<Slash>> \o f : f \in Files[route.target]} : IsPrefix(key, k)}

\* A key that was listed is found again under the archive and the path it was listed for,
\* if no other mapping takes it, its URL is the key itself, and the prefix of its mapping
\* does not stand in it twice: both are cut off.
TakenFrom(x, q) == \E y \in Mapped : Matches(y, q) /\ Less(x, y)
KeysComeBack ==
  pc = "done" /\ op = "get" /\ from # NoKey =>
    \/ answer = [target |-> from.target, file |-> from.file]
    \/ TakenFrom(from.prefix, key)
    \/ \E i \in DOMAIN from.key : from.key[i] \in Escaped
    \/ from.prefix # << >> /\ IsPrefix(from.prefix \o from.prefix, from.key)
============================================================================
