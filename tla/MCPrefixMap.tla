---------------------------- MODULE MCPrefixMap ----------------------------
(* Settings with and without slashes at their ends, for nested prefixes,   *)
(* the root and a name that is not ASCII, over archives whose paths and    *)
(* directories have the names of the prefixes.                             *)
EXTENDS PrefixMap

\* Bytes in the order of ASCII and UTF-8: space, "%", "/", "0", "a", "b", and the two of
\* one character, the second of which continues it.
S == 3
a == 5
b == 6
MCEscaped == {1, 2, 8, 9}
MCContinuation == {8}
TwoBytes == <<9, 8>>

Map(x, t) == [prefix |-> x, target |-> t]
MCSettings == {
  Map(<<S, a>>, "t1"), Map(<<a>>, "t2"), Map(<<a, S, b>>, "t2"), Map(<<a, S>>, "t1"),
  Map(<<S>>, "t3"), Map(<<b>>, NoArchive), Map(TwoBytes, "t1"), Map(<<a, S, b, S>>, "t3"), Malformed}

MCExtensions == {<<s>> : s \in MCSettings} \cup {<< >>}

MCArchives == {"t1", "t2", "t3"}
MCFiles == [t \in MCArchives |->
  CASE t = "t1" -> {<<a, S, a>>, <<b, S, a>>, <<b, S, 1, a>>, <<b, S, 2>>}
    [] t = "t2" -> {<<a>>, <<b>>}
    [] t = "t3" -> {<<a, S, a, S, b>>, <<a, S, b, S, b>>, <<a, a>>, <<b, b>>}]

MCSearches == {<< >>, <<a>>, <<a, S>>, <<a, S, b>>, <<a, S, a, S>>, <<a, S, b, S>>, <<a, S, b, S, a, S>>, <<a, S, S, b>>, <<a, a, S>>, <<b>>, TwoBytes}
MCKeys == {<<S, a, S, a>>, <<a, b, S, a>>, <<a, S, b>>, <<a>>, <<b, S, a>>, <<a, S, a, S, a>>, TwoBytes \o <<S, a>>}
============================================================================
