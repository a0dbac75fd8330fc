--------------------------- MODULE MCVerticalDiff ---------------------------
(* Small instances of VerticalDiff for TLC: every stream of at most three   *)
(* lines, and streams of two hunks of two lines with a line between them.   *)
EXTENDS VerticalDiff, TLC

ScriptsUpTo(n) == UNION {[1 .. k -> Types] : k \in 0 .. n}

TwoLines == {<<"old", "new">>, <<"old", "old">>, <<"new", "old">>}

TwoHunks == {h \o <<"same">> \o g : h \in TwoLines, g \in TwoLines}

ShortScripts == ScriptsUpTo(3)
SomeScripts  == ShortScripts \cup TwoHunks
=============================================================================
