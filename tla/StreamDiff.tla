------------------------------ MODULE StreamDiff ------------------------------
(***************************************************************************)
(* streamDiff (core/diff/streamDiff.ts): the diff of a file against lines  *)
(* that arrive one by one from a model, and matchLine (core/diff/util.ts), *)
(* which looks for the old line that a new one stands for.  Each step of   *)
(* this module yields one line of the diff, or looks for a match.          *)
(*                                                                         *)
(* A line is a text and an indentation; trailing blanks are left out.      *)
(* Similar stands for the edit distance: <<a, b, i>> is in it when a and b *)
(* are close enough for a match with i lines between.                      *)
(***************************************************************************)
EXTENDS Integers, Sequences, FiniteSetsExt

CONSTANTS
  Texts, Blank,  \* of a line without indentation; that of an empty line
  Indents,       \* 0 is none
  Long,          \* texts of more than 8 characters
  Strict,        \* "}", "*", "});" and "})", which match only themselves
  Brackets,      \* END_BRACKETS
  Reach,         \* distance within which a bracket is matched, 4 in the code
  Similar,
  MaxLines       \* bound on the lines of the file and of the model

Line == [text : Texts, indent : Indents]

ASSUME LinesAssumption ==
  /\ Blank \in Texts \ Strict /\ 0 \in Indents /\ Brackets \subseteq Strict
  /\ Strict \subseteq Texts /\ Long \subseteq Texts
  /\ Reach \in Nat /\ MaxLines \in Nat

VARIABLES
  oldLines, newLines,  \* the inputs
  old, new,            \* oldLinesCopy, and what the stream has yet to give
  seenIndentationMistake,
  pc,
  found,               \* the match, with the old lines to yield before it
  out,                 \* the diff
  fromOld, fromNew     \* its lines that come from the file, and from the model

inputs == <<oldLines, newLines>>
vars   == <<inputs, old, new, seenIndentationMistake, pc, found, out, fromOld, fromNew>>

-----------------------------------------------------------------------------
(* matchLine.                                                              *)

EmptyLine   == [text |-> Blank, indent |-> 0]
Trimmed(l)  == [l EXCEPT !.indent = 0]
SameText(a, b) == a.text = b.text

LinesMatchPerfectly(a, b) == a = b /\ a # EmptyLine

LinesMatch(a, b, between) ==
  IF a.text \in Strict THEN SameText(a, b)
  ELSE a.text # Blank /\ (SameText(a, b) \/ <<a, b, between>> \in Similar)

Matching(n, lines) ==
  {i \in DOMAIN lines :
     /\ n.text \in Brackets => i - 1 <= Reach
     /\ LinesMatchPerfectly(n, lines[i]) \/ LinesMatch(n, lines[i], i - 1)}

(* index: lines before the match, or -1.  A line that differs from its     *)
(* match in indentation only is corrected.                                 *)
NoMatch(n)      == [index |-> -1, perfect |-> FALSE, line |-> n]
MatchAt(i, perfect, l) == [index |-> i - 1, perfect |-> perfect, line |-> l]

(* Mutant: empty lines are compared as the others are.                     *)
MatchLineNoBlank(n, lines, permissive) ==
  IF Matching(n, lines) = {} THEN NoMatch(n)
  ELSE LET i == Min(Matching(n, lines))
           corrected == SameText(n, lines[i]) /\ (permissive \/ n.text \in Long)
       IN  IF LinesMatchPerfectly(n, lines[i]) THEN MatchAt(i, TRUE, n)
           ELSE IF corrected THEN MatchAt(i, TRUE, lines[i]) ELSE MatchAt(i, FALSE, n)

MatchLine(n, lines, permissive) ==
  IF n.text = Blank /\ lines[1].text = Blank THEN MatchAt(1, TRUE, Trimmed(n))
  ELSE IF Matching(n, lines) = {} THEN NoMatch(n)
  ELSE LET i == Min(Matching(n, lines))
           corrected == SameText(n, lines[i]) /\ (permissive \/ n.text \in Long)
       IN  IF LinesMatchPerfectly(n, lines[i]) THEN MatchAt(i, TRUE, n)
           ELSE IF corrected THEN MatchAt(i, TRUE, lines[i]) ELSE MatchAt(i, FALSE, n)

-----------------------------------------------------------------------------
(* streamDiff.                                                             *)

Yield(type, l) == out' = Append(out, [type |-> type, line |-> l])

YieldOld ==
  /\ Yield("old", Head(old))
  /\ fromOld' = Append(fromOld, Head(old))
  /\ old' = Tail(old)

YieldNew(l) ==
  /\ Yield("new", l)
  /\ fromNew' = Append(fromNew, l)
  /\ new' = Tail(new)

Nothing == NoMatch(EmptyLine)

Compare ==
  /\ pc = "compare" /\ old # <<>> /\ new # <<>>
  /\ LET m == MatchLine(Head(new), old, seenIndentationMistake)
     IN  /\ seenIndentationMistake' = (seenIndentationMistake \/ m.line # Head(new))
         /\ \/ /\ m.index = -1
               /\ YieldNew(m.line)
               /\ UNCHANGED <<found, pc>>
            \/ /\ m.index # -1
               /\ found' = m
               /\ pc' = "match"
               /\ UNCHANGED <<new, out, fromNew>>
  /\ UNCHANGED <<inputs, old, fromOld>>

(* All deleted lines before the match.                                     *)
Skip ==
  /\ pc = "match" /\ found.index > 0
  /\ YieldOld
  /\ found' = [found EXCEPT !.index = @ - 1]
  /\ UNCHANGED <<inputs, new, seenIndentationMistake, pc, fromNew>>

Match == pc = "match" /\ found.index = 0

Same ==
  /\ Match /\ found.perfect
  /\ Yield("same", Head(old))
  /\ fromOld' = Append(fromOld, Head(old)) /\ fromNew' = Append(fromNew, Head(old))
  /\ old' = Tail(old) /\ new' = Tail(new)
  /\ pc' = "compare" /\ found' = Nothing
  /\ UNCHANGED <<inputs, seenIndentationMistake>>

IsLineRemoval == Len(old) > 1 /\ old[2] = found.line

(* Mutant: a line has been removed, and the new line counts as used.       *)
RemoveForgets ==
  /\ Match /\ ~found.perfect /\ IsLineRemoval
  /\ YieldOld
  /\ new' = Tail(new)
  /\ pc' = "compare" /\ found' = Nothing
  /\ UNCHANGED <<inputs, seenIndentationMistake, fromNew>>

(* The line after the match is the new one: the match has been removed.    *)
Remove ==
  /\ Match /\ ~found.perfect /\ IsLineRemoval
  /\ YieldOld
  /\ pc' = "compare" /\ found' = Nothing
  /\ UNCHANGED <<inputs, new, seenIndentationMistake, fromNew>>

(* Mutant: the line of the file is yielded and not taken.                  *)
ReplaceKeepsOld ==
  /\ Match /\ ~found.perfect /\ ~IsLineRemoval
  /\ Yield("old", Head(old))
  /\ fromOld' = Append(fromOld, Head(old))
  /\ pc' = "new"
  /\ UNCHANGED <<inputs, old, new, seenIndentationMistake, fromNew, found>>

Replace ==
  /\ Match /\ ~found.perfect /\ ~IsLineRemoval
  /\ YieldOld
  /\ pc' = "new"
  /\ UNCHANGED <<inputs, new, seenIndentationMistake, fromNew, found>>

Replacement ==
  /\ pc = "new"
  /\ YieldNew(found.line)
  /\ pc' = "compare" /\ found' = Nothing
  /\ UNCHANGED <<inputs, old, seenIndentationMistake, fromOld>>

(* Once at the edge, there is only one choice.                             *)
RestOfOld ==
  /\ pc = "compare" /\ new = <<>> /\ old # <<>>
  /\ YieldOld
  /\ UNCHANGED <<inputs, new, seenIndentationMistake, pc, found, fromNew>>

RestOfNew ==
  /\ pc = "compare" /\ old = <<>> /\ new # <<>>
  /\ YieldNew(Head(new))
  /\ UNCHANGED <<inputs, old, seenIndentationMistake, pc, found, fromOld>>

-----------------------------------------------------------------------------
Files == UNION {[1 .. n -> Line] : n \in 0 .. MaxLines}

Init ==
  /\ oldLines \in Files /\ newLines \in Files
  /\ old = oldLines /\ new = newLines
  /\ seenIndentationMistake = FALSE
  /\ pc = "compare" /\ found = Nothing
  /\ out = <<>> /\ fromOld = <<>> /\ fromNew = <<>>

Next ==
  \/ Compare \/ Skip \/ Same \/ Remove \/ Replace \/ Replacement
  \/ RestOfOld \/ RestOfNew

Spec == Init /\ [][Next]_vars

-----------------------------------------------------------------------------
(* The lines before a match are there to be yielded, and a match stands    *)
(* for the line it was looked up for.                                      *)
TypeOK ==
  /\ oldLines \in Seq(Line) /\ newLines \in Seq(Line)
  /\ old \in Seq(Line) /\ new \in Seq(Line)
  /\ seenIndentationMistake \in BOOLEAN
  /\ pc \in {"compare", "match", "new"}
  /\ found \in [index : Int, perfect : BOOLEAN, line : Line]
  /\ out \in Seq([type : {"old", "new", "same"}, line : Line])
  /\ fromOld \in Seq(Line) /\ fromNew \in Seq(Line)
  /\ pc = "match" => found.index \in 0 .. Len(old) - 1
  /\ pc # "compare" => new # <<>> /\ SameText(found.line, Head(new))

(* "new + same = newLines.length", in order: whoever keeps the lines of    *)
(* the file gets the file, with none lost, repeated or moved ...           *)
OldLinesKept == oldLines = fromOld \o old

(* ... and who takes those of the model gets what it wrote, up to the      *)
(* indentation that streamDiff corrects.                                   *)
NewLinesKept ==
  /\ Len(fromNew) + Len(new) = Len(newLines)
  /\ \A i \in DOMAIN fromNew : SameText(fromNew[i], newLines[i])
  /\ \A i \in DOMAIN new : new[i] = newLines[Len(fromNew) + i]

(* A file that the model repeats is not changed.                           *)
NoChangeForSameLines ==
  oldLines = newLines => \A i \in DOMAIN out : out[i].type = "same"
=============================================================================
