--------------------------- MODULE StreamDiffProofs ---------------------------
(***************************************************************************)
(* The diff of StreamDiff loses, repeats and moves no line, for files and  *)
(* responses of any length and for any notion of similar lines, and leaves *)
(* a file alone that the model repeats.                                    *)
(***************************************************************************)
EXTENDS StreamDiff, SequenceTheorems, WellFoundedInduction, TLAPS

MatchResult == [index : Int, perfect : BOOLEAN, line : Line]

(* The places where a line matches have a first one.                       *)
LEMMA HasMinimum ==
  ASSUME NEW m \in Nat, NEW M, M \subseteq 1 .. m, M # {}
  PROVE  \E k \in M : \A l \in M : k <= l
<1> DEFINE Less == OpToRel(<, Nat)
<1>1. \A k, l \in Nat : <<k, l>> \in Less <=> k < l
  BY DEF OpToRel
<1>2. M \subseteq Nat
  OBVIOUS
<1>3. IsWellFoundedOn(Less, Nat)
  BY NatLessThanWellFounded
<1> HIDE DEF Less
<1>4. \E k \in M : \A l \in M : <<l, k>> \notin Less
  BY <1>2, <1>3, WFMin
<1>5. PICK k \in M : \A l \in M : <<l, k>> \notin Less
  BY <1>4
<1>6. \A l \in M : k <= l
  <2> TAKE l \in M
  <2>1. l \in Nat /\ k \in Nat
    BY <1>2
  <2>2. ~(l < k)
    BY <1>1, <1>5, <2>1, Zenon
  <2>3. QED BY <2>1, <2>2
<1>7. QED BY <1>6

(* What matchLine returns: no match, or an old line that is there, with a  *)
(* line of the text that was looked up.                                    *)
LEMMA MatchLineResult ==
  ASSUME NEW n \in Line, NEW lines \in Seq(Line), lines # <<>>, NEW permissive \in BOOLEAN
  PROVE  LET m == MatchLine(n, lines, permissive)
         IN  /\ m \in MatchResult
             /\ m.index \in -1 .. Len(lines) - 1
             /\ SameText(m.line, n)
             /\ m.index # -1 /\ m.perfect => SameText(lines[m.index + 1], n)
<1>1. CASE n.text = Blank /\ lines[1].text = Blank
  BY <1>1, LinesAssumption DEF MatchLine, MatchAt, Trimmed, Line, SameText, MatchResult
<1>2. CASE ~(n.text = Blank /\ lines[1].text = Blank) /\ Matching(n, lines) = {}
  <2>1. MatchLine(n, lines, permissive) = NoMatch(n)
    BY <1>2 DEF MatchLine
  <2>2. Len(lines) \in Nat
    OBVIOUS
  <2>3. QED BY <2>1, <2>2 DEF NoMatch, MatchResult, SameText
<1>3. CASE ~(n.text = Blank /\ lines[1].text = Blank) /\ Matching(n, lines) # {}
  <2> DEFINE i == Min(Matching(n, lines))
  <2>1. Matching(n, lines) \subseteq 1 .. Len(lines)
    BY DEF Matching
  <2>2. i \in Matching(n, lines)
    <3>1. \E k \in Matching(n, lines) : \A l \in Matching(n, lines) : k <= l
      BY <1>3, <2>1, HasMinimum
    <3>2. QED BY <3>1 DEF Min
  <2>3. i \in 1 .. Len(lines) /\ lines[i] \in Line
    BY <2>1, <2>2
  <2> HIDE DEF i
  <2>4. MatchLine(n, lines, permissive) =
          IF LinesMatchPerfectly(n, lines[i]) THEN MatchAt(i, TRUE, n)
          ELSE IF SameText(n, lines[i]) /\ (permissive \/ n.text \in Long)
               THEN MatchAt(i, TRUE, lines[i]) ELSE MatchAt(i, FALSE, n)
    BY <1>3 DEF MatchLine, i
  <2>5. \E b \in BOOLEAN, l \in {n, lines[i]} :
          /\ MatchLine(n, lines, permissive) = MatchAt(i, b, l)
          /\ SameText(l, n) /\ (b => SameText(lines[i], n))
    BY <2>4 DEF SameText, LinesMatchPerfectly
  <2>6. QED BY <2>3, <2>5 DEF MatchAt, MatchResult, SameText
<1>4. QED BY <1>1, <1>2, <1>3

(* matchLine finds a line in the place where it is.                        *)
LEMMA MatchLineFindsSame ==
  ASSUME NEW n \in Line, NEW lines \in Seq(Line), lines # <<>>, lines[1] = n,
         NEW permissive \in BOOLEAN
  PROVE  /\ MatchLine(n, lines, permissive).index = 0
         /\ MatchLine(n, lines, permissive).perfect
<1>1. CASE n.text = Blank
  BY <1>1 DEF MatchLine, MatchAt
<1>2. CASE n.text # Blank
  <2>1. LinesMatchPerfectly(n, lines[1])
    BY <1>2 DEF LinesMatchPerfectly, EmptyLine
  <2>2. 1 \in Matching(n, lines)
    BY <2>1, LinesAssumption DEF Matching
  <2>3. \A k \in Matching(n, lines) : k \in Nat /\ 1 <= k
    BY DEF Matching
  <2>4. Min(Matching(n, lines)) = 1
    BY <2>2, <2>3 DEF Min
  <2>5. QED BY <1>2, <2>1, <2>2, <2>4 DEF MatchLine, MatchAt
<1>3. QED BY <1>1, <1>2

(* A line that is yielded goes from what is left to what has come out.     *)
LEMMA MoveHead ==
  ASSUME NEW S, NEW s \in Seq(S), NEW t \in Seq(S), t # <<>>
  PROVE  /\ Head(t) = t[1] /\ Head(t) \in S
         /\ Tail(t) \in Seq(S) /\ Append(s, Head(t)) \in Seq(S)
         /\ s \o t = Append(s, Head(t)) \o Tail(t)
<1>1. Head(t) \in S /\ Tail(t) \in Seq(S) /\ Head(t) = t[1]
  BY HeadTailProperties
<1>2. Append(s, Head(t)) = s \o <<Head(t)>> /\ Append(s, Head(t)) \in Seq(S)
  BY <1>1, AppendIsConcat, AppendProperties
<1>3. <<Head(t)>> \in Seq(S)
  BY <1>1
<1>4. t = <<Head(t)>> \o Tail(t)
  <2>1. <<Head(t)>> \o Tail(t) \in Seq(S)
        /\ Len(<<Head(t)>> \o Tail(t)) = Len(t)
    BY <1>1, <1>3, ConcatProperties, HeadTailProperties
  <2>2. \A i \in 1 .. Len(t) : (<<Head(t)>> \o Tail(t))[i] = t[i]
    BY <1>1, <1>3, ConcatProperties, HeadTailProperties
  <2>3. QED BY <2>1, <2>2, SeqEqual
<1>5. QED BY <1>1, <1>2, <1>3, <1>4, ConcatAssociative

-----------------------------------------------------------------------------
(* What is left of the two inputs is the same as long as nothing but       *)
(* "same" lines has come out, and the match of a line is then itself.      *)
SameLinesInv ==
  oldLines = newLines =>
    /\ old = new
    /\ pc # "new"
    /\ pc = "match" => found.index = 0 /\ found.perfect
    /\ \A i \in DOMAIN out : out[i].type = "same"

(* The old line of a perfect match is a line of the same text.             *)
MatchInv ==
  pc = "match" /\ found.perfect => SameText(old[found.index + 1], Head(new))

Inv == TypeOK /\ OldLinesKept /\ NewLinesKept /\ MatchInv /\ SameLinesInv

LEMMA InitInv == Init => Inv
<1> SUFFICES ASSUME Init PROVE Inv
  OBVIOUS
<1>1. oldLines \in Seq(Line) /\ newLines \in Seq(Line)
  <2>1. \A k \in 0 .. MaxLines : [1 .. k -> Line] \subseteq Seq(Line)
    BY LinesAssumption
  <2>2. QED BY <2>1 DEF Init, Files
<1>2. EmptyLine \in Line
  BY LinesAssumption DEF EmptyLine, Line
<1>3. TypeOK
  <2>1. found \in [index : Int, perfect : BOOLEAN, line : Line]
    BY <1>2 DEF Init, Nothing, NoMatch
  <2>2. <<>> \in Seq(Line) /\ <<>> \in Seq([type : {"old", "new", "same"}, line : Line])
    OBVIOUS
  <2>3. QED BY <1>1, <2>1, <2>2, Zenon DEF Init, TypeOK
<1>4. OldLinesKept
  BY <1>1, ConcatEmptySeq DEF Init, OldLinesKept
<1>5. NewLinesKept
  BY <1>1 DEF Init, NewLinesKept
<1>6. MatchInv /\ SameLinesInv
  BY DEF Init, MatchInv, SameLinesInv
<1>7. QED BY <1>3, <1>4, <1>5, <1>6 DEF Inv

-----------------------------------------------------------------------------
DiffLine == [type : {"old", "new", "same"}, line : Line]

LEMMA YieldType ==
  ASSUME TypeOK, NEW type \in {"old", "new", "same"}, NEW l \in Line, Yield(type, l)
  PROVE  out' \in Seq(DiffLine)
<1>1. out \in Seq(DiffLine)
  BY DEF TypeOK, DiffLine
<1>2. [type |-> type, line |-> l] \in DiffLine
  BY DEF DiffLine
<1>3. QED BY <1>1, <1>2, AppendProperties DEF Yield

LEMMA TakeOld ==
  ASSUME TypeOK, OldLinesKept, old # <<>>,
         old' = Tail(old), fromOld' = Append(fromOld, Head(old)), oldLines' = oldLines
  PROVE  /\ Head(old) \in Line
         /\ old' \in Seq(Line) /\ Len(old') = Len(old) - 1
         /\ fromOld' \in Seq(Line)
         /\ OldLinesKept'
<1>1. old \in Seq(Line) /\ fromOld \in Seq(Line)
  BY DEF TypeOK
<1>2. Len(Tail(old)) = Len(old) - 1
  BY <1>1
<1>3. QED BY <1>1, <1>2, MoveHead DEF OldLinesKept

(* A line of the model is yielded, perhaps with another indentation.       *)
LEMMA TakeNew ==
  ASSUME TypeOK, NewLinesKept, new # <<>>,
         NEW l \in Line, SameText(l, Head(new)),
         new' = Tail(new), fromNew' = Append(fromNew, l), newLines' = newLines
  PROVE  /\ new' \in Seq(Line)
         /\ fromNew' \in Seq(Line)
         /\ NewLinesKept'
<1>1. new \in Seq(Line) /\ fromNew \in Seq(Line) /\ newLines \in Seq(Line)
  BY DEF TypeOK
<1>2. /\ new' \in Seq(Line) /\ Len(new') = Len(new) - 1 /\ Len(new) >= 1
      /\ \A i \in 1 .. Len(new) - 1 : new'[i] = new[i + 1]
      /\ Head(new) = new[1]
  BY <1>1
<1>3. /\ fromNew' \in Seq(Line) /\ Len(fromNew') = Len(fromNew) + 1
      /\ \A i \in 1 .. Len(fromNew) : fromNew'[i] = fromNew[i]
      /\ fromNew'[Len(fromNew) + 1] = l
  BY <1>1, AppendProperties
<1>4. Len(new) \in Nat /\ Len(fromNew) \in Nat /\ Len(newLines) \in Nat
  BY <1>1
<1>5. Len(fromNew') + Len(new') = Len(newLines')
  BY <1>2, <1>3, <1>4 DEF NewLinesKept
<1>6. \A i \in DOMAIN fromNew' : SameText(fromNew'[i], newLines'[i])
  <2> TAKE i \in DOMAIN fromNew'
  <2>1. i \in 1 .. Len(fromNew) + 1
    BY <1>3
  <2>2. CASE i \in 1 .. Len(fromNew)
    BY <1>1, <1>3, <2>2 DEF NewLinesKept
  <2>3. CASE i = Len(fromNew) + 1
    <3>0. 1 \in DOMAIN new
      BY <1>1, <1>2
    <3>1. new[1] = newLines[Len(fromNew) + 1]
      BY <3>0 DEF NewLinesKept
    <3>2. QED BY <1>2, <1>3, <2>3, <3>1
  <2>4. QED BY <1>4, <2>1, <2>2, <2>3
<1>7. \A i \in DOMAIN new' : new'[i] = newLines'[Len(fromNew') + i]
  <2> TAKE i \in DOMAIN new'
  <2>1. i \in 1 .. Len(new) - 1 /\ i + 1 \in DOMAIN new /\ i \in Nat
    BY <1>1, <1>2
  <2>2. new[i + 1] = newLines[Len(fromNew) + (i + 1)]
    BY <2>1 DEF NewLinesKept
  <2>3. Len(fromNew) + (i + 1) = Len(fromNew') + i
    BY <1>3, <1>4, <2>1
  <2>4. QED BY <1>2, <2>1, <2>2, <2>3
<1>8. QED BY <1>2, <1>3, <1>5, <1>6, <1>7 DEF NewLinesKept

(* The places of what has come out, when a line is added.                  *)
LEMMA YieldSame ==
  ASSUME TypeOK, SameLinesInv, oldLines = newLines, NEW l, Yield("same", l)
  PROVE  \A i \in DOMAIN out' : out'[i].type = "same"
<1>1. out \in Seq(DiffLine)
  BY DEF TypeOK, DiffLine
<1> DEFINE d == [type |-> "same", line |-> l]
<1>2. d.type = "same"
  OBVIOUS
<1>3. out' = Append(out, d)
  BY DEF Yield
<1> HIDE DEF d
<1>4. DOMAIN out' = 1 .. Len(out) + 1 /\ Len(out) \in Nat
      /\ out'[Len(out) + 1] = d /\ \A i \in 1 .. Len(out) : out'[i] = out[i]
  BY <1>1, <1>3
<1>5. \A i \in 1 .. Len(out) : out[i].type = "same"
  BY <1>1 DEF SameLinesInv
<1>6. TAKE i \in DOMAIN out'
<1>7. CASE i \in 1 .. Len(out)
  BY <1>4, <1>5, <1>7
<1>8. CASE i = Len(out) + 1
  BY <1>2, <1>4, <1>8
<1>9. QED BY <1>4, <1>6, <1>7, <1>8

LEMMA CompareInv == Inv /\ Compare => Inv'
<1> SUFFICES ASSUME Inv, Compare PROVE Inv'
  OBVIOUS
<1> USE DEF Inv
<1> DEFINE n == Head(new)
           m == MatchLine(n, old, seenIndentationMistake)
<1>1. old \in Seq(Line) /\ new \in Seq(Line) /\ old # <<>> /\ new # <<>> /\ n \in Line
      /\ seenIndentationMistake \in BOOLEAN
  BY DEF TypeOK, Compare
<1>2. /\ m \in MatchResult /\ m.index \in -1 .. Len(old) - 1 /\ SameText(m.line, n)
      /\ m.index # -1 /\ m.perfect => SameText(old[m.index + 1], n)
  BY <1>1, MatchLineResult
<1>3. m.line \in Line
  BY <1>2 DEF MatchResult
<1>4. pc = "compare" /\ seenIndentationMistake' \in BOOLEAN
      /\ UNCHANGED <<oldLines, newLines, old, fromOld>>
  BY DEF Compare, inputs, TypeOK
<1>5. CASE m.index = -1 /\ YieldNew(m.line) /\ UNCHANGED <<found, pc>>
  <2>1. new' \in Seq(Line) /\ fromNew' \in Seq(Line) /\ NewLinesKept'
    BY <1>1, <1>2, <1>3, <1>4, <1>5, TakeNew DEF YieldNew
  <2>2. out' \in Seq([type : {"old", "new", "same"}, line : Line])
    BY <1>3, <1>5, YieldType DEF YieldNew, DiffLine
  <2>3. TypeOK'
    BY <1>4, <1>5, <2>1, <2>2 DEF TypeOK
  <2>4. oldLines # newLines
    <3>1. SUFFICES ASSUME oldLines = newLines PROVE FALSE
      OBVIOUS
    <3>2. old[1] = n
      BY <1>1, <3>1 DEF SameLinesInv
    <3>3. m.index = 0
      BY <1>1, <3>2, MatchLineFindsSame
    <3>4. QED BY <1>5, <3>3
  <2>5. QED BY <1>4, <1>5, <2>1, <2>3, <2>4 DEF OldLinesKept, MatchInv, SameLinesInv
<1>6. CASE m.index # -1 /\ found' = m /\ pc' = "match" /\ UNCHANGED <<new, out, fromNew>>
  <2>1. m.index \in 0 .. Len(old) - 1
    BY <1>1, <1>2, <1>6
  <2>2. TypeOK'
    BY <1>1, <1>2, <1>4, <1>6, <2>1 DEF TypeOK, MatchResult
  <2>3. SameLinesInv'
    <3>1. SUFFICES ASSUME oldLines = newLines
                   PROVE  old = new /\ m.index = 0 /\ m.perfect
                          /\ \A i \in DOMAIN out : out[i].type = "same"
      BY <1>4, <1>6 DEF SameLinesInv
    <3>2. old = new /\ \A i \in DOMAIN out : out[i].type = "same"
      BY <3>1 DEF SameLinesInv
    <3>3. old[1] = n
      BY <1>1, <3>2
    <3>4. QED BY <1>1, <3>2, <3>3, MatchLineFindsSame
  <2>4. MatchInv'
    BY <1>2, <1>4, <1>6 DEF MatchInv
  <2>5. QED BY <1>4, <1>6, <2>2, <2>3, <2>4 DEF OldLinesKept, NewLinesKept
<1>7. QED BY <1>5, <1>6 DEF Compare

(* A step that only takes a line of the file.                              *)
LEMMA YieldOldInv ==
  ASSUME Inv, old # <<>>, YieldOld, oldLines' = oldLines
  PROVE  /\ Head(old) \in Line
         /\ old' \in Seq(Line) /\ Len(old') = Len(old) - 1
         /\ fromOld' \in Seq(Line) /\ OldLinesKept'
         /\ out' \in Seq([type : {"old", "new", "same"}, line : Line])
<1>1. /\ Head(old) \in Line
      /\ old' \in Seq(Line) /\ Len(old') = Len(old) - 1
      /\ fromOld' \in Seq(Line) /\ OldLinesKept'
  BY TakeOld DEF Inv, YieldOld
<1>2. out' \in Seq(DiffLine)
  BY <1>1, YieldType DEF Inv, YieldOld
<1>3. QED BY <1>1, <1>2 DEF DiffLine

LEMMA NothingType == Nothing \in [index : Int, perfect : BOOLEAN, line : Line]
  BY LinesAssumption DEF Nothing, NoMatch, EmptyLine, Line

LEMMA SkipInv == Inv /\ Skip => Inv'
<1> SUFFICES ASSUME Inv, Skip PROVE Inv'
  OBVIOUS
<1>1. /\ pc = "match" /\ pc' = "match" /\ found.index > 0
      /\ found.index \in 0 .. Len(old) - 1 /\ found.index \in Int
      /\ found \in [index : Int, perfect : BOOLEAN, line : Line]
      /\ old \in Seq(Line) /\ new # <<>> /\ SameText(found.line, Head(new))
  BY DEF Inv, TypeOK, Skip
<1>2. old # <<>>
  BY <1>1
<1>3. /\ old' \in Seq(Line) /\ Len(old') = Len(old) - 1
      /\ fromOld' \in Seq(Line) /\ OldLinesKept'
      /\ out' \in Seq([type : {"old", "new", "same"}, line : Line])
  BY <1>2, YieldOldInv DEF Skip, inputs
<1>4. /\ found' \in [index : Int, perfect : BOOLEAN, line : Line]
      /\ found'.index = found.index - 1
      /\ found'.perfect = found.perfect /\ found'.line = found.line
  BY <1>1 DEF Skip
<1>5. found'.index \in 0 .. Len(old') - 1
  <2>1. Len(old) \in Nat
    BY <1>1
  <2>2. QED BY <1>1, <1>3, <1>4, <2>1
<1>6. /\ new' = new /\ fromNew' = fromNew /\ oldLines' = oldLines /\ newLines' = newLines
      /\ seenIndentationMistake' = seenIndentationMistake
  BY DEF Skip, inputs
<1>7. TypeOK'
  BY <1>1, <1>3, <1>4, <1>5, <1>6 DEF Inv, TypeOK
<1>8. NewLinesKept'
  BY <1>6 DEF Inv, NewLinesKept
<1>9. MatchInv'
  <2>1. old'[found'.index + 1] = old[found.index + 1]
    <3>1. old' = Tail(old)
      BY DEF Skip, YieldOld
    <3>2. QED BY <1>1, <1>2, <1>4, <3>1
  <2>2. QED BY <1>1, <1>4, <1>6, <2>1 DEF Inv, MatchInv
<1>10. SameLinesInv'
  BY <1>1, <1>6 DEF Inv, SameLinesInv
<1>11. QED BY <1>3, <1>7, <1>8, <1>9, <1>10 DEF Inv

LEMMA SameInv == Inv /\ Same => Inv'
<1> SUFFICES ASSUME Inv, Same PROVE Inv'
  OBVIOUS
<1>1. /\ pc = "match" /\ found.index = 0 /\ found.perfect
      /\ old \in Seq(Line) /\ new \in Seq(Line) /\ new # <<>>
      /\ found.index \in 0 .. Len(old) - 1
  BY DEF Inv, TypeOK, Same, Match
<1>2. old # <<>>
  BY <1>1
<1>3. /\ Head(old) \in Line
      /\ old' \in Seq(Line) /\ fromOld' \in Seq(Line) /\ OldLinesKept'
  BY <1>2, TakeOld DEF Inv, Same, inputs
<1>4. SameText(Head(old), Head(new))
  <2>1. SameText(old[1], Head(new))
    BY <1>1 DEF Inv, MatchInv
  <2>2. QED BY <1>1, <1>2, <2>1
<1>5. new' \in Seq(Line) /\ fromNew' \in Seq(Line) /\ NewLinesKept'
  BY <1>1, <1>3, <1>4, TakeNew DEF Inv, Same, inputs
<1>6. out' \in Seq(DiffLine)
  BY <1>3, YieldType DEF Inv, Same
<1>7. pc' = "compare" /\ found' = Nothing /\ oldLines' = oldLines /\ newLines' = newLines
      /\ seenIndentationMistake' = seenIndentationMistake
  BY DEF Same, inputs
<1>8. TypeOK'
  BY <1>3, <1>5, <1>6, <1>7, NothingType DEF Inv, TypeOK, DiffLine
<1>9. MatchInv'
  BY <1>7 DEF MatchInv
<1>10. SameLinesInv'
  <2>1. SUFFICES ASSUME oldLines = newLines
                 PROVE  old' = new' /\ \A i \in DOMAIN out' : out'[i].type = "same"
    BY <1>7 DEF SameLinesInv
  <2>2. old' = new'
    BY <2>1 DEF Inv, SameLinesInv, Same
  <2>3. \A i \in DOMAIN out' : out'[i].type = "same"
    BY <2>1, YieldSame DEF Inv, Same
  <2>4. QED BY <2>2, <2>3
<1>11. QED BY <1>3, <1>5, <1>8, <1>9, <1>10 DEF Inv

LEMMA RemoveInv == Inv /\ Remove => Inv'
<1> SUFFICES ASSUME Inv, Remove PROVE Inv'
  OBVIOUS
<1>1. /\ pc = "match" /\ ~found.perfect
      /\ old \in Seq(Line) /\ found.index \in 0 .. Len(old) - 1
  BY DEF Inv, TypeOK, Remove, Match
<1>2. old # <<>>
  BY <1>1
<1>3. /\ old' \in Seq(Line) /\ fromOld' \in Seq(Line) /\ OldLinesKept'
      /\ out' \in Seq([type : {"old", "new", "same"}, line : Line])
  BY <1>2, YieldOldInv DEF Remove, inputs
<1>4. /\ pc' = "compare" /\ found' = Nothing /\ oldLines' = oldLines /\ newLines' = newLines
      /\ new' = new /\ fromNew' = fromNew
      /\ seenIndentationMistake' = seenIndentationMistake
  BY DEF Remove, inputs
<1>5. TypeOK'
  BY <1>3, <1>4, NothingType DEF Inv, TypeOK
<1>6. NewLinesKept' /\ MatchInv'
  BY <1>4 DEF Inv, NewLinesKept, MatchInv
<1>7. SameLinesInv'
  BY <1>1, <1>4 DEF Inv, SameLinesInv
<1>8. QED BY <1>3, <1>5, <1>6, <1>7 DEF Inv

LEMMA ReplaceInv == Inv /\ Replace => Inv'
<1> SUFFICES ASSUME Inv, Replace PROVE Inv'
  OBVIOUS
<1>1. /\ pc = "match" /\ ~found.perfect
      /\ old \in Seq(Line) /\ found.index \in 0 .. Len(old) - 1
  BY DEF Inv, TypeOK, Replace, Match
<1>2. old # <<>>
  BY <1>1
<1>3. /\ old' \in Seq(Line) /\ fromOld' \in Seq(Line) /\ OldLinesKept'
      /\ out' \in Seq([type : {"old", "new", "same"}, line : Line])
  BY <1>2, YieldOldInv DEF Replace, inputs
<1>4. /\ pc' = "new" /\ found' = found /\ oldLines' = oldLines /\ newLines' = newLines
      /\ new' = new /\ fromNew' = fromNew
      /\ seenIndentationMistake' = seenIndentationMistake
  BY DEF Replace, inputs
<1>5. TypeOK'
  BY <1>1, <1>3, <1>4 DEF Inv, TypeOK
<1>6. NewLinesKept' /\ MatchInv'
  BY <1>4 DEF Inv, NewLinesKept, MatchInv
<1>7. SameLinesInv'
  BY <1>1, <1>4 DEF Inv, SameLinesInv
<1>8. QED BY <1>3, <1>5, <1>6, <1>7 DEF Inv

LEMMA ReplacementInv == Inv /\ Replacement => Inv'
<1> SUFFICES ASSUME Inv, Replacement PROVE Inv'
  OBVIOUS
<1>1. /\ pc = "new" /\ new # <<>> /\ SameText(found.line, Head(new))
      /\ found.line \in Line
  BY DEF Inv, TypeOK, Replacement
<1>2. new' \in Seq(Line) /\ fromNew' \in Seq(Line) /\ NewLinesKept'
  BY <1>1, TakeNew DEF Inv, Replacement, YieldNew, inputs
<1>3. out' \in Seq(DiffLine)
  BY <1>1, YieldType DEF Inv, Replacement, YieldNew
<1>4. /\ pc' = "compare" /\ found' = Nothing /\ oldLines' = oldLines /\ newLines' = newLines
      /\ old' = old /\ fromOld' = fromOld
      /\ seenIndentationMistake' = seenIndentationMistake
  BY DEF Replacement, inputs
<1>5. TypeOK'
  BY <1>2, <1>3, <1>4, NothingType DEF Inv, TypeOK, DiffLine
<1>6. OldLinesKept' /\ MatchInv'
  BY <1>4 DEF Inv, OldLinesKept, MatchInv
<1>7. SameLinesInv'
  BY <1>1, <1>4 DEF Inv, SameLinesInv
<1>8. QED BY <1>2, <1>5, <1>6, <1>7 DEF Inv

LEMMA RestOfOldInv == Inv /\ RestOfOld => Inv'
<1> SUFFICES ASSUME Inv, RestOfOld PROVE Inv'
  OBVIOUS
<1>1. pc = "compare" /\ old # <<>> /\ new = <<>>
  BY DEF RestOfOld
<1>2. /\ old' \in Seq(Line) /\ fromOld' \in Seq(Line) /\ OldLinesKept'
      /\ out' \in Seq([type : {"old", "new", "same"}, line : Line])
  BY <1>1, YieldOldInv DEF RestOfOld, inputs
<1>3. /\ pc' = pc /\ found' = found /\ oldLines' = oldLines /\ newLines' = newLines
      /\ new' = new /\ fromNew' = fromNew
      /\ seenIndentationMistake' = seenIndentationMistake
  BY DEF RestOfOld, inputs
<1>4. TypeOK'
  BY <1>1, <1>2, <1>3 DEF Inv, TypeOK
<1>5. NewLinesKept' /\ MatchInv'
  BY <1>1, <1>3 DEF Inv, NewLinesKept, MatchInv
<1>6. SameLinesInv'
  BY <1>1, <1>3 DEF Inv, SameLinesInv
<1>7. QED BY <1>2, <1>4, <1>5, <1>6 DEF Inv

LEMMA RestOfNewInv == Inv /\ RestOfNew => Inv'
<1> SUFFICES ASSUME Inv, RestOfNew PROVE Inv'
  OBVIOUS
<1>1. pc = "compare" /\ old = <<>> /\ new # <<>> /\ new \in Seq(Line)
  BY DEF Inv, TypeOK, RestOfNew
<1>2. Head(new) \in Line /\ SameText(Head(new), Head(new))
  BY <1>1 DEF SameText
<1>3. new' \in Seq(Line) /\ fromNew' \in Seq(Line) /\ NewLinesKept'
  BY <1>1, <1>2, TakeNew DEF Inv, RestOfNew, YieldNew, inputs
<1>4. out' \in Seq(DiffLine)
  BY <1>2, YieldType DEF Inv, RestOfNew, YieldNew
<1>5. /\ pc' = pc /\ found' = found /\ oldLines' = oldLines /\ newLines' = newLines
      /\ old' = old /\ fromOld' = fromOld
      /\ seenIndentationMistake' = seenIndentationMistake
  BY DEF RestOfNew, inputs
<1>6. TypeOK'
  BY <1>1, <1>3, <1>4, <1>5 DEF Inv, TypeOK, DiffLine
<1>7. OldLinesKept' /\ MatchInv'
  BY <1>1, <1>5 DEF Inv, OldLinesKept, MatchInv
<1>8. SameLinesInv'
  BY <1>1, <1>5 DEF Inv, SameLinesInv
<1>9. QED BY <1>3, <1>6, <1>7, <1>8 DEF Inv

-----------------------------------------------------------------------------
LEMMA SpecInv == Spec => []Inv
<1>1. Inv /\ [Next]_vars => Inv'
  <2> SUFFICES ASSUME Inv, [Next]_vars PROVE Inv'
    OBVIOUS
  <2>1. CASE Next
    BY <2>1, CompareInv, SkipInv, SameInv, RemoveInv, ReplaceInv, ReplacementInv,
       RestOfOldInv, RestOfNewInv DEF Next
  <2>2. CASE UNCHANGED vars
    BY <2>2 DEF vars, inputs, Inv, TypeOK, OldLinesKept, NewLinesKept, MatchInv, SameLinesInv
  <2>3. QED BY <2>1, <2>2
<1>2. QED BY <1>1, InitInv, PTL DEF Spec

(* matchLine never points past the end of the file, so streamDiff shifts   *)
(* only lines that are there.                                              *)
THEOREM DiffTypes == Spec => []TypeOK
<1>1. Inv => TypeOK
  BY DEF Inv
<1>2. QED BY <1>1, SpecInv, PTL

(* The lines of the file come out in order, each of them once.             *)
THEOREM DiffKeepsOldLines == Spec => []OldLinesKept
<1>1. Inv => OldLinesKept
  BY DEF Inv
<1>2. QED BY <1>1, SpecInv, PTL

(* The lines of the model come out in order, each of them once, with their *)
(* text.                                                                   *)
THEOREM DiffKeepsNewLines == Spec => []NewLinesKept
<1>1. Inv => NewLinesKept
  BY DEF Inv
<1>2. QED BY <1>1, SpecInv, PTL

(* The diff of a file with itself has no change, whatever lines are        *)
(* repeated in it.                                                         *)
THEOREM DiffOfSameLines == Spec => []NoChangeForSameLines
<1>1. Inv => NoChangeForSameLines
  BY DEF Inv, SameLinesInv, NoChangeForSameLines
<1>2. QED BY <1>1, SpecInv, PTL
=============================================================================
