------------------------------ MODULE IpcFraming ------------------------------
(***************************************************************************)
(* Framing of the messages between an IDE and the core in a process of its *)
(* own: _handleData and _handleLine of binary/src/IpcMessenger.ts, which   *)
(* binary/src/TcpMessenger.ts repeats.                                     *)
(*                                                                         *)
(* A message is sent as a line of JSON and "\r\n", and arrives as buffers  *)
(* that may be cut after any byte.  Of the text of message m the model     *)
(* keeps a character of two bytes, <<m, 1>> and <<m, 2>>, and one of a     *)
(* single byte, <<m, 3>>, with a space between them: a message begins and  *)
(* ends with a brace, and may have spaces anywhere within its strings.     *)
(***************************************************************************)
EXTENDS Naturals, Sequences, FiniteSets, SequencesExt

CONSTANT Sent  \* bound: the number of messages

ASSUME SentAssumption == Sent \in Nat \ {0}

VARIABLES
  received,        \* how many bytes have arrived
  unfinishedLine,  \* _unfinishedLine; empty stands for undefined
  handled,         \* history: the messages that JSON.parse has given
  cuts             \* history: after how many bytes a buffer ended

frameVars == <<received, unfinishedLine, handled, cuts>>

CR    == <<0, 1>>
LF    == <<0, 2>>
Space == <<0, 3>>

Text(m) == <<<<m, 1>>, <<m, 2>>, Space, <<m, 3>>>>

(* What is written for the messages, one after the other: the bytes of     *)
(* message m are those after Before(m).                                    *)
FrameLength == 6
Frame(m)    == Text(m) \o <<CR, LF>>
Before(m)   == (m - 1) * FrameLength

MessageAt(i) == CHOOSE m \in 1 .. Sent : i \in Before(m) + 1 .. Before(m + 1)

Stream == [i \in 1 .. Sent * FrameLength |-> Frame(MessageAt(i))[i - Before(MessageAt(i))]]

(* The members of a set of numbers in their order, and those of a sequence *)
(* at the places in a set.                                                 *)
InOrder(S) ==
  [k \in 1 .. Cardinality(S) |-> CHOOSE x \in S : Cardinality({y \in S : y <= x}) = k]

At(s, places) ==
  LET q == InOrder(places) IN [k \in DOMAIN q |-> s[q[k]]]

(* Half of a character is decoded as a replacement character.              *)
Bad(m) == <<m, 0>>

Decode(bytes) ==
  [i \in DOMAIN bytes |->
     IF \/ i = 1 /\ bytes[i] \in {<<m, 2>> : m \in 1 .. Sent}
        \/ i = Len(bytes) /\ bytes[i] \in {<<m, 1>> : m \in 1 .. Sent}
     THEN Bad(bytes[i][1]) ELSE bytes[i]]

Terminator == {CR, LF}
WhiteSpace == Terminator \cup {Space}

IsBlank(line) == \A i \in DOMAIN line : line[i] \in WhiteSpace

(* d.split(/\r\n/): what lies between two terminators, or before the first *)
(* and after the last of them.                                             *)
Split(d) ==
  LET cr   == {i \in 1 .. Len(d) - 1 : d[i] = CR /\ d[i + 1] = LF}
      from == InOrder({1} \cup {i + 2 : i \in cr})
      to   == InOrder({i - 1 : i \in cr} \cup {Len(d)})
  IN  [k \in DOMAIN from |-> SubSeq(d, from[k], to[k])]

Lines(d) == At(Split(d), {k \in DOMAIN Split(d) : ~IsBlank(Split(d)[k])})

EndsLine(d) == IsSuffix(<<CR, LF>>, d)

(* JSON.parse takes a line with the text of one message, and what is left  *)
(* of terminators around it; characters within the message may be wrong,   *)
(* and spaces missing.                                                     *)
TextOf(line) == At(line, {i \in DOMAIN line : line[i] \notin Terminator})

Letters(text) == {i \in DOMAIN text : text[i] # Space}

IsMessage(text) ==
  /\ Cardinality(Letters(text)) = 3
  /\ \A i, j \in Letters(text) : text[i][1] = text[j][1]

(* _handleLine reports a line that cannot be parsed, and drops it.         *)
HandleLines(lines) ==
  LET texts == [i \in DOMAIN lines |-> TextOf(lines[i])]
  IN  handled' = handled \o At(texts, {i \in DOMAIN texts : IsMessage(texts[i])})

Joined(lines) == [lines EXCEPT ![1] = unfinishedLine \o @]

(* _handleData for the next n bytes.                                       *)
HandleBlank(d) ==
  /\ Lines(d) = <<>>
  /\ UNCHANGED <<unfinishedLine, handled>>

(* Mutant: _unfinishedLine is not reset.                                   *)
HandleFinishedAgain(d) ==
  /\ Lines(d) # <<>>
  /\ EndsLine(d)
  /\ UNCHANGED unfinishedLine
  /\ HandleLines(Joined(Lines(d)))

HandleFinished(d) ==
  /\ Lines(d) # <<>>
  /\ EndsLine(d)
  /\ unfinishedLine' = <<>>
  /\ HandleLines(Joined(Lines(d)))

HandleUnfinished(d) ==
  /\ Lines(d) # <<>>
  /\ ~EndsLine(d)
  /\ unfinishedLine' = Last(Joined(Lines(d)))
  /\ HandleLines(Front(Joined(Lines(d))))

HandleData(n) ==
  /\ received + n <= Len(Stream)
  /\ received' = received + n
  /\ cuts' = cuts \cup {received + n}
  /\ LET d == Decode(SubSeq(Stream, received + 1, received + n))
     IN  HandleBlank(d) \/ HandleFinished(d) \/ HandleUnfinished(d)

FrameInit == received = 0 /\ unfinishedLine = <<>> /\ handled = <<>> /\ cuts = {}

FrameNext == \E n \in 1 .. Sent * FrameLength : HandleData(n)

FrameSpec == FrameInit /\ [][FrameNext]_frameVars

-----------------------------------------------------------------------------
(* The terminator of message m is cut by a buffer that ends just before or *)
(* within it.                                                              *)
TerminatorCut(m) == cuts \cap {Before(m) + 4, Before(m) + 5} # {}

CharacterCut(m) == Before(m) + 1 \in cuts

(* The space of message m came as a buffer of its own.                     *)
SpaceAlone(m) == {Before(m) + 2, Before(m) + 3} \subseteq cuts

Arrived == {m \in 1 .. Sent : Before(m + 1) <= received}

Safe(m) == ~TerminatorCut(m) /\ (m > 1 => ~TerminatorCut(m - 1))

(* How the core sees the text of a message.                                *)
Seen(m) ==
  (IF CharacterCut(m) THEN <<Bad(m), Bad(m)>> ELSE <<<<m, 1>>, <<m, 2>>>>)
    \o (IF SpaceAlone(m) THEN <<>> ELSE <<Space>>) \o <<<<m, 3>>>>

(* Wherever buffers are cut, the core handles in order, once and at the    *)
(* latest with their last byte, all messages but those beside a terminator *)
(* that was cut off or apart; and it handles them as they were sent, but   *)
(* for a character that was cut, and for a space that came as a buffer of  *)
(* its own: _handleData takes such a buffer for one without lines, also in *)
(* the middle of a message.  The messages beside a terminator that was cut *)
(* run together into a line that no parser takes (_handleData tests each   *)
(* buffer for the terminator, not what has been joined).                   *)
UncutMessagesAreHandled ==
  handled = At([m \in 1 .. Sent |-> Seen(m)], {m \in Arrived : Safe(m)})

=============================================================================
