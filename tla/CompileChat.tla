------------------------------ MODULE CompileChat ------------------------------
(***************************************************************************)
(* compileChatMessages (core/llm/countTokens.ts): the messages of a chat   *)
(* are cut down, in six phases, until the count of their tokens fits the   *)
(* context of a model; then neighbours of one role are joined.             *)
(*                                                                         *)
(* A message is its role and the tokens of its content; from lists the     *)
(* messages of the request it is made of, 0 being the system message.  A   *)
(* content is a text, or an array of parts with some text, as              *)
(* constructMessages.ts:97-109 makes it of a user's message and its        *)
(* context.  Of an array, countTokens counts the last part only: size is   *)
(* what is counted (nothing when the last part is an image), more is what  *)
(* the other parts add when they are joined.  The end of a content has as  *)
(* many tokens as are left after the cut, and "..." is one token.          *)
(*                                                                         *)
(* JavaScript's numbers have fractions here, thirds of a token: totals are *)
(* counted in thirds.                                                      *)
(***************************************************************************)
EXTENDS Integers, SequencesExt

CONSTANTS
  Requests,       \* the requests, without their system message
  ContextLength,
  Reserved,       \* values of maxTokens + functionTokens
  Buffer,         \* TOKEN_BUFFER_FOR_SAFETY
  PerMessage,     \* TOKENS_PER_MESSAGE
  Recent,         \* how many messages at the end are spared, 5 in the code
  Hundred,        \* tokens of the first 100 characters of a longer message
  SystemSizes,    \* sizes of the system message
  Object          \* tokens of "[object Object]", of an array that is added to a text

RequestMessage ==
  [role : {"user", "assistant", "call", "tool"}, form : {"text"}, size : Nat, more : {0}]
  \cup [role : {"user"}, form : {"parts"}, size : Nat, more : Nat]

ASSUME CompileAssumption ==
  /\ Requests \subseteq Seq(RequestMessage) /\ Object \in Nat
  /\ ContextLength \in Nat /\ Reserved \subseteq Nat
  /\ Buffer \in Nat /\ PerMessage \in 1 .. Buffer
  /\ Recent \in Nat \ {0} /\ Hundred \in Nat \ {0} /\ SystemSizes \subseteq Nat \ {0}

(* The buffer, 350 in the code, covers the fractions of tokens that are    *)
(* lost when messages are cut to a third, up to two thirds for each.       *)
ASSUME MarginAssumption == Buffer >= 2 /\ 2 * Recent <= 3 * Buffer

VARIABLES
  request,      \* msgs
  system,       \* where a system message comes from
  reserved,
  images,       \* supportsImages
  pc,
  arranged,     \* msgsCopy, as it is handed to pruneChatHistory
  history,      \* chatHistory
  total,        \* totalTokens, in thirds
  distance,     \* longerThanOneThird: what each message has beyond it, in thirds
  i

inputs == <<request, system, reserved, images>>
vars   == <<inputs, pc, arranged, history, total, distance, i>>

-----------------------------------------------------------------------------
Thirds(n) == 3 * n
SumOf(h)  == FoldLeft(LAMBDA acc, m : acc + m.size, 0, h)

(* renderChatMessage: the texts of all parts; a content of n tokens.       *)
TextOf(m) == m.size + m.more

AsText(m, n) == [m EXCEPT !.form = "text", !.size = n, !.more = 0]

(* Empty messages are left out, or become " "; a model without images gets *)
(* the texts of the parts.                                                 *)
IsEmpty(m) == m.form = "text" /\ m.size = 0 /\ m.role \in {"user", "assistant"}

Content(m) ==
  IF TextOf(m) = 0 THEN AsText(m, 1) ELSE IF images THEN m ELSE AsText(m, TextOf(m))

Message(n) ==
  LET m == Content(request[n])
  IN  [role |-> m.role, from |-> <<n>>, form |-> m.form, size |-> m.size, more |-> m.more]

Copied ==
  FoldLeftDomain(LAMBDA acc, n : IF IsEmpty(request[n]) THEN acc ELSE Append(acc, Message(n)),
                 <<>>, request)

SystemMessage(n) ==
  [role |-> "system", from |-> <<0>>, form |-> "text", size |-> n, more |-> 0]

(* splice(-1, 0, m)                                                        *)
SecondToLast(h, m) == InsertAt(h, IF h = <<>> THEN 1 ELSE Len(h), m)

(* Mutant: the system message goes to the end.                             *)
ArrangedAtEnd(n) == IF system = "none" THEN Copied ELSE Append(Copied, SystemMessage(n))

Arranged(n) == IF system = "none" THEN Copied ELSE SecondToLast(Copied, SystemMessage(n))

(* Mutant: the tokens kept free for safety are forgotten.                  *)
CompletionUnbuffered == reserved

Completion == reserved + Buffer

Counted(h) == Thirds(Completion + SumOf(h) + PerMessage * Len(h))

(* msgs?.[0].role of a request that has no message at all, not even one of *)
(* the system; the check of maxTokens.                                     *)
Throws == (request = <<>> /\ system # "request") \/ reserved + Buffer >= ContextLength

CompileThrows ==
  /\ pc = "compile" /\ Throws
  /\ pc' = "threw"
  /\ UNCHANGED <<inputs, arranged, history, total, distance, i>>

Compile ==
  /\ pc = "compile" /\ ~Throws
  /\ \E n \in SystemSizes : arranged' = Arranged(n)
  /\ history' = arranged'
  /\ total' = Counted(arranged')
  /\ distance' = [k \in {k \in DOMAIN arranged' : Thirds(arranged'[k].size) > ContextLength} |->
                    Thirds(arranged'[k].size) - ContextLength]
  /\ pc' = "trim"
  /\ UNCHANGED <<inputs, i>>

-----------------------------------------------------------------------------
(* pruneChatHistory.                                                       *)

TooLong == total > Thirds(ContextLength)

Phase(p) == pc' = p /\ i' = 0

(* The new content is a text.                                              *)
Resize(k, n) == history' = [history EXCEPT ![k] = AsText(@, n)]

(* 0. Messages longer than a third of the context lose their beginning,    *)
(* in the order of their lengths (of an array, the number of its parts);   *)
(* the number to cut has a fraction and may be negative.                   *)
(* pruneStringFromTop cuts whole tokens.                                   *)
LessOf(a, b) == IF a < b THEN a ELSE b
MoreOf(a, b) == IF a > b THEN a ELSE b

(* Mutant: a message is cut to a third although less would do.             *)
DeltaToThird(k) == distance[k]

Delta(k) == LessOf(total - Thirds(ContextLength), distance[k])

Trim(k) ==
  /\ pc = "trim" /\ k \in DOMAIN distance
  /\ Resize(k, LessOf(TextOf(history[k]), history[k].size - Delta(k) \div 3))
  /\ total' = total - Delta(k)
  /\ distance' = [x \in DOMAIN distance \ {k} |-> distance[x]]
  /\ UNCHANGED <<inputs, pc, arranged, i>>

TrimEnds ==
  /\ pc = "trim" /\ DOMAIN distance = {}
  /\ Phase("summarizeFirst")
  /\ UNCHANGED <<inputs, arranged, history, total, distance>>

(* summarize: the first 100 characters and "...".                          *)
Summary(n) == LessOf(n, Hundred) + 1

Summarize(k) ==
  /\ Resize(k, Summary(TextOf(history[k])))
  /\ total' = total + Thirds(Summary(TextOf(history[k])) - history[k].size)

Shift ==
  /\ history' = Tail(history)
  /\ total' = total - Thirds(Head(history).size)

(* 1. The loop counts messages but summarizes the first one each time.     *)
MoreToSummarizeFirst == TooLong /\ i < Len(history) - Recent

SummarizeFirst ==
  /\ pc = "summarizeFirst" /\ MoreToSummarizeFirst
  /\ Summarize(1)
  /\ i' = i + 1
  /\ UNCHANGED <<inputs, pc, arranged, distance>>

SummarizeFirstEnds ==
  /\ pc = "summarizeFirst" /\ ~MoreToSummarizeFirst
  /\ Phase("dropOld")
  /\ UNCHANGED <<inputs, arranged, history, total, distance>>

(* 2. Whole messages, down to the recent ones.                             *)
DropOld ==
  /\ pc = "dropOld" /\ TooLong /\ Len(history) > Recent
  /\ Shift
  /\ UNCHANGED <<inputs, pc, arranged, distance, i>>

DropOldEnds ==
  /\ pc = "dropOld" /\ ~(TooLong /\ Len(history) > Recent)
  /\ Phase("summarize")
  /\ UNCHANGED <<inputs, arranged, history, total, distance>>

(* 3. The recent ones but the last.                                        *)
(* Mutant: the last one as well.                                           *)
MoreToSummarizeAll == TooLong /\ i < Len(history)

MoreToSummarize == TooLong /\ i < Len(history) - 1

SummarizeNext ==
  /\ pc = "summarize" /\ MoreToSummarize
  /\ Summarize(i + 1)
  /\ i' = i + 1
  /\ UNCHANGED <<inputs, pc, arranged, distance>>

SummarizeEnds ==
  /\ pc = "summarize" /\ ~MoreToSummarize
  /\ Phase("drop")
  /\ UNCHANGED <<inputs, arranged, history, total, distance>>

(* 4. Whole messages, down to the last.                                    *)
Drop ==
  /\ pc = "drop" /\ TooLong /\ Len(history) > 1
  /\ Shift
  /\ UNCHANGED <<inputs, pc, arranged, distance, i>>

DropEnds ==
  /\ pc = "drop" /\ ~(TooLong /\ Len(history) > 1)
  /\ Phase("truncate")
  /\ UNCHANGED <<inputs, arranged, history, total, distance>>

(* 5. The beginning of the last one.  The buffer is taken off again.       *)
Room == MoreOf(ContextLength - Completion - Buffer, 0)

Truncate ==
  /\ pc = "truncate"
  /\ IF TooLong /\ history # <<>>
     THEN /\ Resize(1, LessOf(TextOf(history[1]), Room))
          /\ total' = Thirds(ContextLength)
     ELSE UNCHANGED <<history, total>>
  /\ Phase("finish")
  /\ UNCHANGED <<inputs, arranged, distance>>

-----------------------------------------------------------------------------
(* The rest of compileChatMessages.                                        *)

(* Only a system message of the options is looked for.                     *)
SystemToTop(h) ==
  LET k == Len(h) - 1
  IN  IF system = "option" /\ Len(h) >= 2 /\ h[k].role = "system"
      THEN Cons(h[k], RemoveAt(h, k))
      ELSE h

(* Role "call" is an assistant's message with tool calls.                  *)
Joins(m, n) == m.role = n.role /\ m.role # "call"

(* content += "\n\n" + content, where an array becomes "[object Object]".   *)
(* "\n\n" is one token.                                                    *)
Added(m) == IF m.form = "parts" THEN Object ELSE m.size

Joined(m, n) ==
  [role |-> m.role, from |-> m.from \o n.from,
   form |-> "text", size |-> Added(m) + 1 + Added(n), more |-> 0]

FlattenMessages(h) ==
  FoldLeft(LAMBDA acc, m : IF acc # <<>> /\ Joins(Last(acc), m)
                           THEN Append(Front(acc), Joined(Last(acc), m))
                           ELSE Append(acc, m),
           <<>>, h)

Finish ==
  /\ pc = "finish"
  /\ history' = FlattenMessages(SystemToTop(history))
  /\ pc' = "done"
  /\ UNCHANGED <<inputs, arranged, total, distance, i>>

-----------------------------------------------------------------------------
(* The system message is an option of the model, the first message of the  *)
(* request, or missing.  Where both are there they are one, the option's;  *)
(* the request has messages then.                                          *)
Init ==
  /\ request \in Requests
  /\ system \in {"none", "option", "request"}
  /\ reserved \in Reserved /\ images \in BOOLEAN
  /\ pc = "compile"
  /\ arranged = <<>> /\ history = <<>>
  /\ total = 0
  /\ distance = [k \in {} |-> 0]
  /\ i = 0

Next ==
  \/ CompileThrows \/ Compile
  \/ \E k \in DOMAIN distance : Trim(k)
  \/ TrimEnds
  \/ SummarizeFirst \/ SummarizeFirstEnds
  \/ DropOld \/ DropOldEnds
  \/ SummarizeNext \/ SummarizeEnds
  \/ Drop \/ DropEnds
  \/ Truncate \/ Finish

Spec == Init /\ [][Next]_vars

-----------------------------------------------------------------------------
Pruning == pc \in {"trim", "summarizeFirst", "dropOld", "summarize", "drop", "truncate", "finish"}

(* A prompt leaves room for the answer and for the functions in the        *)
(* context, whatever the total missed or had twice on the way              *)
(* (pruneChatHistory, phases 0 to 5).  For a model without images, whose   *)
(* contents are all texts, the sizes are true and the prompt itself fits.  *)
(* For one with images the sizes are countTokens' own (countTokens.ts:107, *)
(* the last part of an array): what is pruned fits as the code counts it.  *)
FitsContext ==
  pc = "finish" \/ (pc = "done" /\ ~images) =>
    SumOf(history) + PerMessage * Len(history) + reserved <= ContextLength

(* Nothing is cut from a request that fits as it is counted, although      *)
(* messages longer than a third go through phase 0: no message is lost or  *)
(* changed, but an array of which the last part is as long becomes a text. *)
FittingIsKept ==
  Pruning /\ Counted(arranged) <= Thirds(ContextLength) =>
    /\ Len(history) = Len(arranged)
    /\ \A k \in DOMAIN arranged :
         \/ history[k] = arranged[k]
         \/ arranged[k].form = "parts" /\ Thirds(arranged[k].size) > ContextLength

(* Pruning loses messages from the oldest on: what is left is the end of   *)
(* what was there, never nothing, and its last message is cut only when it *)
(* is longer than a third of the context or all that is left.              *)
Origins(h) == [k \in DOMAIN h |-> h[k].from]

LatestAreKept ==
  Pruning /\ arranged # <<>> =>
    /\ history # <<>> /\ IsSuffix(Origins(history), Origins(arranged))
    /\ \/ Last(history) = Last(arranged)
       \/ Thirds(Last(arranged).size) > ContextLength
       \/ Len(history) = 1

(* countTokens.ts:417, "Later moved to top, but want second-priority to    *)
(* last user message": a system message of the options comes first in the  *)
(* prompt, and is lost only when a single message is left.                 *)
SystemComesFirst ==
  pc = "done" /\ system = "option" =>
    \/ history[1].role = "system"
    \/ Len(history) = 1

=============================================================================
