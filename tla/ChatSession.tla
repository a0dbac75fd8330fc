----------------------------- MODULE ChatSession -----------------------------
(***************************************************************************)
(* The chat session of the GUI: the reducers of the session slice          *)
(* (gui/src/redux/slices/sessionSlice.ts) and the thunks of                *)
(* gui/src/redux/thunks that answer a message, stream the response and     *)
(* call tools.                                                             *)
(*                                                                         *)
(* A run is one of these thunks with those it awaits; a thunk that a run   *)
(* dispatches last takes its place.  Reducers are atomic, and what a thunk *)
(* does between two awaits is one action.  Of a message the model keeps    *)
(* its role, whether it has content, and its tool call; context items,     *)
(* prompt logs, checkpoints, editor states and symbols are left out, and   *)
(* so are slash commands, whose output streamUpdate drops.                 *)
(***************************************************************************)
EXTENDS Naturals, Sequences, SequencesExt

CONSTANTS
  Runs,       \* bound: runs at the same time
  Calls,      \* bound: tool calls, numbered from 1
  MaxActs,    \* bound on the messages sent or deleted and the sessions opened
  MaxItems,   \* bound on the length of a history that a response adds to
  None

ASSUME ChatAssumption ==
  /\ Calls \in Nat /\ MaxActs \in Nat /\ MaxItems \in Nat
  /\ None \notin {"generating", "generated", "calling", "done", "canceled"}

VARIABLES
  history,      \* of the session
  isStreaming,
  run,          \* the thunks under way
  acts, called, \* bounds: what the user did, tool calls made
  orderly       \* history: no run was disturbed, see below

vars == <<history, isStreaming, run, acts, called, orderly>>

Statuses == {"generating", "generated", "calling", "done", "canceled"}

(* call: the id in toolCalls; status: of toolCallState; out: the call      *)
(* whose output it holds; of: toolCallId of a tool message.                *)
Message(role, text) ==
  [role |-> role, text |-> text, call |-> 0, status |-> None, out |-> 0, of |-> 0]

User        == Message("user", TRUE)
Answer      == Message("assistant", TRUE)
Placeholder == Message("assistant", FALSE)
ToolCall(c) == [Placeholder EXCEPT !.call = c, !.status = "generating"]
(* The output of a tool that returns no items has no content.              *)
ToolMessage(c, text) == [Message("tool", text) EXCEPT !.of = c]

(* pc: what the run awaits; index: of its message; call: the tool call of  *)
(* its response; inner: callTool is awaited by streamNormalInput; text:    *)
(* whether the output it is to add has content.                            *)
IdleRun == [pc |-> "idle", index |-> 0, call |-> 0, inner |-> FALSE, text |-> FALSE]

Busy == {r \in Runs : run[r].pc # "idle"}

-----------------------------------------------------------------------------
(* Reducers of the session slice, as functions of the history.             *)

Current(h) == IF h = <<>> THEN None ELSE Last(h).status

SetLast(h, field, value) == [h EXCEPT ![Len(h)] = [@ EXCEPT ![field] = value]]

SetStatus(h, s) == IF Current(h) = None THEN h ELSE SetLast(h, "status", s)

(* Mutant: the last response is cleared, empty or not.                     *)
ClearLastResponse(h) == IF Len(h) >= 2 THEN SubSeq(h, 1, Len(h) - 2) ELSE h

ClearLastEmptyResponse(h) ==
  IF Len(h) >= 2 /\ ~Last(h).text THEN SubSeq(h, 1, Len(h) - 2) ELSE h

(* What it takes away is not the message of a tool, with the answer to it. *)
SparesTools(h) == Len(h) >= 2 /\ ~Last(h).text => h[Len(h) - 1].role # "tool"

(* streamUpdate for a message without a call, which may have no content    *)
(* and then is added all the same when it is of another role ...           *)
StreamText(h, m) ==
  CASE h = <<>> -> h
    [] h # <<>> /\ Last(h).role # m.role -> Append(h, m)
    [] OTHER -> IF m.text THEN SetLast(h, "text", TRUE) ELSE h

(* ... and for a part of tool call c.                                      *)
NewItemForCall(h) == Last(h).role # "assistant" \/ Last(h).text

CallThrows(h) == h # <<>> /\ ~NewItemForCall(h) /\ Last(h).call # 0 /\ Last(h).status = None

StreamCall(h, c) ==
  CASE h = <<>> -> h
    [] h # <<>> /\ NewItemForCall(h) -> Append(h, ToolCall(c))
    [] h # <<>> /\ ~NewItemForCall(h) /\ Last(h).call = 0 -> SetLast(h, "call", c)
    [] OTHER -> h

(* setMessageAtIndex, for an index counted from 0; it throws when the      *)
(* index is beyond the end.                                                *)
SetMessageAtIndex(h, i) ==
  IF i = Len(h) THEN Append(h, User)
  ELSE [h EXCEPT ![i + 1] = IF @.status = None THEN User
                            ELSE [@ EXCEPT !.role = "user", !.text = TRUE, !.of = 0]]


-----------------------------------------------------------------------------
(* What the user does.                                                     *)

Act == acts < MaxActs /\ acts' = acts + 1

Begin(r, record) ==
  /\ run[r].pc = "idle"
  /\ run' = [run EXCEPT ![r] = record]
  /\ orderly' = (orderly /\ Busy = {})

(* streamResponseThunk up to gatherContext.  The message becomes one of    *)
(* the user when the context has been gathered.                            *)
Send(r) ==
  /\ ~isStreaming
  /\ Act
  /\ history' = history \o <<Placeholder, Placeholder>>
  /\ isStreaming' = TRUE
  /\ Begin(r, [IdleRun EXCEPT !.pc = "gather", !.index = Len(history)])
  /\ UNCHANGED called

Resubmit(r, i) ==
  /\ ~isStreaming
  /\ history[i].role = "user"
  /\ Act
  /\ history' = SubSeq(history, 1, i - 1) \o <<[history[i] EXCEPT !.text = FALSE], Placeholder>>
  /\ isStreaming' = TRUE
  /\ Begin(r, [IdleRun EXCEPT !.pc = "gather", !.index = i - 1])
  /\ UNCHANGED called

(* The Cancel button of the chat.                                          *)
Cancel ==
  /\ isStreaming
  /\ isStreaming' = FALSE
  /\ history' = ClearLastEmptyResponse(history)
  /\ orderly' = (orderly /\ Current(history) = None /\ SparesTools(history))
  /\ UNCHANGED <<run, acts, called>>

(* callTool, when the user accepts the call.                               *)
Accept(r) ==
  /\ Current(history) = "generated"
  /\ history' = SetStatus(history, "calling")
  /\ Begin(r, [IdleRun EXCEPT !.pc = "tool", !.call = Last(history).call])
  /\ UNCHANGED <<isStreaming, acts, called>>

(* cancelTool, when the user rejects it.                                   *)
Reject(r) ==
  /\ Current(history) = "generated"
  /\ history' = SetStatus(history, "canceled")
  /\ Begin(r, [IdleRun EXCEPT !.pc = "timer", !.call = Last(history).call, !.text = TRUE])
  /\ UNCHANGED <<isStreaming, acts, called>>

(* deleteMessage, offered for an answer that no other answer follows.      *)
DeleteOffered(i) ==
  /\ history[i].role = "assistant" /\ history[i].status = None
  /\ ~(isStreaming /\ i = Len(history))
  /\ i < Len(history) => history[i + 1].role # "assistant"

(* splice(i - 1, 2) for the index of i; from -1 it counts from the end.    *)
DeleteMessage(i) ==
  /\ DeleteOffered(i)
  /\ history' = IF i = 1 THEN SubSeq(history, 1, Len(history) - 1)
                ELSE SubSeq(history, 1, i - 2) \o SubSeq(history, i + 1, Len(history))
  /\ orderly' = FALSE
  /\ Act
  /\ UNCHANGED <<isStreaming, run, called>>

(* newSession: an empty one, a saved one, or one with a prompt.            *)
NewSession ==
  /\ \E h \in {<<>>, <<User, Answer>>, <<User>>} : history' = h
  /\ isStreaming' = FALSE
  /\ orderly' = (orderly /\ Busy = {})
  /\ Act
  /\ UNCHANGED <<run, called>>

-----------------------------------------------------------------------------
(* What the runs do.                                                       *)

Goto(r, record) == run' = [run EXCEPT ![r] = record] /\ UNCHANGED acts

Streaming == [IdleRun EXCEPT !.pc = "stream"]

(* The finally of handleErrors.                                            *)
End(r) == Goto(r, IdleRun) /\ isStreaming' = FALSE

Gathered(r) ==
  /\ run[r].pc = "gather" /\ run[r].index <= Len(history)
  /\ history' = SetMessageAtIndex(history, run[r].index)
  /\ Goto(r, Streaming)
  /\ UNCHANGED <<isStreaming, called, orderly>>

(* A context provider fails, or the message has nowhere to go.             *)
GatherFails(r) ==
  /\ run[r].pc = "gather"
  /\ End(r)
  /\ UNCHANGED <<history, called, orderly>>

Update(r, h) ==
  /\ isStreaming
  /\ Len(h) <= MaxItems
  /\ history' = h
  /\ UNCHANGED <<isStreaming, orderly>>

TextUpdate(r) ==
  /\ run[r].pc = "stream" /\ run[r].call = 0
  /\ \E m \in {Answer, Placeholder} : Update(r, StreamText(history, m))
  /\ UNCHANGED <<run, acts, called>>

CallUpdate(r) ==
  /\ run[r].pc = "stream"
  /\ ~CallThrows(history)
  /\ \/ run[r].call # 0 /\ UNCHANGED called
     \/ run[r].call = 0 /\ called < Calls /\ called' = called + 1
  /\ LET c == IF run[r].call = 0 THEN called + 1 ELSE run[r].call
     IN  /\ Update(r, StreamCall(history, c))
         /\ Goto(r, [run[r] EXCEPT !.call = c])

(* Mutant: the error is thrown past handleErrors.                          *)
StreamFailsUnhandled(r) ==
  /\ run[r].pc = "stream"
  /\ history' = ClearLastEmptyResponse(history)
  /\ orderly' = (orderly /\ Current(history) = None /\ SparesTools(history))
  /\ Goto(r, IdleRun)
  /\ UNCHANGED <<isStreaming, called>>

(* The request fails, or streamUpdate throws.                              *)
StreamFails(r) ==
  /\ run[r].pc = "stream"
  /\ history' = ClearLastEmptyResponse(history)
  /\ orderly' = (orderly /\ Current(history) = None /\ SparesTools(history))
  /\ End(r)
  /\ UNCHANGED called

(* Mutant: the call made is that of this response.                         *)
StreamEndsOwnCall(r) ==
  /\ run[r].pc = "stream"
  /\ UNCHANGED <<called, orderly>>
  /\ \/ /\ Current(history) # None
        /\ history' = SetStatus(history, "calling")
        /\ Goto(r, [IdleRun EXCEPT !.pc = "tool", !.call = run[r].call, !.inner = TRUE])
        /\ UNCHANGED isStreaming
     \/ /\ history' = SetStatus(history, "generated")
        /\ End(r)

(* The loop over the updates ends with the stream, or stops when it finds  *)
(* the session inactive and aborts the requests under the signal; an abort *)
(* asks a stream to end, and what it has buffered still comes.  A tool     *)
(* call at the end of the history is now generated, and called if          *)
(* toolSettings, at the start of the stream, allowed its tool without      *)
(* permission.                                                             *)
StreamEnds(r) ==
  /\ run[r].pc = "stream"
  /\ UNCHANGED <<called, orderly>>
  /\ \/ /\ Current(history) # None
        /\ history' = SetStatus(history, "calling")
        /\ Goto(r, [IdleRun EXCEPT !.pc = "tool", !.call = Last(history).call, !.inner = TRUE])
        /\ UNCHANGED isStreaming
     \/ /\ history' = SetStatus(history, "generated")
        /\ End(r)

(* callTool goes on.  The thunk it dispatches takes the place of this run. *)
Leave(r) == isStreaming' = (isStreaming /\ ~run[r].inner)

ToolReturns(r) ==
  /\ run[r].pc = "tool"
  /\ history' = IF Current(history) = None THEN history
                ELSE SetLast(SetLast(history, "out", run[r].call), "status", "done")
  /\ Leave(r)
  /\ \E t \in BOOLEAN :
       Goto(r, [IdleRun EXCEPT !.pc = "timer", !.call = run[r].call, !.text = t])
  /\ UNCHANGED <<called, orderly>>

(* Mutant: the error of a tool is not handled where the stream awaits it.  *)
ToolFailsUnhandled(r) ==
  /\ run[r].pc = "tool"
  /\ Goto(r, IdleRun)
  /\ UNCHANGED <<isStreaming, history, called, orderly>>

ToolFails(r) ==
  /\ run[r].pc = "tool"
  /\ Leave(r)
  /\ Goto(r, IdleRun)
  /\ UNCHANGED <<history, called, orderly>>

(* streamResponseAfterToolCall, after its timeout.                         *)
AfterToolCall(r) ==
  /\ run[r].pc = "timer"
  /\ history' = StreamText(history, ToolMessage(run[r].call, run[r].text))
  /\ isStreaming' = TRUE
  /\ Goto(r, Streaming)
  /\ UNCHANGED <<called, orderly>>

-----------------------------------------------------------------------------
Init ==
  /\ history = <<>> /\ isStreaming = FALSE
  /\ run = [r \in Runs |-> IdleRun]
  /\ acts = 0 /\ called = 0 /\ orderly = TRUE

RunStep(r) ==
  \/ Gathered(r) \/ GatherFails(r)
  \/ TextUpdate(r) \/ CallUpdate(r) \/ StreamEnds(r) \/ StreamFails(r)
  \/ ToolReturns(r) \/ ToolFails(r) \/ AfterToolCall(r)

UserStep ==
  \/ \E r \in Runs : Send(r) \/ Accept(r) \/ Reject(r)
  \/ \E r \in Runs, i \in DOMAIN history : Resubmit(r, i)
  \/ \E i \in DOMAIN history : DeleteMessage(i)
  \/ Cancel \/ NewSession

Next == UserStep \/ \E r \in Runs : RunStep(r)

Spec == Init /\ [][Next]_vars

(* Requests, tools and context providers answer; the event loop is fair.   *)
FairSpec == Spec /\ \A r \in Runs : WF_vars(RunStep(r)) /\ WF_vars(StreamEnds(r))

-----------------------------------------------------------------------------
CallIds == 0 .. Calls

Messages ==
  [role : {"user", "assistant", "tool"}, text : BOOLEAN, call : CallIds,
   status : Statuses \cup {None}, out : CallIds, of : CallIds]

(* A message has a tool call if it has the state of one, and names the     *)
(* call it answers if it is one of a tool.                                 *)
TypeOK ==
  /\ history \in Seq(Messages)
  /\ \A i \in DOMAIN history :
       /\ history[i].status # None => history[i].call # 0
       /\ history[i].role = "tool" <=> history[i].of # 0
  /\ isStreaming \in BOOLEAN /\ orderly \in BOOLEAN
  /\ run \in [Runs -> [pc : {"idle", "gather", "stream", "tool", "timer"}, index : Nat,
                       call : CallIds, inner : BOOLEAN, text : BOOLEAN]]
  /\ acts \in 0 .. MaxActs /\ called \in CallIds

(* While the session is shown as active, some run will make it inactive:   *)
(* no order of messages, cancellations, errors, tools and new sessions     *)
(* leaves the input blocked with nothing under way.                        *)
ActiveHasARun ==
  isStreaming => \E r \in Runs : \/ run[r].pc \in {"gather", "stream"}
                                 \/ run[r].pc = "tool" /\ run[r].inner

(* As long as runs do not overlap and none is disturbed (its session       *)
(* replaced, its tool call cancelled, a message deleted, the message of a  *)
(* tool cleared with the empty answer to it), every message of a tool      *)
(* comes right after the call it answers, and a call has the output of its *)
(* own execution, whatever else is cancelled, rejected or fails.           *)
ToolAnswersItsCall ==
  orderly =>
    \A i \in DOMAIN history :
      /\ history[i].out \in {0, history[i].call}
      /\ history[i].role = "tool" => i > 1 /\ history[i - 1].call = history[i].of

(* And then a call that was done or rejected is never offered or made      *)
(* again, however many updates and outputs have no content.  It is when    *)
(* Cancel or a failure clears the message of its tool with an empty        *)
(* answer: it is the last message again, and setToolGenerated reopens it.  *)
Closed(m) == m.status \in {"done", "canceled"}

ClosedCallsStayClosed ==
  [][orderly' => \A i \in DOMAIN history \cap DOMAIN history' :
       Closed(history[i]) /\ history'[i].call = history[i].call
         => history'[i].status = history[i].status]_vars

(* The session does not stay active for ever.                              *)
ResponseEnds == isStreaming ~> ~isStreaming

=============================================================================
