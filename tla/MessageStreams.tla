---------------------------- MODULE MessageStreams ----------------------------
(***************************************************************************)
(* Streaming requests of the GUI to the core, through the VS Code          *)
(* extension: streamRequest of gui/src/context/IdeMessenger.ts, the        *)
(* webview protocol and the pass through of the extension, and the         *)
(* generators of core/core.ts that answer "llm/streamChat" and             *)
(* "command/run", with their abort messages.                               *)
(*                                                                         *)
(* A stream stands for the message id of its request.  Messages between    *)
(* the webview and the extension are delivered in order.  What the         *)
(* extension and the core do between two awaits is one action; they share  *)
(* a process.  Of a chunk the model keeps its number.                      *)
(***************************************************************************)
EXTENDS Naturals, Sequences, SequencesExt

CONSTANTS
  Streams,   \* bound: requests made
  Commands,  \* those for a slash command; the others are chats
  Length,    \* bound: the chunks of each model, at most
  None

ASSUME StreamsAssumption ==
  /\ Commands \subseteq Streams
  /\ Length \in [Streams -> Nat]
  /\ None \notin {"end", "error", "ack"}

VARIABLES
  gui,       \* the variables of each call of streamRequest
  signalled, \* the streams whose abort listener is on streamAborter.signal
  toIde, toGui,  \* messages under way
  core,      \* the generator of each stream, and its model
  abortedMessageIds,
  acks,      \* streams whose abort message is not yet answered
  cancelled, \* history: streams that the GUI has aborted
  late       \* history: chunks of the model after the GUI saw that answer

guiVars == <<gui, signalled>>
vars == <<guiVars, toIde, toGui, core, abortedMessageIds, acks, cancelled, late>>

(* returned: responseData of the message that was done; taken: the chunks  *)
(* the consumer got.                                                       *)
NewCall == [state |-> "new", listening |-> FALSE, buffer |-> <<>>, taken |-> <<>>,
            returned |-> None]

NewGenerator == [state |-> "new", made |-> 0, outcome |-> None, checks |-> FALSE]

-----------------------------------------------------------------------------
(* The GUI.                                                                *)

Post(type, ss) == toIde' = toIde \o [i \in 1 .. Len(ss) |-> [type |-> type, id |-> ss[i]]]

Open(s) ==
  /\ gui[s].state = "new"
  /\ gui' = [gui EXCEPT ![s].state = "open", ![s].listening = TRUE]
  /\ signalled' = Append(signalled, s)
  /\ Post("request", <<s>>)
  /\ UNCHANGED <<toGui, core, abortedMessageIds, acks, cancelled, late>>

(* Every stream of the signal posts its abort, those that have ended too.  *)
AbortStream ==
  /\ Post("abort", signalled)
  /\ signalled' = <<>>
  /\ cancelled' = cancelled \cup ToSet(signalled)
  /\ UNCHANGED <<toGui, core, abortedMessageIds, acks, late>>

(* By a new session.                                                       *)
NewSession ==
  /\ signalled # <<>>
  /\ AbortStream
  /\ UNCHANGED gui

(* Done is looked at every 50 ms; what is left in the buffer comes then.   *)
Index(s) == Len(gui[s].taken)

HasNext(s) == gui[s].state = "open" /\ Index(s) < Len(gui[s].buffer)

(* Mutant: the newest chunk is the next.                                   *)
TakeNewest(s) ==
  /\ HasNext(s)
  /\ gui' = [gui EXCEPT ![s].taken = Append(@, Last(gui[s].buffer))]
  /\ UNCHANGED <<signalled, toIde, toGui, core, abortedMessageIds, acks, cancelled, late>>

Take(s) ==
  /\ HasNext(s)
  /\ gui' = [gui EXCEPT ![s].taken = Append(@, gui[s].buffer[Index(s) + 1])]
  /\ UNCHANGED <<signalled, toIde, toGui, core, abortedMessageIds, acks, cancelled, late>>

(* The consumer finds that the session is not active, aborts and breaks.   *)
Leave(s) ==
  /\ HasNext(s)
  /\ gui' = [gui EXCEPT ![s].state = "left"]
  /\ AbortStream

(* Mutant: the loop ends when done is set.                                 *)
ReturnWhenDone(s) ==
  /\ gui[s].state = "open" /\ gui[s].returned # None
  /\ gui' = [gui EXCEPT ![s].state = "returned"]
  /\ UNCHANGED <<signalled, toIde, toGui, core, abortedMessageIds, acks, cancelled, late>>

Return(s) ==
  /\ gui[s].state = "open" /\ gui[s].returned # None
  /\ ~HasNext(s)
  /\ gui' = [gui EXCEPT ![s].state = "returned"]
  /\ UNCHANGED <<signalled, toIde, toGui, core, abortedMessageIds, acks, cancelled, late>>

(* The handler of a message event.                                         *)
Handled(call, m) ==
  CASE ~call.listening -> call
    [] call.listening /\ m.done # None -> [call EXCEPT !.listening = FALSE, !.returned = m.done]
    [] OTHER -> [call EXCEPT !.buffer = Append(@, m.chunk)]

ReceiveInGui ==
  /\ toGui # <<>>
  /\ LET m == Head(toGui) IN gui' = [gui EXCEPT ![m.id] = Handled(@, m)]
  /\ toGui' = Tail(toGui)
  /\ UNCHANGED <<signalled, toIde, core, abortedMessageIds, acks, cancelled, late>>

-----------------------------------------------------------------------------
(* The extension, and the core.                                            *)

Chunk(s, n) == [id |-> s, done |-> None, chunk |-> n]
Done(s, o)  == [id |-> s, done |-> o, chunk |-> 0]

(* The handler of a message is called, but what follows its first await is *)
(* not reached.                                                            *)
Receive ==
  /\ toIde # <<>>
  /\ LET m == Head(toIde)
     IN \/ /\ m.type = "request"
           /\ core' = [core EXCEPT ![m.id].state = "starting"]
           /\ UNCHANGED <<abortedMessageIds, acks>>
        \/ /\ m.type = "abort"
           /\ abortedMessageIds' = abortedMessageIds \cup {m.id}
           /\ acks' = acks \cup {m.id}
           /\ UNCHANGED core
  /\ toIde' = Tail(toIde)
  /\ UNCHANGED <<guiVars, toGui, cancelled, late>>

(* The answer to an abort message has the id of the stream, and is done.   *)
Acknowledge(s) ==
  /\ s \in acks
  /\ acks' = acks \ {s}
  /\ toGui' = Append(toGui, Done(s, "ack"))
  /\ UNCHANGED <<guiVars, toIde, core, abortedMessageIds, cancelled, late>>

(* The config is loaded and the model, or the command, is found.           *)
Begin(s) ==
  /\ core[s].state = "starting"
  /\ core' = [core EXCEPT ![s].state = "asking", ![s].checks = (s \in Commands)]
  /\ UNCHANGED <<guiVars, toIde, toGui, abortedMessageIds, acks, cancelled, late>>

(* A command yields a message that is done, before its generator is.       *)
End(s, o) ==
  /\ core' = [core EXCEPT ![s].state = "ended", ![s].outcome = o, ![s].checks = FALSE]
  /\ toGui' = toGui \o (IF s \in Commands /\ o = "end" THEN <<Done(s, o), Done(s, o)>>
                        ELSE <<Done(s, o)>>)

Late(s) == late' = [late EXCEPT ![s] = IF gui[s].returned = "ack" THEN @ + 1 ELSE @]

ModelYields(s) ==
  /\ core[s].state = "asking" /\ s \notin abortedMessageIds
  /\ core[s].made < Length[s]
  /\ core' = [core EXCEPT ![s].made = @ + 1]
  /\ toGui' = Append(toGui, Chunk(s, core[s].made + 1))
  /\ Late(s)
  /\ UNCHANGED <<guiVars, toIde, abortedMessageIds, acks, cancelled>>

(* Mutant: all the ids are taken out.                                      *)
AbortFoundClears(s) ==
  /\ core[s].state = "asking" /\ s \in abortedMessageIds
  /\ abortedMessageIds' = {}
  /\ End(s, "end")
  /\ Late(s)
  /\ UNCHANGED <<guiVars, toIde, acks, cancelled>>

(* The next chunk finds the id, and is the last.                           *)
AbortFound(s) ==
  /\ core[s].state = "asking" /\ s \in abortedMessageIds
  /\ abortedMessageIds' = abortedMessageIds \ {s}
  /\ End(s, "end")
  /\ Late(s)
  /\ UNCHANGED <<guiVars, toIde, acks, cancelled>>

(* checkActiveInterval of a command takes the id away, and the command     *)
(* goes on.                                                                *)
CheckActive(s) ==
  /\ core[s].checks /\ s \in abortedMessageIds
  /\ abortedMessageIds' = abortedMessageIds \ {s}
  /\ core' = [core EXCEPT ![s].checks = FALSE]
  /\ UNCHANGED <<guiVars, toIde, toGui, acks, cancelled, late>>

ModelEnds(s) ==
  /\ core[s].state = "asking"
  /\ End(s, "end")
  /\ UNCHANGED <<guiVars, toIde, abortedMessageIds, acks, cancelled, late>>

(* Mutant: an error is shown, and not answered.                            *)
FailsUnanswered(s) ==
  /\ core[s].state \in {"starting", "asking"}
  /\ core' = [core EXCEPT ![s].state = "ended", ![s].outcome = "error", ![s].checks = FALSE]
  /\ UNCHANGED <<guiVars, toIde, toGui, abortedMessageIds, acks, cancelled, late>>

(* The config cannot be loaded, the model is not found or it fails.        *)
Fails(s) ==
  /\ core[s].state \in {"starting", "asking"}
  /\ End(s, "error")
  /\ UNCHANGED <<guiVars, toIde, abortedMessageIds, acks, cancelled, late>>

-----------------------------------------------------------------------------
Init ==
  /\ gui = [s \in Streams |-> NewCall] /\ signalled = <<>>
  /\ toIde = <<>> /\ toGui = <<>>
  /\ core = [s \in Streams |-> NewGenerator]
  /\ abortedMessageIds = {} /\ acks = {}
  /\ cancelled = {} /\ late = [s \in Streams |-> 0]

(* The consumer goes on when it has a chunk or the end.                    *)
Consume(s) == Take(s) \/ Return(s) \/ Leave(s)

(* The generator does, whatever the model does.                            *)
Generate(s) ==
  \/ Begin(s) \/ ModelYields(s) \/ AbortFound(s) \/ ModelEnds(s) \/ Fails(s)

Deliver == Receive \/ ReceiveInGui

Next ==
  \/ NewSession \/ Deliver
  \/ \E s \in Streams : \/ Open(s) \/ Consume(s) \/ Generate(s)
                        \/ Acknowledge(s) \/ CheckActive(s)

Spec == Init /\ [][Next]_vars

(* Messages arrive, timers and promises go on, and a model answers or      *)
(* fails.                                                                  *)
Fairness ==
  /\ WF_vars(Receive) /\ WF_vars(ReceiveInGui)
  /\ \A s \in Streams : WF_vars(Consume(s)) /\ WF_vars(Generate(s)) /\ WF_vars(Acknowledge(s))

FairSpec == Spec /\ Fairness

-----------------------------------------------------------------------------
(* A consumer gets the chunks of its own model, in order and each once,    *)
(* whatever other streams and abort messages use the same channel.         *)
DeliveredInOrder ==
  \A s \in Streams : \A i \in DOMAIN gui[s].taken : gui[s].taken[i] = i /\ i <= core[s].made

(* A stream that the GUI has not aborted returns what its model did, an    *)
(* end or an error, and has by then given all of its chunks: none is left  *)
(* behind the message that is done.                                        *)
ReturnIsTrue ==
  \A s \in Streams :
    gui[s].state = "returned" /\ s \notin cancelled
      => /\ gui[s].returned = core[s].outcome
         /\ Len(gui[s].taken) = core[s].made

(* Once the GUI has seen its abort answered, the model of a chat gives at  *)
(* most one more chunk.                                                    *)
AbortStopsModel == \A s \in Streams \ Commands : late[s] <= 1

(* No stream keeps its consumer waiting for ever.                          *)
StreamsReturn == \A s \in Streams : gui[s].state = "open" ~> gui[s].state # "open"

=============================================================================
