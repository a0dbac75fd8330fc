------------------------ MODULE MessageStreamsProofs ------------------------
(***************************************************************************)
(* MessageStreams for any number of streams, commands and chunks: each     *)
(* consumer gets the chunks of its own model in order, and a stream that   *)
(* was not aborted returns what its model did, with all of its chunks.     *)
(* IpcFraming for any number of messages and any cuts of their bytes.      *)
(***************************************************************************)
EXTENDS MessageStreams, IpcFraming, SequenceTheorems, FiniteSetTheorems,
        WellFoundedInduction, TLAPS

Outcomes == {None, "end", "error", "ack"}

Calls ==
  [state : {"new", "open", "left", "returned"}, listening : BOOLEAN,
   buffer : Seq(Nat), taken : Seq(Nat), returned : Outcomes]

Generators ==
  [state : {"new", "starting", "asking", "ended"}, made : Nat, outcome : Outcomes,
   checks : BOOLEAN]

Messages == [type : {"request", "abort"}, id : Streams]
Answers  == [id : Streams, done : Outcomes, chunk : Nat]

TypeOK ==
  /\ gui \in [Streams -> Calls] /\ signalled \in Seq(Streams)
  /\ toIde \in Seq(Messages) /\ toGui \in Seq(Answers)
  /\ core \in [Streams -> Generators]
  /\ abortedMessageIds \subseteq Streams /\ acks \subseteq Streams
  /\ cancelled \subseteq Streams /\ late \in [Streams -> Nat]

-----------------------------------------------------------------------------
(* The inductive invariant.                                                *)

IsChunk(m, s)   == m.id = s /\ m.done = None
IsDone(m, s)    == m.id = s /\ m.done # None
IsRequest(m, s) == m.id = s /\ m.type = "request"
IsAbort(m, s)   == m.id = s /\ m.type = "abort"

(* What the consumer has is a part of what it was sent, and that the first *)
(* chunks of the model.                                                    *)
BufferInv(s) ==
  /\ Len(gui[s].taken) <= Len(gui[s].buffer)
  /\ Len(gui[s].buffer) <= core[s].made
  /\ \A i \in DOMAIN gui[s].buffer : gui[s].buffer[i] = i
  /\ \A i \in DOMAIN gui[s].taken : gui[s].taken[i] = i

(* The chunks under way are in order, and those that the buffer of a       *)
(* stream still wants.                                                     *)
ChannelInv(s) ==
  /\ \A j \in DOMAIN toGui : IsChunk(toGui[j], s) => toGui[j].chunk \in 1 .. core[s].made
  /\ \A i, j \in DOMAIN toGui :
       i < j /\ IsChunk(toGui[i], s) /\ IsChunk(toGui[j], s)
         => toGui[i].chunk < toGui[j].chunk
  /\ gui[s].listening =>
       /\ \A j \in DOMAIN toGui : IsChunk(toGui[j], s) => toGui[j].chunk > Len(gui[s].buffer)
       /\ \A n \in (Len(gui[s].buffer) + 1) .. core[s].made :
            \E j \in DOMAIN toGui : IsChunk(toGui[j], s) /\ toGui[j].chunk = n

(* Nothing is known of a stream that has not been opened.                  *)
NewInv(s) ==
  gui[s].state = "new" =>
    /\ gui[s].buffer = <<>> /\ gui[s].returned = None
    /\ core[s].state = "new" /\ core[s].made = 0
    /\ s \notin acks
    /\ \A j \in DOMAIN signalled : signalled[j] # s
    /\ \A j \in DOMAIN toIde : toIde[j].id # s
    /\ \A j \in DOMAIN toGui : toGui[j].id # s

(* A generator is started once.                                            *)
RequestInv(s) ==
  \A j \in DOMAIN toIde :
    IsRequest(toIde[j], s) =>
      /\ core[s].state = "new"
      /\ \A i \in DOMAIN toIde : IsRequest(toIde[i], s) => i = j

ReturnInv(s) ==
  /\ gui[s].returned # None => ~gui[s].listening
  /\ gui[s].state = "returned" =>
       gui[s].returned # None /\ Len(gui[s].taken) = Len(gui[s].buffer)

(* Unless the stream is aborted, the message that is done is that of its   *)
(* generator, and comes after all chunks.                                  *)
EndInv(s) ==
  s \notin cancelled =>
    /\ s \notin acks
    /\ \A j \in DOMAIN toIde : ~IsAbort(toIde[j], s)
    /\ \A j \in DOMAIN toGui :
         IsDone(toGui[j], s) => core[s].state = "ended" /\ toGui[j].done = core[s].outcome
    /\ \A i, j \in DOMAIN toGui : IsChunk(toGui[i], s) /\ IsDone(toGui[j], s) => i < j
    /\ gui[s].returned # None =>
         /\ core[s].state = "ended" /\ gui[s].returned = core[s].outcome
         /\ Len(gui[s].buffer) = core[s].made

StreamInv(s) ==
  BufferInv(s) /\ ChannelInv(s) /\ NewInv(s) /\ RequestInv(s) /\ ReturnInv(s) /\ EndInv(s)

Inv == TypeOK /\ \A s \in Streams : StreamInv(s)

-----------------------------------------------------------------------------
(* Types.                                                                  *)

LEMMA PostTypes ==
  ASSUME TypeOK, NEW type \in {"request", "abort"}, NEW ss \in Seq(Streams), Post(type, ss)
  PROVE  toIde' \in Seq(Messages)
  <1> DEFINE new == [i \in 1 .. Len(ss) |-> [type |-> type, id |-> ss[i]]]
  <1>1. new \in Seq(Messages)
    BY DEF Messages
  <1>2. toIde \in Seq(Messages)
    BY DEF TypeOK
  <1> HIDE DEF new
  <1>3. toIde \o new \in Seq(Messages)
    BY <1>1, <1>2
  <1> QED BY <1>3 DEF Post, new

LEMMA AbortTypes ==
  ASSUME TypeOK, AbortStream
  PROVE  signalled' \in Seq(Streams) /\ toIde' \in Seq(Messages) /\ cancelled' \subseteq Streams
  <1>1. toIde' \in Seq(Messages)
    BY PostTypes DEF AbortStream, TypeOK
  <1>2. signalled' \in Seq(Streams)
    BY DEF AbortStream
  <1>3. cancelled' \subseteq Streams
    BY DEF AbortStream, TypeOK, ToSet
  <1> QED BY <1>1, <1>2, <1>3

LEMMA HandledTypes ==
  ASSUME NEW call \in Calls, NEW m \in Answers
  PROVE  Handled(call, m) \in Calls
  <1>1. Append(call.buffer, m.chunk) \in Seq(Nat)
    BY DEF Calls, Answers
  <1> QED BY <1>1 DEF Handled, Calls, Answers

LEMMA GuiTypes ==
  ASSUME TypeOK, NEW s \in Streams, Open(s) \/ Consume(s)
  PROVE  TypeOK'
  <1>1. CASE Open(s)
    <2>0. <<s>> \in Seq(Streams) /\ Post("request", <<s>>)
      BY <1>1 DEF Open
    <2>1. toIde' \in Seq(Messages)
      BY <2>0, PostTypes
    <2>2. signalled' \in Seq(Streams)
      BY <1>1 DEF Open, TypeOK
    <2>3. gui' \in [Streams -> Calls]
      BY <1>1 DEF Open, TypeOK, Calls
    <2>4. UNCHANGED <<toGui, core, abortedMessageIds, acks, cancelled, late>>
      BY <1>1 DEF Open
    <2> QED BY <2>1, <2>2, <2>3, <2>4 DEF TypeOK
  <1>2. CASE Take(s)
    <2>1. gui[s].buffer[Index(s) + 1] \in Nat
      BY <1>2 DEF Take, HasNext, Index, TypeOK, Calls
    <2>2. Append(gui[s].taken, gui[s].buffer[Index(s) + 1]) \in Seq(Nat)
      BY <2>1 DEF TypeOK, Calls
    <2> QED BY <1>2, <2>2 DEF Take, TypeOK, Calls
  <1>3. CASE Return(s)
    BY <1>3 DEF Return, TypeOK, Calls
  <1>4. CASE Leave(s)
    <2>1. AbortStream
      BY <1>4 DEF Leave
    <2>2. gui' \in [Streams -> Calls]
      BY <1>4 DEF Leave, TypeOK, Calls
    <2> QED BY <2>1, <2>2, AbortTypes DEF AbortStream, TypeOK
  <1> QED BY <1>1, <1>2, <1>3, <1>4 DEF Consume

LEMMA DeliverTypes ==
  ASSUME TypeOK, NewSession \/ Deliver
  PROVE  TypeOK'
  <1>1. CASE NewSession
    BY <1>1, AbortTypes DEF NewSession, AbortStream, TypeOK
  <1>2. CASE Receive
    <2>1. Head(toIde) \in Messages /\ Tail(toIde) \in Seq(Messages)
      BY <1>2 DEF Receive, TypeOK
    <2>2. core' \in [Streams -> Generators]
      <3>1. Head(toIde).id \in Streams /\ core[Head(toIde).id] \in Generators
        BY <2>1 DEF TypeOK, Messages
      <3>2. CASE Head(toIde).type = "request"
        <4>1. core' = [core EXCEPT ![Head(toIde).id].state = "starting"]
          BY <1>2, <3>2 DEF Receive
        <4> QED BY <3>1, <4>1 DEF TypeOK, Generators
      <3>3. CASE Head(toIde).type = "abort"
        BY <1>2, <3>3 DEF Receive, TypeOK
      <3> QED BY <2>1, <3>2, <3>3 DEF Messages
    <2>3. abortedMessageIds' \subseteq Streams /\ acks' \subseteq Streams
      BY <1>2, <2>1 DEF Receive, TypeOK, Messages
    <2>4. UNCHANGED <<gui, signalled, toGui, cancelled, late>> /\ toIde' = Tail(toIde)
      BY <1>2 DEF Receive, guiVars
    <2> QED BY <2>1, <2>2, <2>3, <2>4 DEF TypeOK
  <1>3. CASE ReceiveInGui
    <2>1. Head(toGui) \in Answers /\ Tail(toGui) \in Seq(Answers)
      BY <1>3 DEF ReceiveInGui, TypeOK
    <2>2. Head(toGui).id \in Streams
      BY <2>1 DEF Answers
    <2>3. Handled(gui[Head(toGui).id], Head(toGui)) \in Calls
      BY <2>1, <2>2, HandledTypes DEF TypeOK
    <2> QED BY <1>3, <2>1, <2>2, <2>3 DEF ReceiveInGui, TypeOK
  <1> QED BY <1>1, <1>2, <1>3 DEF Deliver

LEMMA EndTypes ==
  ASSUME TypeOK, NEW s \in Streams, NEW o \in {"end", "error"}, End(s, o)
  PROVE  core' \in [Streams -> Generators] /\ toGui' \in Seq(Answers)
  <1>1. Done(s, o) \in Answers
    BY DEF Done, Answers, Outcomes
  <1>2. toGui' \in Seq(Answers)
    BY <1>1 DEF End, TypeOK
  <1>3. core' = [core EXCEPT ![s] = [@ EXCEPT !.state = "ended", !.outcome = o, !.checks = FALSE]]
    BY DEF End, TypeOK, Generators
  <1>4. [core[s] EXCEPT !.state = "ended", !.outcome = o, !.checks = FALSE] \in Generators
    BY DEF TypeOK, Generators, Outcomes
  <1>5. core' \in [Streams -> Generators]
    BY <1>3, <1>4 DEF TypeOK
  <1> QED BY <1>2, <1>5

LEMMA AskingTypes ==
  ASSUME NEW g \in Generators, NEW b \in BOOLEAN
  PROVE  [g EXCEPT !.state = "asking", !.checks = b] \in Generators
  BY DEF Generators

LEMMA MadeTypes ==
  ASSUME NEW g \in Generators
  PROVE  [g EXCEPT !.made = g.made + 1] \in Generators
  BY DEF Generators

LEMMA CoreTypes ==
  ASSUME TypeOK, NEW s \in Streams, Generate(s) \/ Acknowledge(s) \/ CheckActive(s)
  PROVE  TypeOK'
  <1>1. CASE Begin(s)
    <2>1. core' = [core EXCEPT ![s] = [@ EXCEPT !.state = "asking", !.checks = (s \in Commands)]]
      BY <1>1 DEF Begin, TypeOK, Generators
    <2>2. [core[s] EXCEPT !.state = "asking", !.checks = (s \in Commands)] \in Generators
      <3>1. (s \in Commands) \in BOOLEAN
        BY SMT
      <3>2. core[s] \in Generators
        BY DEF TypeOK
      <3> QED BY <3>1, <3>2, AskingTypes, Zenon
    <2>3. core' \in [Streams -> Generators]
      BY <2>1, <2>2 DEF TypeOK
    <2> QED BY <1>1, <2>3 DEF Begin, guiVars, TypeOK
  <1>2. CASE ModelYields(s)
    <2>1. Chunk(s, core[s].made + 1) \in Answers
      BY DEF Chunk, Answers, Outcomes, TypeOK, Generators
    <2>2. toGui' \in Seq(Answers)
      BY <1>2, <2>1 DEF ModelYields, TypeOK
    <2>3. core' \in [Streams -> Generators]
      <3>1. core' = [core EXCEPT ![s] = [@ EXCEPT !.made = core[s].made + 1]]
        BY <1>2 DEF ModelYields, TypeOK, Generators
      <3>2. [core[s] EXCEPT !.made = core[s].made + 1] \in Generators
        BY MadeTypes DEF TypeOK
      <3> QED BY <3>1, <3>2 DEF TypeOK
    <2>4. late' \in [Streams -> Nat]
      BY <1>2 DEF ModelYields, Late, TypeOK
    <2> QED BY <1>2, <2>2, <2>3, <2>4 DEF ModelYields, guiVars, TypeOK
  <1>3. CASE AbortFound(s)
    BY <1>3, EndTypes DEF AbortFound, Late, guiVars, TypeOK
  <1>4. CASE ModelEnds(s)
    BY <1>4, EndTypes DEF ModelEnds, guiVars, TypeOK
  <1>5. CASE Fails(s)
    BY <1>5, EndTypes DEF Fails, guiVars, TypeOK
  <1>6. CASE Acknowledge(s)
    <2>1. Done(s, "ack") \in Answers
      BY DEF Done, Answers, Outcomes
    <2> QED BY <1>6, <2>1 DEF Acknowledge, guiVars, TypeOK
  <1>7. CASE CheckActive(s)
    BY <1>7 DEF CheckActive, guiVars, TypeOK, Generators
  <1> QED BY <1>1, <1>2, <1>3, <1>4, <1>5, <1>6, <1>7 DEF Generate

LEMMA InitTypes == Init => TypeOK
  BY DEF Init, NewCall, NewGenerator, TypeOK, Calls, Generators, Outcomes, Messages, Answers

-----------------------------------------------------------------------------
(* Steps of the GUI.                                                       *)

LEMMA InitInv == Init => Inv
  <1> SUFFICES ASSUME Init PROVE Inv
    OBVIOUS
  <1>1. ASSUME NEW s \in Streams PROVE StreamInv(s)
    BY DEF Init, NewCall, NewGenerator, StreamInv, BufferInv, ChannelInv, NewInv, RequestInv,
           ReturnInv, EndInv
  <1> QED BY <1>1, InitTypes DEF Inv

(* What a step that posts messages to the extension leaves of toIde.       *)
LEMMA PostIndex ==
  ASSUME TypeOK, NEW type, NEW ss \in Seq(Streams), Post(type, ss)
  PROVE  /\ DOMAIN toIde' = 1 .. Len(toIde) + Len(ss)
         /\ \A j \in DOMAIN toIde : toIde'[j] = toIde[j]
         /\ \A j \in DOMAIN toIde' \ DOMAIN toIde :
              toIde'[j] = [type |-> type, id |-> ss[j - Len(toIde)]]
  BY DEF Post, TypeOK

LEMMA OpenInv ==
  ASSUME Inv, NEW s \in Streams, Open(s), NEW t \in Streams
  PROVE  StreamInv(t)'
  <1>1. /\ DOMAIN toIde' = 1 .. Len(toIde) + 1
        /\ \A j \in DOMAIN toIde : toIde'[j] = toIde[j]
        /\ toIde'[Len(toIde) + 1] = [type |-> "request", id |-> s]
    <2>1. TypeOK /\ Post("request", <<s>>) /\ toIde \in Seq(Messages)
      BY DEF Open, Inv, TypeOK
    <2>2. <<s>> \in Seq(Streams) /\ Len(<<s>>) = 1 /\ <<s>>[1] = s
      OBVIOUS
    <2>3. /\ DOMAIN toIde' = 1 .. Len(toIde) + Len(<<s>>)
          /\ \A j \in DOMAIN toIde : toIde'[j] = toIde[j]
          /\ \A j \in DOMAIN toIde' \ DOMAIN toIde :
               toIde'[j] = [type |-> "request", id |-> <<s>>[j - Len(toIde)]]
      BY <2>1, <2>2, PostIndex
    <2> QED BY <2>1, <2>2, <2>3
  <1>2. /\ gui'[t].buffer = gui[t].buffer /\ gui'[t].taken = gui[t].taken
        /\ gui'[t].returned = gui[t].returned
        /\ t = s => gui'[t].state = "open"
        /\ t # s => gui'[t].state = gui[t].state /\ gui'[t].listening = gui[t].listening
    BY DEF Open, Inv, TypeOK, Calls
  <1>3. \A j \in DOMAIN signalled' :
          signalled'[j] # s => j \in DOMAIN signalled /\ signalled'[j] = signalled[j]
    BY DEF Open, Inv, TypeOK
  <1>4. toGui' = toGui /\ core' = core /\ acks' = acks /\ cancelled' = cancelled
    BY DEF Open
  <1>5. /\ BufferInv(t) /\ ChannelInv(t) /\ NewInv(t) /\ RequestInv(t) /\ ReturnInv(t) /\ EndInv(t)
        /\ gui[s].state = "new" /\ NewInv(s) /\ BufferInv(s)
    BY DEF Open, Inv, StreamInv
  <1>6. toIde \in Seq(Messages) /\ toGui \in Seq(Answers)
    BY DEF Inv, TypeOK
  <1>7. BufferInv(t)'
    BY <1>2, <1>4, <1>5 DEF BufferInv
  <1>8. ChannelInv(t)'
    BY <1>2, <1>4, <1>5, <1>6, SMTT(20) DEF ChannelInv, NewInv, IsChunk
  <1>9. NewInv(t)'
    BY <1>1, <1>2, <1>3, <1>4, <1>5, <1>6 DEF NewInv
  <1>10. RequestInv(t)'
    BY <1>1, <1>4, <1>5, <1>6 DEF RequestInv, NewInv, IsRequest
  <1>11. ReturnInv(t)'
    BY <1>2, <1>4, <1>5 DEF ReturnInv, NewInv
  <1>12. EndInv(t)'
    BY <1>1, <1>2, <1>4, <1>5, <1>6 DEF EndInv, IsAbort, IsChunk, IsDone
  <1> QED BY <1>7, <1>8, <1>9, <1>10, <1>11, <1>12 DEF StreamInv

(* NewSession and Leave: the consumer may leave, and keeps what it has.    *)
LEMMA AbortInv ==
  ASSUME Inv, AbortStream, NEW t \in Streams,
         /\ gui'[t].buffer = gui[t].buffer /\ gui'[t].taken = gui[t].taken
         /\ gui'[t].returned = gui[t].returned /\ gui'[t].listening = gui[t].listening
         /\ gui'[t].state = gui[t].state \/ gui'[t].state = "left"
  PROVE  StreamInv(t)'
  <1>1. /\ DOMAIN toIde' = 1 .. Len(toIde) + Len(signalled)
        /\ \A j \in DOMAIN toIde : toIde'[j] = toIde[j]
        /\ \A j \in DOMAIN toIde' \ DOMAIN toIde :
             toIde'[j] = [type |-> "abort", id |-> signalled[j - Len(toIde)]]
    BY PostIndex DEF AbortStream, Inv, TypeOK
  <1>2. /\ toGui' = toGui /\ core' = core /\ acks' = acks
        /\ signalled' = <<>> /\ cancelled' = cancelled \cup {signalled[i] : i \in DOMAIN signalled}
    BY DEF AbortStream, ToSet
  <1>3. /\ BufferInv(t) /\ ChannelInv(t) /\ NewInv(t) /\ RequestInv(t) /\ ReturnInv(t) /\ EndInv(t)
    BY DEF Inv, StreamInv
  <1>4. /\ toIde \in Seq(Messages) /\ toGui \in Seq(Answers) /\ signalled \in Seq(Streams)
    BY DEF Inv, TypeOK
  <1>5. \A j \in DOMAIN toIde' \ DOMAIN toIde :
          /\ ~IsRequest(toIde'[j], t)
          /\ toIde'[j].id = t => \E i \in DOMAIN signalled : signalled[i] = t
    BY <1>1, <1>4 DEF IsRequest
  <1>6. BufferInv(t)'
    BY <1>2, <1>3 DEF BufferInv
  <1>7. ChannelInv(t)'
    BY <1>2, <1>3, <1>4 DEF ChannelInv, IsChunk
  <1>8. NewInv(t)'
    BY <1>1, <1>2, <1>3, <1>4, <1>5 DEF NewInv
  <1>9. RequestInv(t)'
    BY <1>1, <1>2, <1>3, <1>4, <1>5 DEF RequestInv, IsRequest
  <1>10. ReturnInv(t)'
    BY <1>2, <1>3 DEF ReturnInv
  <1>11. EndInv(t)'
    BY <1>1, <1>2, <1>3, <1>4, <1>5 DEF EndInv, IsAbort, IsChunk, IsDone
  <1> QED BY <1>6, <1>7, <1>8, <1>9, <1>10, <1>11 DEF StreamInv

LEMMA LeaveInv ==
  ASSUME Inv, NewSession \/ \E s \in Streams : Leave(s), NEW t \in Streams
  PROVE  StreamInv(t)'
  <1>1. CASE NewSession
    BY <1>1, AbortInv DEF NewSession
  <1>2. ASSUME NEW s \in Streams, Leave(s) PROVE StreamInv(t)'
    <2>1. gui' = [gui EXCEPT ![s].state = "left"] /\ AbortStream
      BY <1>2 DEF Leave
    <2>2. /\ gui'[t].buffer = gui[t].buffer /\ gui'[t].taken = gui[t].taken
          /\ gui'[t].returned = gui[t].returned /\ gui'[t].listening = gui[t].listening
          /\ gui'[t].state = gui[t].state \/ gui'[t].state = "left"
      BY <2>1 DEF Inv, TypeOK, Calls
    <2> QED BY <2>1, <2>2, AbortInv
  <1> QED BY <1>1, <1>2

LEMMA TakeInv ==
  ASSUME Inv, NEW s \in Streams, Take(s) \/ Return(s), NEW t \in Streams
  PROVE  StreamInv(t)'
  <1>1. /\ toIde' = toIde /\ toGui' = toGui /\ core' = core /\ acks' = acks
        /\ cancelled' = cancelled /\ signalled' = signalled
    BY DEF Take, Return
  <1>2. /\ BufferInv(t) /\ ChannelInv(t) /\ NewInv(t) /\ RequestInv(t) /\ ReturnInv(t) /\ EndInv(t)
    BY DEF Inv, StreamInv
  <1>3. gui \in [Streams -> Calls] /\ gui[t] \in Calls /\ core[t] \in Generators
    BY DEF Inv, TypeOK
  <1> DEFINE
       Kept == /\ gui'[t].buffer = gui[t].buffer /\ gui'[t].returned = gui[t].returned
               /\ gui'[t].listening = gui[t].listening
       Taken == /\ gui'[t].taken = Append(gui[t].taken, gui[t].buffer[Len(gui[t].taken) + 1])
                /\ Len(gui[t].taken) < Len(gui[t].buffer) /\ gui[t].state = "open"
       Returned == /\ gui'[t].state = "returned" /\ gui[t].returned # None
                   /\ gui'[t].taken = gui[t].taken /\ ~(Len(gui[t].taken) < Len(gui[t].buffer))
  <1>4. /\ Kept
        /\ gui'[t].taken = gui[t].taken \/ Taken
        /\ gui'[t].state = gui[t].state \/ Returned
    <2>1. CASE Take(s)
      <3>1. /\ gui' = [gui EXCEPT ![s].taken = Append(gui[s].taken, gui[s].buffer[Len(gui[s].taken) + 1])]
            /\ Len(gui[s].taken) < Len(gui[s].buffer) /\ gui[s].state = "open"
        BY <2>1, <1>3 DEF Take, HasNext, Index, Calls
      <3> QED BY <3>1, <1>3 DEF Calls
    <2>2. CASE Return(s)
      <3>1. /\ gui' = [gui EXCEPT ![s].state = "returned"]
            /\ gui[s].returned # None /\ ~(Len(gui[s].taken) < Len(gui[s].buffer))
        BY <2>2 DEF Return, HasNext, Index
      <3> QED BY <3>1, <1>3 DEF Calls
    <2> QED BY <2>1, <2>2
  <1>5. gui'[t].taken = gui[t].taken \/ Taken
    BY <1>4
  <1>6. gui'[t].state = gui[t].state \/ Returned
    BY <1>4
  <1>7. Len(gui[t].taken) \in Nat /\ Len(gui[t].buffer) \in Nat /\ gui[t].taken \in Seq(Nat)
    BY <1>3 DEF Calls
  <1>8. BufferInv(t)'
    <2>1. CASE gui'[t].taken = gui[t].taken
      BY <2>1, <1>1, <1>2, <1>4 DEF BufferInv
    <2>2. CASE /\ gui'[t].taken = Append(gui[t].taken, gui[t].buffer[Len(gui[t].taken) + 1])
               /\ Len(gui[t].taken) < Len(gui[t].buffer)
      <3>1. gui[t].buffer \in Seq(Nat)
        BY <1>3 DEF Calls
      <3>2. gui[t].buffer[Len(gui[t].taken) + 1] = Len(gui[t].taken) + 1
        BY <3>1, <2>2, <1>2, <1>7 DEF BufferInv
      <3>3. gui'[t].taken = Append(gui[t].taken, Len(gui[t].taken) + 1)
        BY <2>2, <3>2
      <3>4. /\ Len(gui'[t].taken) = Len(gui[t].taken) + 1
            /\ DOMAIN gui'[t].taken = 1 .. Len(gui[t].taken) + 1
            /\ \A i \in 1 .. Len(gui[t].taken) : gui'[t].taken[i] = gui[t].taken[i]
            /\ gui'[t].taken[Len(gui[t].taken) + 1] = Len(gui[t].taken) + 1
        BY <3>3, <1>7
      <3>5. \A i \in DOMAIN gui'[t].taken : gui'[t].taken[i] = i
        <4>1. \A i \in 1 .. Len(gui[t].taken) : gui[t].taken[i] = i
          BY <1>2, <1>7 DEF BufferInv
        <4> TAKE i \in DOMAIN gui'[t].taken
        <4>2. CASE i \in 1 .. Len(gui[t].taken)
          <5>1. gui'[t].taken[i] = gui[t].taken[i]
            BY <3>4, <4>2
          <5> QED BY <4>1, <4>2, <5>1
        <4>3. CASE i \notin 1 .. Len(gui[t].taken)
          <5>1. i \in 1 .. Len(gui[t].taken) + 1
            BY <3>4
          <5>2. i = Len(gui[t].taken) + 1
            BY <4>3, <5>1, <1>7
          <5>3. gui'[t].taken[Len(gui[t].taken) + 1] = Len(gui[t].taken) + 1
            BY <3>4
          <5> QED BY <5>2, <5>3
        <4> QED BY <4>2, <4>3
      <3> QED BY <2>2, <3>4, <3>5, <1>1, <1>2, <1>4, <1>7 DEF BufferInv
    <2> QED BY <1>5, <2>1, <2>2
  <1>9. ChannelInv(t)'
    BY <1>1, <1>2, <1>4 DEF ChannelInv
  <1>10. NewInv(t)'
    BY <1>1, <1>2, <1>4, <1>6 DEF NewInv
  <1>11. RequestInv(t)'
    BY <1>1, <1>2 DEF RequestInv
  <1>12. ReturnInv(t)'
    <2>1. Len(gui[t].taken) <= Len(gui[t].buffer)
      BY <1>2 DEF BufferInv
    <2> QED BY <2>1, <1>2, <1>4, <1>5, <1>6, <1>7 DEF ReturnInv
  <1>13. EndInv(t)'
    BY <1>1, <1>2, <1>4 DEF EndInv
  <1> QED BY <1>8, <1>9, <1>10, <1>11, <1>12, <1>13 DEF StreamInv

LEMMA TailIndex ==
  ASSUME NEW S, NEW q \in Seq(S), q # <<>>
  PROVE  /\ 1 \in DOMAIN q /\ Head(q) = q[1]
         /\ DOMAIN Tail(q) = 1 .. Len(q) - 1
         /\ \A j \in DOMAIN Tail(q) : j + 1 \in DOMAIN q /\ Tail(q)[j] = q[j + 1]
         /\ \A j \in DOMAIN q : j # 1 => j - 1 \in DOMAIN Tail(q) /\ Tail(q)[j - 1] = q[j]
  <1>1. /\ DOMAIN q = 1 .. Len(q) /\ Len(q) \in Nat /\ Len(q) # 0
        /\ Head(q) = q[1]
    OBVIOUS
  <1>2. /\ Tail(q) \in Seq(S) /\ Len(Tail(q)) = Len(q) - 1
        /\ DOMAIN Tail(q) = 1 .. Len(Tail(q))
    OBVIOUS
  <1>3. \A j \in 1 .. Len(q) - 1 : Tail(q)[j] = q[j + 1]
    OBVIOUS
  <1>4. \A j \in DOMAIN Tail(q) : j + 1 \in DOMAIN q /\ Tail(q)[j] = q[j + 1]
    BY <1>1, <1>2, <1>3
  <1>5. \A j \in DOMAIN q : j # 1 => j - 1 \in DOMAIN Tail(q) /\ Tail(q)[j - 1] = q[j]
    BY <1>1, <1>2, <1>3
  <1> QED BY <1>1, <1>2, <1>4, <1>5

LEMMA GuiReceivesInv ==
  ASSUME Inv, ReceiveInGui, NEW t \in Streams
  PROVE  StreamInv(t)'
  <1> DEFINE m == toGui[1]
  <1>1. /\ toGui \in Seq(Answers) /\ toGui # <<>> /\ toGui' = Tail(toGui)
        /\ toIde' = toIde /\ core' = core /\ acks' = acks
        /\ cancelled' = cancelled /\ signalled' = signalled
    BY DEF ReceiveInGui, Inv, TypeOK
  <1>2. /\ 1 \in DOMAIN toGui /\ Head(toGui) = m
        /\ DOMAIN toGui' = 1 .. Len(toGui) - 1
        /\ \A j \in DOMAIN toGui' : j + 1 \in DOMAIN toGui /\ toGui'[j] = toGui[j + 1]
        /\ \A j \in DOMAIN toGui : j # 1 => j - 1 \in DOMAIN toGui' /\ toGui'[j - 1] = toGui[j]
    BY <1>1, TailIndex
  <1>3. m \in Answers /\ gui[t] \in Calls /\ core[t] \in Generators
    BY <1>1, <1>2 DEF Inv, TypeOK
  <1>4. gui' = [gui EXCEPT ![m.id] = Handled(gui[m.id], m)]
    BY <1>2 DEF ReceiveInGui
  <1>5. /\ BufferInv(t) /\ ChannelInv(t) /\ NewInv(t) /\ RequestInv(t) /\ ReturnInv(t) /\ EndInv(t)
    BY DEF Inv, StreamInv
  <1>6. /\ DOMAIN toGui = 1 .. Len(toGui) /\ Len(toGui) \in Nat
        /\ \A j \in DOMAIN toGui : toGui[j] \in Answers
    BY <1>1
  <1>7. RequestInv(t)'
    BY <1>1, <1>5 DEF RequestInv
  <1>8. NewInv(t)'
    <2>1. CASE m.id = t
      BY <2>1, <1>2, <1>3, <1>4, <1>5 DEF NewInv, Handled, Inv, TypeOK, Calls
    <2>2. CASE m.id # t
      BY <2>2, <1>1, <1>2, <1>4, <1>5 DEF NewInv, Inv, TypeOK
    <2> QED BY <2>1, <2>2
  <1>9. CASE gui'[t] = gui[t] /\ (m.id # t \/ ~gui[t].listening)
    <2>1. BufferInv(t)'
      BY <1>1, <1>5, <1>9 DEF BufferInv
    <2>2. ChannelInv(t)'
      <3>1. \A j \in DOMAIN toGui' : IsChunk(toGui'[j], t) => toGui'[j].chunk \in 1 .. core'[t].made
        BY <1>1, <1>2, <1>5 DEF ChannelInv, IsChunk
      <3>2. \A i, j \in DOMAIN toGui' :
              i < j /\ IsChunk(toGui'[i], t) /\ IsChunk(toGui'[j], t) => toGui'[i].chunk < toGui'[j].chunk
        BY <1>2, <1>5, <1>6 DEF ChannelInv, IsChunk
      <3>3. gui'[t].listening =>
              \A j \in DOMAIN toGui' : IsChunk(toGui'[j], t) => toGui'[j].chunk > Len(gui'[t].buffer)
        BY <1>2, <1>5, <1>9 DEF ChannelInv, IsChunk
      <3>4. ASSUME gui'[t].listening, NEW n \in (Len(gui'[t].buffer) + 1) .. core'[t].made
            PROVE  \E j \in DOMAIN toGui' : IsChunk(toGui'[j], t) /\ toGui'[j].chunk = n
        <4>1. PICK j \in DOMAIN toGui : IsChunk(toGui[j], t) /\ toGui[j].chunk = n
          BY <3>4, <1>1, <1>5, <1>9 DEF ChannelInv
        <4>2. j # 1
          BY <3>4, <4>1, <1>9 DEF IsChunk
        <4> QED BY <4>1, <4>2, <1>2
      <3> QED BY <3>1, <3>2, <3>3, <3>4 DEF ChannelInv
    <2>3. ReturnInv(t)'
      BY <1>5, <1>9 DEF ReturnInv
    <2>4. EndInv(t)'
      BY <1>1, <1>2, <1>5, <1>6, <1>9 DEF EndInv, IsChunk, IsDone, IsAbort
    <2> QED BY <2>1, <2>2, <2>3, <2>4, <1>7, <1>8 DEF StreamInv
  <1>10. CASE m.id = t /\ gui[t].listening /\ IsDone(m, t)
    <2>1. gui'[t] = [gui[t] EXCEPT !.listening = FALSE, !.returned = m.done]
      BY <1>4, <1>10 DEF Handled, IsDone, Inv, TypeOK
    <2>2. /\ gui'[t].state = gui[t].state /\ gui'[t].buffer = gui[t].buffer
          /\ gui'[t].taken = gui[t].taken /\ gui'[t].listening = FALSE /\ gui'[t].returned = m.done
      BY <2>1, <1>3 DEF Calls
    <2>3. BufferInv(t)'
      BY <1>1, <1>5, <2>2 DEF BufferInv
    <2>4. ChannelInv(t)'
      BY <1>1, <1>2, <1>5, <1>6, <2>2 DEF ChannelInv, IsChunk
    <2>5. ReturnInv(t)'
      BY <1>5, <1>10, <2>2 DEF ReturnInv, IsDone
    <2>6. t \notin cancelled => Len(gui[t].buffer) = core[t].made
      <3>1. SUFFICES ASSUME t \notin cancelled, Len(gui[t].buffer) < core[t].made PROVE FALSE
        BY <1>3, <1>5 DEF BufferInv, Calls, Generators
      <3>0. (Len(gui[t].buffer) + 1) \in (Len(gui[t].buffer) + 1) .. core[t].made
        BY <3>1, <1>3 DEF Calls, Generators
      <3>2. PICK j \in DOMAIN toGui : IsChunk(toGui[j], t) /\ toGui[j].chunk = Len(gui[t].buffer) + 1
        BY <3>0, <1>5, <1>10 DEF ChannelInv
      <3>3. j < 1
        BY <3>1, <3>2, <1>2, <1>5, <1>10 DEF EndInv
      <3> QED BY <3>3, <1>6
    <2>7. EndInv(t)'
      BY <1>1, <1>2, <1>5, <1>6, <1>10, <2>2, <2>6 DEF EndInv, IsChunk, IsDone, IsAbort
    <2> QED BY <2>3, <2>4, <2>5, <2>7, <1>7, <1>8 DEF StreamInv
  <1>11. CASE m.id = t /\ gui[t].listening /\ IsChunk(m, t)
    <2>1. gui'[t] = [gui[t] EXCEPT !.buffer = Append(gui[t].buffer, m.chunk)]
      BY <1>4, <1>11 DEF Handled, IsChunk, Inv, TypeOK
    <2>2. /\ gui'[t].state = gui[t].state /\ gui'[t].buffer = Append(gui[t].buffer, m.chunk)
          /\ gui'[t].taken = gui[t].taken /\ gui'[t].listening = gui[t].listening
          /\ gui'[t].returned = gui[t].returned
      BY <2>1, <1>3 DEF Calls
    <2>3. /\ gui[t].buffer \in Seq(Nat) /\ Len(gui[t].buffer) \in Nat /\ core[t].made \in Nat
          /\ m.chunk \in Nat /\ \A j \in DOMAIN toGui : toGui[j].chunk \in Nat
      BY <1>3, <1>6 DEF Calls, Generators, Answers
    <2>4. m.chunk = Len(gui[t].buffer) + 1
      <3>1. m.chunk > Len(gui[t].buffer) /\ m.chunk <= core[t].made
        BY <1>2, <1>5, <1>11 DEF ChannelInv
      <3>2. SUFFICES ASSUME m.chunk > Len(gui[t].buffer) + 1 PROVE FALSE
        BY <3>1, <2>3
      <3>0. (Len(gui[t].buffer) + 1) \in (Len(gui[t].buffer) + 1) .. core[t].made
        BY <3>1, <2>3
      <3>3. PICK j \in DOMAIN toGui : IsChunk(toGui[j], t) /\ toGui[j].chunk = Len(gui[t].buffer) + 1
        BY <3>0, <1>5, <1>11 DEF ChannelInv
      <3>4. j # 1
        BY <3>2, <3>3, <2>3
      <3>5. m.chunk < toGui[j].chunk
        BY <3>3, <3>4, <1>2, <1>5, <1>6, <1>11 DEF ChannelInv
      <3> QED BY <3>2, <3>3, <3>5, <2>3
    <2>5. /\ Len(gui'[t].buffer) = Len(gui[t].buffer) + 1
          /\ \A i \in DOMAIN gui'[t].buffer :
               gui'[t].buffer[i] = IF i = Len(gui[t].buffer) + 1 THEN m.chunk ELSE gui[t].buffer[i]
          /\ DOMAIN gui'[t].buffer = 1 .. Len(gui[t].buffer) + 1
          /\ DOMAIN gui[t].buffer = 1 .. Len(gui[t].buffer)
      BY <2>2, <2>3
    <2>6. BufferInv(t)'
      <3>1. m.chunk <= core[t].made
        BY <1>2, <1>5, <1>11 DEF ChannelInv
      <3>2. Len(gui[t].taken) \in Nat
        BY <1>3 DEF Calls
      <3> QED BY <1>1, <1>5, <2>2, <2>3, <2>4, <2>5, <3>1, <3>2 DEF BufferInv
    <2>7. ChannelInv(t)'
      <3>1. \A j \in DOMAIN toGui' : IsChunk(toGui'[j], t) => toGui'[j].chunk \in 1 .. core'[t].made
        BY <1>1, <1>2, <1>5 DEF ChannelInv, IsChunk
      <3>2. \A i, j \in DOMAIN toGui' :
              i < j /\ IsChunk(toGui'[i], t) /\ IsChunk(toGui'[j], t) => toGui'[i].chunk < toGui'[j].chunk
        BY <1>2, <1>5, <1>6 DEF ChannelInv, IsChunk
      <3>3. \A j \in DOMAIN toGui' : IsChunk(toGui'[j], t) => toGui'[j].chunk > Len(gui'[t].buffer)
        <4>1. SUFFICES ASSUME NEW j \in DOMAIN toGui', IsChunk(toGui'[j], t)
                       PROVE  toGui'[j].chunk > Len(gui'[t].buffer)
          OBVIOUS
        <4>2. j + 1 \in DOMAIN toGui /\ toGui'[j] = toGui[j + 1] /\ 1 < j + 1
          BY <1>2, <1>6
        <4>3. m.chunk < toGui[j + 1].chunk
          BY <4>1, <4>2, <1>2, <1>5, <1>11 DEF ChannelInv
        <4> QED BY <4>2, <4>3, <2>3, <2>4, <2>5
      <3>4. \A n \in (Len(gui'[t].buffer) + 1) .. core'[t].made :
              \E j \in DOMAIN toGui' : IsChunk(toGui'[j], t) /\ toGui'[j].chunk = n
        <4>1. SUFFICES ASSUME NEW n \in (Len(gui'[t].buffer) + 1) .. core'[t].made
                       PROVE  \E j \in DOMAIN toGui' : IsChunk(toGui'[j], t) /\ toGui'[j].chunk = n
          OBVIOUS
        <4>2. n \in (Len(gui[t].buffer) + 1) .. core[t].made /\ n > m.chunk
          BY <4>1, <1>1, <2>3, <2>4, <2>5
        <4>3. PICK j \in DOMAIN toGui : IsChunk(toGui[j], t) /\ toGui[j].chunk = n
          BY <4>2, <1>5, <1>11 DEF ChannelInv
        <4>4. j # 1
          BY <4>2, <4>3, <2>3
        <4> QED BY <4>3, <4>4, <1>2
      <3> QED BY <3>1, <3>2, <3>3, <3>4 DEF ChannelInv
    <2>8. ReturnInv(t)'
      BY <1>5, <1>11, <2>2 DEF ReturnInv
    <2>9. EndInv(t)'
      BY <1>1, <1>2, <1>5, <1>6, <1>11, <2>2 DEF EndInv, ReturnInv, IsChunk, IsDone, IsAbort
    <2> QED BY <2>6, <2>7, <2>8, <2>9, <1>7, <1>8 DEF StreamInv
  <1>12. \/ gui'[t] = gui[t] /\ (m.id # t \/ ~gui[t].listening)
         \/ m.id = t /\ gui[t].listening /\ IsDone(m, t)
         \/ m.id = t /\ gui[t].listening /\ IsChunk(m, t)
    BY <1>3, <1>4 DEF Handled, IsDone, IsChunk, Inv, TypeOK
  <1> QED BY <1>9, <1>10, <1>11, <1>12

-----------------------------------------------------------------------------
(* Steps of the extension and the core.                                    *)

LEMMA IdeReceivesInv ==
  ASSUME Inv, Receive, NEW t \in Streams
  PROVE  StreamInv(t)'
  <1> DEFINE m == toIde[1]
  <1>1. /\ toIde \in Seq(Messages) /\ toIde # <<>> /\ toIde' = Tail(toIde)
        /\ toGui' = toGui /\ gui' = gui /\ cancelled' = cancelled /\ signalled' = signalled
    BY DEF Receive, guiVars, Inv, TypeOK
  <1>2. /\ 1 \in DOMAIN toIde /\ Head(toIde) = m
        /\ DOMAIN toIde' = 1 .. Len(toIde) - 1
        /\ \A j \in DOMAIN toIde' : j + 1 \in DOMAIN toIde /\ toIde'[j] = toIde[j + 1]
    BY <1>1, TailIndex
  <1>3. m \in Messages /\ core[t] \in Generators /\ DOMAIN toIde = 1 .. Len(toIde) /\ Len(toIde) \in Nat
    BY <1>1, <1>2 DEF Inv, TypeOK
  <1>4. /\ BufferInv(t) /\ ChannelInv(t) /\ NewInv(t) /\ RequestInv(t) /\ ReturnInv(t) /\ EndInv(t)
    BY DEF Inv, StreamInv
  <1>5. \/ IsRequest(m, t) /\ core' = [core EXCEPT ![t].state = "starting"] /\ acks' = acks
        \/ core'[t] = core[t] /\ ~IsRequest(m, t) /\ acks' = acks
        \/ core'[t] = core[t] /\ m.type = "abort" /\ acks' = acks \cup {m.id}
    BY <1>2, <1>3 DEF Receive, IsRequest, Messages, Inv, TypeOK
  <1>6. /\ core'[t].made = core[t].made /\ core'[t].outcome = core[t].outcome
        /\ core'[t].state # core[t].state =>
             IsRequest(m, t) /\ core[t].state = "new" /\ core'[t].state = "starting"
    BY <1>2, <1>3, <1>4, <1>5 DEF Inv, TypeOK, Generators, RequestInv
  <1>7. t \in acks' => t \in acks \/ (m.id = t /\ m.type = "abort")
    BY <1>5
  <1>8. BufferInv(t)'
    BY <1>1, <1>4, <1>6 DEF BufferInv
  <1>9. ChannelInv(t)'
    BY <1>1, <1>4, <1>6 DEF ChannelInv
  <1>10. NewInv(t)'
    BY <1>1, <1>2, <1>4, <1>6, <1>7 DEF NewInv, IsRequest
  <1>11. RequestInv(t)'
    <2>1. SUFFICES ASSUME NEW j \in DOMAIN toIde', IsRequest(toIde'[j], t)
                   PROVE  /\ core'[t].state = "new"
                          /\ \A i \in DOMAIN toIde' : IsRequest(toIde'[i], t) => i = j
      BY DEF RequestInv, IsRequest
    <2>2. j + 1 \in DOMAIN toIde /\ IsRequest(toIde[j + 1], t) /\ j + 1 # 1
      BY <2>1, <1>2, <1>3 DEF IsRequest
    <2>3. core[t].state = "new" /\ \A i \in DOMAIN toIde : IsRequest(toIde[i], t) => i = j + 1
      BY <2>2, <1>4 DEF RequestInv
    <2>4. ~IsRequest(m, t)
      BY <2>2, <2>3, <1>2
    <2>5. ASSUME NEW i \in DOMAIN toIde', IsRequest(toIde'[i], t) PROVE i = j
      <3>1. i + 1 = j + 1
        BY <2>3, <2>5, <1>2 DEF IsRequest
      <3> QED BY <3>1, <1>2, <1>3
    <2> QED BY <2>3, <2>4, <2>5, <1>6
  <1>12. ReturnInv(t)'
    BY <1>1, <1>4 DEF ReturnInv
  <1>13. EndInv(t)'
    <2>1. t \notin cancelled => ~(m.id = t /\ m.type = "abort")
      BY <1>2, <1>4 DEF EndInv, IsAbort
    <2> QED BY <2>1, <1>1, <1>2, <1>4, <1>6, <1>7 DEF EndInv, IsAbort
  <1> QED BY <1>8, <1>9, <1>10, <1>11, <1>12, <1>13 DEF StreamInv

(* Messages that are done come after what was under way.                   *)
LEMMA DoneInv ==
  ASSUME Inv, NEW s \in Streams, NEW o \in {"end", "error", "ack"}, NEW t \in Streams,
         gui[s].state # "new",
         /\ Len(toGui') \in Nat /\ DOMAIN toGui' = 1 .. Len(toGui') /\ Len(toGui) <= Len(toGui')
         /\ \A j \in DOMAIN toGui : toGui'[j] = toGui[j]
         /\ \A j \in DOMAIN toGui' \ DOMAIN toGui : toGui'[j] = Done(s, o),
         UNCHANGED <<gui, signalled, toIde, cancelled>>,
         acks' \subseteq acks,
         core'[t].made = core[t].made,
         t = s /\ s \notin cancelled =>
           core'[s].state = "ended" /\ core'[s].outcome = o /\ core[s].state # "ended"
             /\ core[s].state # "new",
         core[t].state # "new" \/ core'[t] = core[t],
         t # s => core'[t] = core[t]
  PROVE  StreamInv(t)'
  <1>1. /\ BufferInv(t) /\ ChannelInv(t) /\ NewInv(t) /\ RequestInv(t) /\ ReturnInv(t) /\ EndInv(t)
    BY DEF Inv, StreamInv
  <1>2. /\ DOMAIN toGui = 1 .. Len(toGui) /\ Len(toGui) \in Nat
        /\ DOMAIN toGui \subseteq DOMAIN toGui'
    BY DEF Inv, TypeOK
  <1>3. \A j \in DOMAIN toGui' :
          IsChunk(toGui'[j], t) => j \in DOMAIN toGui /\ IsChunk(toGui[j], t)
    BY StreamsAssumption DEF IsChunk, Done
  <1>4. BufferInv(t)'
    BY <1>1 DEF BufferInv
  <1>5. ChannelInv(t)'
    <2>1. \A j \in DOMAIN toGui' : IsChunk(toGui'[j], t) => toGui'[j].chunk \in 1 .. core'[t].made
      BY <1>1, <1>3 DEF ChannelInv
    <2>2. \A i, j \in DOMAIN toGui' :
            i < j /\ IsChunk(toGui'[i], t) /\ IsChunk(toGui'[j], t) => toGui'[i].chunk < toGui'[j].chunk
      BY <1>1, <1>3 DEF ChannelInv
    <2>3. gui'[t].listening =>
            \A j \in DOMAIN toGui' : IsChunk(toGui'[j], t) => toGui'[j].chunk > Len(gui'[t].buffer)
      BY <1>1, <1>3 DEF ChannelInv
    <2>4. gui'[t].listening =>
            \A n \in (Len(gui'[t].buffer) + 1) .. core'[t].made :
              \E j \in DOMAIN toGui' : IsChunk(toGui'[j], t) /\ toGui'[j].chunk = n
      BY <1>1, <1>2 DEF ChannelInv, IsChunk
    <2> QED BY <2>1, <2>2, <2>3, <2>4 DEF ChannelInv
  <1>6. NewInv(t)'
    BY <1>1, <1>2 DEF NewInv, Done
  <1>7. RequestInv(t)'
    BY <1>1 DEF RequestInv
  <1>8. ReturnInv(t)'
    BY <1>1 DEF ReturnInv
  <1>9. EndInv(t)'
    <2>1. SUFFICES ASSUME t \notin cancelled PROVE EndInv(t)'
      BY DEF EndInv
    <2>2. CASE t # s
      BY <2>1, <2>2, <1>1, <1>2, <1>3 DEF EndInv, IsDone, IsAbort, Done
    <2>3. CASE t = s
      <3>1. \A j \in DOMAIN toGui : ~IsDone(toGui[j], t)
        BY <2>1, <2>3, <1>1 DEF EndInv
      <3>2. \A j \in DOMAIN toGui' : IsDone(toGui'[j], t) => j \notin DOMAIN toGui /\ toGui'[j].done = o
        BY <3>1, <2>3 DEF IsDone, Done
      <3>3. gui[t].returned = None
        BY <2>1, <2>3, <1>1 DEF EndInv
      <3> QED BY <3>1, <3>2, <3>3, <2>1, <2>3, <1>1, <1>2, <1>3 DEF EndInv, IsAbort
    <2> QED BY <2>2, <2>3
  <1> QED BY <1>4, <1>5, <1>6, <1>7, <1>8, <1>9 DEF StreamInv

(* The channel after the one or two messages that end a stream.            *)
LEMMA Answered ==
  ASSUME NEW S, NEW q \in Seq(S), NEW x \in S, NEW h, h = q \o <<x, x>> \/ h = q \o <<x>>
  PROVE  /\ Len(h) \in Nat /\ DOMAIN h = 1 .. Len(h) /\ Len(q) <= Len(h)
         /\ \A j \in DOMAIN q : h[j] = q[j]
         /\ \A j \in DOMAIN h \ DOMAIN q : h[j] = x
  <1>1. CASE h = q \o <<x, x>>
    BY <1>1
  <1>2. CASE h = q \o <<x>>
    BY <1>2
  <1> QED BY <1>1, <1>2

LEMMA EndedInv ==
  ASSUME Inv, NEW s \in Streams, AbortFound(s) \/ ModelEnds(s) \/ Fails(s), NEW t \in Streams
  PROVE  StreamInv(t)'
  <1>1. PICK o \in {"end", "error"} : End(s, o)
    BY DEF AbortFound, ModelEnds, Fails
  <1>2. core[s].state \in {"starting", "asking"} /\ UNCHANGED <<gui, signalled, toIde, cancelled, acks>>
    BY DEF AbortFound, ModelEnds, Fails, guiVars
  <1>3. gui[s].state # "new"
    BY <1>2 DEF Inv, StreamInv, NewInv
  <1>4. /\ core'[t].made = core[t].made
        /\ t = s => core'[s].state = "ended" /\ core'[s].outcome = o
        /\ t # s => core'[t] = core[t]
    BY <1>1 DEF End, Inv, TypeOK, Generators
  <1>5. /\ Len(toGui') \in Nat /\ DOMAIN toGui' = 1 .. Len(toGui') /\ Len(toGui) <= Len(toGui')
        /\ \A j \in DOMAIN toGui : toGui'[j] = toGui[j]
        /\ \A j \in DOMAIN toGui' \ DOMAIN toGui : toGui'[j] = Done(s, o)
    <2> DEFINE x == Done(s, o)
    <2>1. toGui \in Seq(Answers) /\ x \in Answers
      BY DEF Inv, TypeOK, Done, Answers, Outcomes
    <2>2. toGui' = toGui \o <<x, x>> \/ toGui' = toGui \o <<x>>
      BY <1>1 DEF End
    <2> HIDE DEF x
    <2>3. PICK h : h = toGui' /\ (h = toGui \o <<x, x>> \/ h = toGui \o <<x>>)
      BY <2>2
    <2>4. /\ Len(h) \in Nat /\ DOMAIN h = 1 .. Len(h) /\ Len(toGui) <= Len(h)
          /\ \A j \in DOMAIN toGui : h[j] = toGui[j]
          /\ \A j \in DOMAIN h \ DOMAIN toGui : h[j] = x
      BY <2>1, <2>3, Answered
    <2> QED BY <2>3, <2>4 DEF x
  <1>6. o \in {"end", "error", "ack"} /\ acks' \subseteq acks
    BY <1>2
  <1> QED BY <1>2, <1>3, <1>4, <1>5, <1>6, DoneInv

LEMMA AcknowledgeInv ==
  ASSUME Inv, NEW s \in Streams, Acknowledge(s), NEW t \in Streams
  PROVE  StreamInv(t)'
  <1>1. /\ s \in acks /\ acks' \subseteq acks /\ core' = core
        /\ UNCHANGED <<gui, signalled, toIde, cancelled>>
    BY DEF Acknowledge, guiVars
  <1>2. gui[s].state # "new" /\ s \in cancelled
    BY <1>1 DEF Inv, StreamInv, NewInv, EndInv
  <1>3. /\ Len(toGui') \in Nat /\ DOMAIN toGui' = 1 .. Len(toGui') /\ Len(toGui) <= Len(toGui')
        /\ \A j \in DOMAIN toGui : toGui'[j] = toGui[j]
        /\ \A j \in DOMAIN toGui' \ DOMAIN toGui : toGui'[j] = Done(s, "ack")
    <2>1. toGui \in Seq(Answers) /\ Done(s, "ack") \in Answers /\ toGui' = Append(toGui, Done(s, "ack"))
      BY DEF Inv, TypeOK, Done, Answers, Outcomes, Acknowledge
    <2> HIDE DEF Done
    <2> QED BY <2>1
  <1> QED BY <1>1, <1>2, <1>3, DoneInv

LEMMA YieldInv ==
  ASSUME Inv, NEW s \in Streams, ModelYields(s), NEW t \in Streams
  PROVE  StreamInv(t)'
  <1> DEFINE n == core[s].made + 1
  <1>1. /\ core[s].state = "asking" /\ toGui' = Append(toGui, Chunk(s, n))
        /\ core' = [core EXCEPT ![s].made = n]
        /\ UNCHANGED <<gui, signalled, toIde, cancelled, acks>>
    BY DEF ModelYields, guiVars, Inv, TypeOK, Generators
  <1>2. /\ BufferInv(t) /\ ChannelInv(t) /\ NewInv(t) /\ RequestInv(t) /\ ReturnInv(t) /\ EndInv(t)
        /\ gui[s].state # "new"
    BY <1>1 DEF Inv, StreamInv, NewInv
  <1>3. /\ core[t] \in Generators /\ core[t].made \in Nat /\ toGui \in Seq(Answers)
        /\ Len(gui[t].buffer) \in Nat /\ gui[t] \in Calls /\ n \in Nat
    BY DEF Inv, TypeOK, Generators, Calls
  <1>4. /\ core'[t].state = core[t].state /\ core'[t].outcome = core[t].outcome
        /\ t = s => core'[t].made = core[t].made + 1
        /\ t # s => core'[t] = core[t]
    BY <1>1 DEF Inv, TypeOK, Generators
  <1>5. /\ DOMAIN toGui = 1 .. Len(toGui) /\ Len(toGui) \in Nat
        /\ DOMAIN toGui' = 1 .. Len(toGui) + 1
        /\ \A j \in DOMAIN toGui : toGui'[j] = toGui[j]
        /\ toGui'[Len(toGui) + 1] = Chunk(s, n)
    <2>1. Chunk(s, n) \in Answers
      BY <1>3 DEF Chunk, Answers, Outcomes
    <2> HIDE DEF n
    <2> QED BY <1>1, <1>3, <2>1 DEF Chunk
  <1>6. \A j \in DOMAIN toGui' :
          \/ j \in DOMAIN toGui /\ toGui'[j] = toGui[j]
          \/ j = Len(toGui) + 1 /\ toGui'[j] = Chunk(s, n)
    BY <1>5
  <1>7. Chunk(s, n).id = s /\ Chunk(s, n).done = None /\ Chunk(s, n).chunk = n
    BY DEF Chunk
  <1> HIDE DEF n
  <1>8. BufferInv(t)'
    BY <1>1, <1>2, <1>3, <1>4 DEF BufferInv
  <1>9. ChannelInv(t)'
    <2>0. t = s => n = core[t].made + 1
      BY DEF n
    <2>1. \A j \in DOMAIN toGui' : IsChunk(toGui'[j], t) => toGui'[j].chunk \in 1 .. core'[t].made
      BY <2>0, <1>2, <1>3, <1>4, <1>6, <1>7 DEF ChannelInv, IsChunk
    <2>2. \A j \in DOMAIN toGui : IsChunk(toGui[j], t) => toGui[j].chunk \in 1 .. core[t].made
      BY <1>2 DEF ChannelInv
    <2>3. ASSUME NEW i \in DOMAIN toGui', NEW j \in DOMAIN toGui', i < j,
                 IsChunk(toGui'[i], t), IsChunk(toGui'[j], t)
          PROVE  toGui'[i].chunk < toGui'[j].chunk
      <3>1. i \in DOMAIN toGui /\ toGui'[i] = toGui[i]
        BY <2>3, <1>5
      <3>2. CASE j \in DOMAIN toGui
        BY <3>1, <3>2, <2>3, <1>2, <1>5 DEF ChannelInv
      <3>3. CASE j = Len(toGui) + 1
        <4>1. t = s /\ toGui'[j].chunk = core[t].made + 1
          BY <3>3, <2>0, <2>3, <1>5, <1>7 DEF IsChunk
        <4>2. toGui[i].chunk \in 1 .. core[t].made
          BY <3>1, <2>2, <2>3
        <4> QED BY <3>1, <4>1, <4>2, <1>3
      <3> QED BY <3>2, <3>3, <1>6
    <2>4. gui'[t].listening =>
            \A j \in DOMAIN toGui' : IsChunk(toGui'[j], t) => toGui'[j].chunk > Len(gui'[t].buffer)
      <3>1. Len(gui[t].buffer) <= core[t].made
        BY <1>2 DEF BufferInv
      <3> QED BY <3>1, <2>0, <1>1, <1>2, <1>3, <1>6, <1>7 DEF ChannelInv, IsChunk
    <2>5. ASSUME gui'[t].listening, NEW k \in (Len(gui'[t].buffer) + 1) .. core'[t].made
          PROVE  \E j \in DOMAIN toGui' : IsChunk(toGui'[j], t) /\ toGui'[j].chunk = k
      <3>1. CASE k \in (Len(gui[t].buffer) + 1) .. core[t].made
        <4>1. PICK j \in DOMAIN toGui : IsChunk(toGui[j], t) /\ toGui[j].chunk = k
          BY <3>1, <2>5, <1>1, <1>2 DEF ChannelInv
        <4> QED BY <4>1, <1>5
      <3>2. CASE t = s /\ k = n
        BY <3>2, <1>5, <1>7 DEF IsChunk
      <3> QED BY <3>1, <3>2, <2>0, <2>5, <1>1, <1>3, <1>4
    <2> QED BY <2>1, <2>3, <2>4, <2>5 DEF ChannelInv
  <1>10. NewInv(t)'
    BY <1>1, <1>2, <1>4, <1>6, <1>7 DEF NewInv
  <1>11. RequestInv(t)'
    BY <1>1, <1>2, <1>4 DEF RequestInv
  <1>12. ReturnInv(t)'
    BY <1>1, <1>2 DEF ReturnInv
  <1>13. EndInv(t)'
    <2>1. CASE t # s
      BY <2>1, <1>1, <1>2, <1>4, <1>6, <1>7 DEF EndInv, IsChunk, IsDone, IsAbort
    <2>2. CASE t = s
      <3>1. t \notin cancelled =>
              /\ gui[t].returned = None
              /\ \A j \in DOMAIN toGui' : ~IsDone(toGui'[j], t)
        BY <2>2, <1>1, <1>2, <1>6, <1>7 DEF EndInv, IsDone
      <3> QED BY <3>1, <1>1, <1>2 DEF EndInv, IsAbort
    <2> QED BY <2>1, <2>2
  <1> QED BY <1>8, <1>9, <1>10, <1>11, <1>12, <1>13 DEF StreamInv

(* Begin and CheckActive: no message is sent, and no model runs.           *)
LEMMA SilentInv ==
  ASSUME Inv, NEW s \in Streams, Begin(s) \/ CheckActive(s), NEW t \in Streams
  PROVE  StreamInv(t)'
  <1>1. UNCHANGED <<gui, signalled, toIde, toGui, acks, cancelled>>
    BY DEF Begin, CheckActive, guiVars
  <1>2. /\ core'[t].made = core[t].made /\ core'[t].outcome = core[t].outcome
        /\ \/ core'[t].state = core[t].state
           \/ core[t].state = "starting" /\ core'[t].state = "asking"
    <2> DEFINE b == s \in Commands
    <2>1. core \in [Streams -> Generators]
      BY DEF Inv, TypeOK
    <2>2. \/ core[s].state = "starting" /\ core' = [core EXCEPT ![s].state = "asking", ![s].checks = b]
          \/ core' = [core EXCEPT ![s].checks = FALSE]
      BY DEF Begin, CheckActive
    <2> HIDE DEF b
    <2> QED BY <2>1, <2>2 DEF Generators
  <1>3. /\ BufferInv(t) /\ ChannelInv(t) /\ NewInv(t) /\ RequestInv(t) /\ ReturnInv(t) /\ EndInv(t)
    BY DEF Inv, StreamInv
  <1> QED BY <1>1, <1>2, <1>3 DEF StreamInv, BufferInv, ChannelInv, NewInv, RequestInv,
             ReturnInv, EndInv

-----------------------------------------------------------------------------
(* The invariant, and what follows from it.                                *)

LEMMA NextTypes == TypeOK /\ [Next]_vars => TypeOK'
  <1> SUFFICES ASSUME TypeOK, [Next]_vars PROVE TypeOK'
    OBVIOUS
  <1>1. CASE UNCHANGED vars
    BY <1>1 DEF vars, guiVars, TypeOK
  <1>2. CASE NewSession \/ Deliver
    BY <1>2, DeliverTypes
  <1>3. ASSUME NEW s \in Streams, Open(s) \/ Consume(s) PROVE TypeOK'
    BY <1>3, GuiTypes
  <1>4. ASSUME NEW s \in Streams, Generate(s) \/ Acknowledge(s) \/ CheckActive(s) PROVE TypeOK'
    BY <1>4, CoreTypes
  <1> QED BY <1>1, <1>2, <1>3, <1>4 DEF Next

LEMMA NextInv == Inv /\ [Next]_vars => Inv'
  <1> SUFFICES ASSUME Inv, [Next]_vars PROVE Inv'
    OBVIOUS
  <1>1. TypeOK'
    BY NextTypes DEF Inv
  <1>2. ASSUME NEW t \in Streams PROVE StreamInv(t)'
    <2>1. CASE UNCHANGED vars
      BY <2>1 DEF vars, guiVars, Inv, StreamInv, BufferInv, ChannelInv, NewInv, RequestInv,
             ReturnInv, EndInv
    <2>2. CASE NewSession
      BY <2>2, LeaveInv
    <2>3. CASE Deliver
      BY <2>3, IdeReceivesInv, GuiReceivesInv DEF Deliver
    <2>4. ASSUME NEW s \in Streams, Open(s) PROVE StreamInv(t)'
      BY <2>4, OpenInv
    <2>5. ASSUME NEW s \in Streams, Consume(s) PROVE StreamInv(t)'
      BY <2>5, TakeInv, LeaveInv DEF Consume
    <2>6. ASSUME NEW s \in Streams, Generate(s) PROVE StreamInv(t)'
      BY <2>6, SilentInv, YieldInv, EndedInv DEF Generate
    <2>7. ASSUME NEW s \in Streams, Acknowledge(s) \/ CheckActive(s) PROVE StreamInv(t)'
      BY <2>7, AcknowledgeInv, SilentInv
    <2> QED BY <2>1, <2>2, <2>3, <2>4, <2>5, <2>6, <2>7 DEF Next
  <1> QED BY <1>1, <1>2 DEF Inv

LEMMA Invariance == Spec => []Inv
  BY InitInv, NextInv, PTL DEF Spec

(* The variables of the calls of streamRequest, the messages and the       *)
(* generators stay what the code takes them for; a chunk that is looked    *)
(* for in the buffer is there.                                             *)
THEOREM StreamsTypeCorrect == Spec => []TypeOK
  <1>1. Inv => TypeOK
    BY DEF Inv
  <1> QED BY <1>1, Invariance, PTL

(* The consumer of streamRequest gets the chunks of its own model, in      *)
(* order and each once, whatever is aborted.                               *)
THEOREM ChunksDeliveredInOrder == Spec => []DeliveredInOrder
  <1>1. Inv => DeliveredInOrder
    <2> SUFFICES ASSUME Inv, NEW s \in Streams, NEW i \in DOMAIN gui[s].taken
                 PROVE  gui[s].taken[i] = i /\ i <= core[s].made
      BY DEF DeliveredInOrder
    <2>1. BufferInv(s) /\ gui[s] \in Calls /\ core[s] \in Generators
      BY DEF Inv, StreamInv, TypeOK
    <2>2. DOMAIN gui[s].taken = 1 .. Len(gui[s].taken) /\ Len(gui[s].taken) \in Nat
      BY <2>1 DEF Calls
    <2>3. Len(gui[s].buffer) \in Nat /\ core[s].made \in Nat
      BY <2>1 DEF Calls, Generators
    <2> QED BY <2>1, <2>2, <2>3 DEF BufferInv
  <1> QED BY <1>1, Invariance, PTL

(* A call of streamRequest that returns and was not aborted returns what   *)
(* the generator of the core did, and has given all chunks of the model.   *)
THEOREM ReturnsTrue == Spec => []ReturnIsTrue
  <1>1. Inv => ReturnIsTrue
    BY DEF Inv, StreamInv, ReturnInv, EndInv, ReturnIsTrue
  <1> QED BY <1>1, Invariance, PTL

-----------------------------------------------------------------------------
(* Aborted chats.                                                          *)

(* The abort message has been received, and its answer is due, under way   *)
(* or seen by the GUI.                                                     *)
Acked(s) ==
  \/ s \in acks
  \/ \E j \in DOMAIN toGui : toGui[j].id = s /\ toGui[j].done = "ack"
  \/ gui[s].returned = "ack"

(* Only the generator of a chat takes the id out of abortedMessageIds, when *)
(* it ends; the chunk it drops is the only one that can be late.           *)
StopsInv(s) ==
  /\ core[s].checks => s \in Commands
  /\ s \notin Commands =>
       /\ Acked(s) => s \in abortedMessageIds \/ core[s].state = "ended"
       /\ late[s] <= 1
       /\ late[s] # 0 => core[s].state = "ended"

(* What a step must keep for that.                                         *)
LEMMA StopsStep ==
  ASSUME Inv, NEW t \in Streams, StopsInv(t),
         core'[t].checks => core[t].checks \/ t \in Commands,
         t \notin Commands =>
           /\ core[t].state = "ended" => core'[t].state = "ended"
           /\ t \in abortedMessageIds => t \in abortedMessageIds' \/ core'[t].state = "ended"
           /\ Acked(t)' => Acked(t) \/ t \in abortedMessageIds'
           /\ \/ late'[t] = late[t]
              \/ /\ late'[t] = late[t] + 1
                 /\ core[t].state # "ended" /\ core'[t].state = "ended"
  PROVE  StopsInv(t)'
<1>1. late[t] \in Nat
  BY DEF Inv, TypeOK
<1>2. QED BY <1>1 DEF StopsInv

LEMMA GuiStops ==
  ASSUME Inv, NEW t \in Streams, StopsInv(t), NEW s \in Streams,
         NewSession \/ Open(s) \/ Consume(s)
  PROVE  StopsInv(t)'
<1>1. /\ UNCHANGED <<core, toGui, acks, abortedMessageIds, late>>
  BY DEF NewSession, Open, Consume, Take, Return, Leave, AbortStream
<1>2. gui'[t].returned = gui[t].returned
  <2>1. gui \in [Streams -> Calls]
    BY DEF Inv, TypeOK
  <2>2. \/ gui' = gui
        \/ gui' = [gui EXCEPT ![s].state = "open", ![s].listening = TRUE]
        \/ gui' = [gui EXCEPT ![s].taken = Append(@, gui[s].buffer[Index(s) + 1])]
        \/ gui' = [gui EXCEPT ![s].state = "left"]
        \/ gui' = [gui EXCEPT ![s].state = "returned"]
    BY DEF NewSession, Open, Consume, Take, Return, Leave
  <2>3. gui[s] \in Calls /\ gui[t] \in Calls
    BY <2>1
  <2>4. CASE t = s
    BY <2>1, <2>2, <2>3, <2>4 DEF Calls
  <2>5. CASE t # s
    BY <2>1, <2>2, <2>5
  <2>6. QED BY <2>4, <2>5
<1>3. Acked(t)' => Acked(t)
  BY <1>1, <1>2 DEF Acked
<1>4. QED BY <1>1, <1>3, StopsStep

LEMMA GuiReceivesStops ==
  ASSUME Inv, NEW t \in Streams, StopsInv(t), ReceiveInGui
  PROVE  StopsInv(t)'
<1> DEFINE m == toGui[1]
<1>1. /\ toGui \in Seq(Answers) /\ toGui # <<>> /\ toGui' = Tail(toGui)
      /\ UNCHANGED <<core, acks, abortedMessageIds, late>> /\ gui \in [Streams -> Calls]
  BY DEF ReceiveInGui, Inv, TypeOK
<1>2. /\ 1 \in DOMAIN toGui /\ Head(toGui) = m
      /\ DOMAIN toGui' = 1 .. Len(toGui) - 1
      /\ \A j \in DOMAIN toGui' : j + 1 \in DOMAIN toGui /\ toGui'[j] = toGui[j + 1]
  BY <1>1, TailIndex
<1>3. gui' = [gui EXCEPT ![m.id] = Handled(@, m)]
  BY <1>2 DEF ReceiveInGui
<1>4. gui'[t].returned = gui[t].returned \/ (m.id = t /\ gui'[t].returned = m.done)
  <2>1. gui'[t] = IF t = m.id THEN Handled(gui[t], m) ELSE gui[t]
    BY <1>1, <1>3
  <2>2. Handled(gui[t], m).returned \in {gui[t].returned, m.done}
    BY <1>1 DEF Handled, Calls
  <2>3. QED BY <2>1, <2>2
<1>5. Acked(t)' => Acked(t)
  BY <1>1, <1>2, <1>4 DEF Acked
<1>6. QED BY <1>1, <1>5, StopsStep

LEMMA IdeReceivesStops ==
  ASSUME Inv, NEW t \in Streams, StopsInv(t), Receive
  PROVE  StopsInv(t)'
<1> DEFINE m == toIde[1]
<1>1. /\ toIde \in Seq(Messages) /\ toIde # <<>> /\ core \in [Streams -> Generators]
      /\ UNCHANGED <<gui, toGui, late>>
  BY DEF Receive, guiVars, Inv, TypeOK
<1>2. Head(toIde) = m /\ 1 \in DOMAIN toIde /\ m \in Messages
  BY <1>1
<1>3. CASE m.type = "request" /\ core' = [core EXCEPT ![m.id].state = "starting"]
           /\ UNCHANGED <<abortedMessageIds, acks>>
  <2>1. core[m.id].state = "new"
    BY <1>2, <1>3 DEF Inv, StreamInv, RequestInv, IsRequest, Messages
  <2>2. core'[t].checks = core[t].checks /\ (core[t].state = "ended" => core'[t].state = "ended")
    BY <1>1, <1>2, <1>3, <2>1 DEF Generators, Messages
  <2>3. Acked(t)' => Acked(t)
    BY <1>1, <1>3 DEF Acked
  <2>4. QED BY <1>1, <1>3, <2>2, <2>3, StopsStep
<1>4. CASE /\ abortedMessageIds' = abortedMessageIds \cup {m.id} /\ acks' = acks \cup {m.id}
           /\ UNCHANGED core
  <2>1. Acked(t)' => Acked(t) \/ t \in abortedMessageIds'
    BY <1>1, <1>4 DEF Acked
  <2>2. QED BY <1>1, <1>4, <2>1, StopsStep
<1>5. QED BY <1>2, <1>3, <1>4 DEF Receive

LEMMA SilentStops ==
  ASSUME Inv, NEW t \in Streams, StopsInv(t), NEW s \in Streams, Begin(s) \/ CheckActive(s)
  PROVE  StopsInv(t)'
<1>1. UNCHANGED <<gui, toGui, acks, late>>
  BY DEF Begin, CheckActive, guiVars
<1>2. core \in [Streams -> Generators]
  BY DEF Inv, TypeOK
<1>3. CASE Begin(s)
  <2> DEFINE b == s \in Commands
  <2>1. /\ core' = [core EXCEPT ![s].state = "asking", ![s].checks = b]
        /\ core[s].state = "starting" /\ UNCHANGED abortedMessageIds
    BY <1>3 DEF Begin
  <2>2. core'[t].checks => core[t].checks \/ t \in Commands
    <3>1. t # s => core'[t] = core[t]
      BY <1>2, <2>1
    <3>2. t = s => core'[t].checks = b
      <4> HIDE DEF b
      <4>1. QED BY <1>2, <2>1 DEF Generators
    <3>3. QED BY <3>1, <3>2
  <2>3. core[t].state = "ended" => core'[t].state = "ended"
    BY <1>2, <2>1 DEF Generators
  <2>4. Acked(t)' => Acked(t)
    BY <1>1 DEF Acked
  <2>5. QED BY <1>1, <2>1, <2>2, <2>3, <2>4, StopsStep
<1>4. CASE CheckActive(s)
  <2>1. /\ core' = [core EXCEPT ![s].checks = FALSE] /\ core[s].checks
        /\ abortedMessageIds' = abortedMessageIds \ {s}
    BY <1>4 DEF CheckActive
  <2>2. core'[t].state = core[t].state /\ (core'[t].checks => core[t].checks)
    BY <1>2, <2>1 DEF Generators
  <2>3. t \notin Commands => t # s
    BY <2>1 DEF StopsInv
  <2>4. Acked(t)' => Acked(t)
    BY <1>1 DEF Acked
  <2>5. QED BY <1>1, <2>1, <2>2, <2>3, <2>4, StopsStep
<1>5. QED BY <1>3, <1>4

(* One message more that says who it is for.                               *)
LEMMA AnswersMore ==
  ASSUME Inv, NEW a \in Answers,
         toGui' = Append(toGui, a) \/ toGui' = toGui \o <<a>> \/ toGui' = toGui \o <<a, a>>
  PROVE  \A j \in DOMAIN toGui' : toGui'[j] = a \/ (j \in DOMAIN toGui /\ toGui'[j] = toGui[j])
<1>1. toGui \in Seq(Answers)
  BY DEF Inv, TypeOK
<1>2. CASE toGui' = Append(toGui, a)
  BY <1>1, <1>2
<1>3. CASE toGui' = toGui \o <<a>>
  BY <1>1, <1>3
<1>4. CASE toGui' = toGui \o <<a, a>>
  BY <1>1, <1>4
<1>5. QED BY <1>2, <1>3, <1>4

LEMMA YieldStops ==
  ASSUME Inv, NEW t \in Streams, StopsInv(t), NEW s \in Streams, ModelYields(s), StopsInv(s)
  PROVE  StopsInv(t)'
<1>1. /\ core[s].state = "asking" /\ s \notin abortedMessageIds
      /\ UNCHANGED <<gui, acks, abortedMessageIds>>
      /\ toGui' = Append(toGui, Chunk(s, core[s].made + 1))
      /\ core' = [core EXCEPT ![s].made = core[s].made + 1]
  BY DEF ModelYields, guiVars, Inv, TypeOK, Generators
<1>2. core \in [Streams -> Generators] /\ late \in [Streams -> Nat]
  BY DEF Inv, TypeOK
<1>3. core'[t].state = core[t].state /\ core'[t].checks = core[t].checks
  BY <1>1, <1>2 DEF Generators
<1>4. s \notin Commands => gui[s].returned # "ack"
  BY <1>1 DEF StopsInv, Acked
<1>5. t \notin Commands => late'[t] = late[t]
  BY <1>2, <1>4 DEF ModelYields, Late
<1>6. Acked(t)' => Acked(t)
  <2>1. Chunk(s, core[s].made + 1) \in Answers /\ Chunk(s, core[s].made + 1).done # "ack"
    BY <1>2, StreamsAssumption DEF Chunk, Answers, Outcomes, Generators
  <2>2. QED BY <1>1, <2>1, AnswersMore DEF Acked
<1>7. QED BY <1>1, <1>3, <1>5, <1>6, StopsStep

LEMMA EndStops ==
  ASSUME Inv, NEW t \in Streams, StopsInv(t), NEW s \in Streams,
         AbortFound(s) \/ ModelEnds(s) \/ Fails(s)
  PROVE  StopsInv(t)'
<1>1. PICK o \in {"end", "error"} : End(s, o)
  BY DEF AbortFound, ModelEnds, Fails
<1>2. /\ core[s].state \in {"starting", "asking"} /\ UNCHANGED <<gui, acks>>
      /\ abortedMessageIds' \in {abortedMessageIds, abortedMessageIds \ {s}}
      /\ UNCHANGED late \/ Late(s)
  BY DEF AbortFound, ModelEnds, Fails, guiVars
<1>3. core \in [Streams -> Generators] /\ late \in [Streams -> Nat]
  BY DEF Inv, TypeOK
<1>4. /\ t = s => core'[t].state = "ended" /\ core'[t].checks = FALSE
      /\ t # s => core'[t] = core[t]
  BY <1>1, <1>3 DEF End, Generators
<1>5. /\ late'[t] = late[t] \/ (t = s /\ late'[t] = late[t] + 1)
      /\ t = s => core[t].state # "ended"
  BY <1>2, <1>3 DEF Late
<1>6. Acked(t)' => Acked(t)
  <2>1. Done(s, o) \in Answers /\ Done(s, o).done # "ack"
    BY DEF Done, Answers, Outcomes
  <2>2. toGui' = toGui \o <<Done(s, o), Done(s, o)>> \/ toGui' = toGui \o <<Done(s, o)>>
    BY <1>1 DEF End
  <2>3. QED BY <1>2, <2>1, <2>2, AnswersMore DEF Acked
<1>7. QED BY <1>2, <1>4, <1>5, <1>6, StopsStep

LEMMA AcknowledgeStops ==
  ASSUME Inv, NEW t \in Streams, StopsInv(t), NEW s \in Streams, Acknowledge(s)
  PROVE  StopsInv(t)'
<1>1. /\ s \in acks /\ acks' \subseteq acks /\ toGui' = Append(toGui, Done(s, "ack"))
      /\ UNCHANGED <<gui, core, abortedMessageIds, late>>
  BY DEF Acknowledge, guiVars
<1>2. Done(s, "ack") \in Answers /\ Done(s, "ack").id = s
  BY DEF Done, Answers, Outcomes
<1>3. Acked(t)' => Acked(t)
  BY <1>1, <1>2, AnswersMore DEF Acked
<1>4. QED BY <1>1, <1>3, StopsStep

LEMMA NextStops ==
  ASSUME Inv, [Next]_vars, \A t \in Streams : StopsInv(t)
  PROVE  \A t \in Streams : StopsInv(t)'
<1> SUFFICES ASSUME NEW t \in Streams PROVE StopsInv(t)'
  OBVIOUS
<1>1. CASE UNCHANGED vars
  BY <1>1 DEF vars, guiVars, StopsInv, Acked
<1>2. CASE NewSession
  BY <1>2, GuiStops
<1>3. CASE Deliver
  BY <1>3, GuiReceivesStops, IdeReceivesStops DEF Deliver
<1>4. ASSUME NEW s \in Streams, Open(s) \/ Consume(s) PROVE StopsInv(t)'
  BY <1>4, GuiStops
<1>5. ASSUME NEW s \in Streams, Generate(s) PROVE StopsInv(t)'
  BY <1>5, SilentStops, YieldStops, EndStops DEF Generate
<1>6. ASSUME NEW s \in Streams, Acknowledge(s) \/ CheckActive(s) PROVE StopsInv(t)'
  BY <1>6, AcknowledgeStops, SilentStops
<1>7. QED BY <1>1, <1>2, <1>3, <1>4, <1>5, <1>6 DEF Next

(* Once the GUI has the answer to its abort message, the model of a chat   *)
(* gives at most one more chunk: that in which the generator of the core   *)
(* finds the id.                                                           *)
THEOREM AbortsStopModels == Spec => []AbortStopsModel
<1> DEFINE Stops == \A t \in Streams : StopsInv(t)
<1>1. Init => Stops
  BY StreamsAssumption DEF Init, StopsInv, Acked, NewCall, NewGenerator
<1>2. Inv /\ [Next]_vars /\ Stops => Stops'
  BY NextStops
<1>3. Stops => AbortStopsModel
  BY DEF StopsInv, AbortStopsModel
<1> HIDE DEF Stops
<1>4. QED BY <1>1, <1>2, <1>3, Invariance, PTL DEF Spec

-----------------------------------------------------------------------------
(* The framing of messages: sequences at places in their order.           *)

(* A set of numbers that is not empty has a least one.                     *)
LEMMA LeastPlace ==
  ASSUME NEW m \in Nat, NEW M, M \subseteq 0 .. m, M # {}
  PROVE  \E k \in M : \A l \in M : k <= l
<1> DEFINE Less == OpToRel(<, Nat)
<1>1. \A k, l \in Nat : <<k, l>> \in Less <=> k < l
  BY DEF OpToRel
<1>2. M \subseteq Nat
  OBVIOUS
<1>3. IsWellFoundedOn(Less, Nat)
  BY NatLessThanWellFounded
<1> HIDE DEF Less
<1>4. PICK k \in M : \A l \in M : <<l, k>> \notin Less
  BY <1>2, <1>3, WFMin
<1>5. ASSUME NEW l \in M PROVE k <= l
  <2>1. l \in Nat /\ k \in Nat
    BY <1>2
  <2>2. ~(l < k)
    BY <1>1, <1>4, <2>1, Zenon
  <2>3. QED BY <2>1, <2>2
<1>6. QED BY <1>4, <1>5

-----------------------------------------------------------------------------
(* Sets of numbers in their order, and what is at their places.            *)

Ordered(q, S) ==
  /\ q \in Seq(S)
  /\ \A i, j \in 1 .. Len(q) : i < j => q[i] < q[j]
  /\ \A x \in S : \E i \in 1 .. Len(q) : x = q[i]

LEMMA OrderedPlaces ==
  ASSUME NEW S, NEW q, Ordered(q, S)
  PROVE  /\ Len(q) \in Nat /\ DOMAIN q = 1 .. Len(q) /\ q = [k \in 1 .. Len(q) |-> q[k]]
         /\ \A i \in 1 .. Len(q) : q[i] \in S
BY LenProperties, ElementOfSeq DEF Ordered

(* The member in place k is the one with k members up to it.               *)
LEMMA OrderedRank ==
  ASSUME NEW S, S \subseteq Nat, NEW q, Ordered(q, S), NEW k \in 1 .. Len(q)
  PROVE  Cardinality({y \in S : y <= q[k]}) = k
<1>1. Len(q) \in Nat /\ \A i \in 1 .. Len(q) : q[i] \in S /\ q[i] \in Nat
  BY OrderedPlaces
<1>2. \A i, j \in 1 .. Len(q) : i < j => q[i] < q[j]
  BY DEF Ordered
<1> DEFINE T == {y \in S : y <= q[k]}
           f == [i \in 1 .. k |-> q[i]]
<1>3. \A i \in 1 .. k : i \in 1 .. Len(q)
  BY <1>1
<1>4. f \in [1 .. k -> T]
  <2>1. ASSUME NEW i \in 1 .. k PROVE q[i] \in S /\ q[i] <= q[k]
    <3>1. i = k \/ i < k
      BY <1>1
    <3>2. QED BY <1>1, <1>2, <1>3, <3>1
  <2>2. QED BY <2>1
<1>5. \A i, j \in 1 .. k : f[i] = f[j] => i = j
  <2>1. ASSUME NEW i \in 1 .. k, NEW j \in 1 .. k, q[i] = q[j] PROVE i = j
    <3>1. ~(i < j) /\ ~(j < i)
      BY <1>1, <1>2, <1>3, <2>1
    <3>2. QED BY <1>1, <3>1
  <2>2. QED BY <2>1
<1>6. \A y \in T : \E i \in 1 .. k : f[i] = y
  <2> TAKE y \in T
  <2>1. PICK i \in 1 .. Len(q) : y = q[i]
    BY DEF Ordered
  <2>2. ~(k < i)
    BY <1>1, <1>2, <2>1
  <2>3. i \in 1 .. k
    BY <1>1, <2>2
  <2>4. QED BY <2>1, <2>3
<1>7. f \in Bijection(1 .. k, T)
  <2>1. f \in Injection(1 .. k, T)
    BY <1>4, <1>5 DEF Injection, IsInjective
  <2>2. f \in Surjection(1 .. k, T)
    BY <1>4, <1>6 DEF Surjection
  <2>3. QED BY <2>1, <2>2 DEF Bijection
<1>8. ExistsBijection(1 .. k, T)
  BY <1>7 DEF ExistsBijection
<1>9. IsFiniteSet(1 .. k) /\ Cardinality(1 .. k) = k
  BY <1>1, FS_Interval
<1> HIDE DEF T
<1>10. Cardinality(T) = k
  BY <1>8, <1>9, FS_Bijection
<1>11. QED BY <1>10 DEF T

LEMMA OrderedSize ==
  ASSUME NEW S, S \subseteq Nat, NEW q, Ordered(q, S)
  PROVE  Cardinality(S) = Len(q)
<1>1. Len(q) \in Nat /\ \A i \in 1 .. Len(q) : q[i] \in S
  BY OrderedPlaces
<1>2. CASE Len(q) = 0
  <2>1. S = {}
    BY <1>2 DEF Ordered
  <2>2. QED BY <1>2, <2>1, FS_EmptySet
<1>3. CASE Len(q) # 0
  <2>1. Len(q) \in 1 .. Len(q)
    BY <1>1, <1>3
  <2>2. ASSUME NEW y \in S PROVE y <= q[Len(q)]
    <3>1. PICK i \in 1 .. Len(q) : y = q[i]
      BY DEF Ordered
    <3>2. i = Len(q) \/ i < Len(q)
      BY <1>1
    <3>3. \A j \in 1 .. Len(q) : q[j] \in Nat
      BY <1>1
    <3>4. i < Len(q) => q[i] < q[Len(q)]
      BY <2>1 DEF Ordered
    <3>5. QED BY <2>1, <3>1, <3>2, <3>3, <3>4
  <2>3. {y \in S : y <= q[Len(q)]} = S
    BY <2>2
  <2>4. QED BY <2>1, <2>3, OrderedRank
<1>4. QED BY <1>2, <1>3

(* There is only one such sequence.                                        *)
LEMMA InOrderIs ==
  ASSUME NEW S, S \subseteq Nat, NEW q, Ordered(q, S)
  PROVE  InOrder(S) = q
<1>1. Len(q) \in Nat /\ q = [k \in 1 .. Len(q) |-> q[k]] /\ \A i \in 1 .. Len(q) : q[i] \in S
  BY OrderedPlaces
<1>2. Cardinality(S) = Len(q)
  BY OrderedSize
<1>3. ASSUME NEW k \in 1 .. Len(q)
      PROVE  (CHOOSE x \in S : Cardinality({y \in S : y <= x}) = k) = q[k]
  <2>1. q[k] \in S /\ Cardinality({y \in S : y <= q[k]}) = k
    BY <1>1, OrderedRank
  <2>2. ASSUME NEW x \in S, Cardinality({y \in S : y <= x}) = k PROVE x = q[k]
    <3>1. PICK i \in 1 .. Len(q) : x = q[i]
      BY DEF Ordered
    <3>2. Cardinality({y \in S : y <= q[i]}) = i
      BY OrderedRank
    <3>3. QED BY <2>2, <3>1, <3>2
  <2>3. QED BY <2>1, <2>2
<1>4. InOrder(S) = [k \in 1 .. Len(q) |-> q[k]]
  BY <1>2, <1>3 DEF InOrder
<1>5. QED BY <1>1, <1>4

(* One set after the other.                                                *)
LEMMA OrderedConcat ==
  ASSUME NEW S, NEW T, S \subseteq Nat, T \subseteq Nat, NEW q, NEW p, Ordered(q, S), Ordered(p, T),
         \A x \in S, y \in T : x < y
  PROVE  Ordered(q \o p, S \cup T)
<1> DEFINE n == Len(q)
           o == q \o p
<1>1. n \in Nat /\ Len(p) \in Nat /\ q \in Seq(S \cup T) /\ p \in Seq(S \cup T)
  <2>1. q \in Seq(S) /\ p \in Seq(T)
    BY DEF Ordered
  <2>2. Seq(S) \subseteq Seq(S \cup T) /\ Seq(T) \subseteq Seq(S \cup T)
    OBVIOUS
  <2>3. QED BY <2>1, <2>2, OrderedPlaces
<1>2. /\ \A i \in 1 .. n : q[i] \in S /\ q[i] \in Nat
      /\ \A i \in 1 .. Len(p) : p[i] \in T /\ p[i] \in Nat
  BY OrderedPlaces
<1>3. /\ o \in Seq(S \cup T) /\ Len(o) = n + Len(p)
      /\ \A i \in 1 .. n + Len(p) : o[i] = IF i <= n THEN q[i] ELSE p[i - n]
  BY <1>1, ConcatProperties
<1> HIDE DEF o
<1>4. ASSUME NEW i \in 1 .. Len(o), NEW j \in 1 .. Len(o), i < j PROVE o[i] < o[j]
  <2>1. CASE j <= n
    <3>1. i \in 1 .. n /\ j \in 1 .. n
      BY <1>1, <1>3, <1>4, <2>1
    <3>2. QED BY <1>1, <1>3, <1>4, <3>1 DEF Ordered
  <2>2. CASE i <= n /\ ~(j <= n)
    <3>1. i \in 1 .. n /\ j - n \in 1 .. Len(p)
      BY <1>1, <1>3, <1>4, <2>2
    <3>2. o[i] = q[i] /\ o[j] = p[j - n]
      BY <1>1, <1>3, <2>2
    <3>3. QED BY <1>2, <3>1, <3>2
  <2>3. CASE ~(i <= n)
    <3>1. i - n \in 1 .. Len(p) /\ j - n \in 1 .. Len(p) /\ i - n < j - n /\ ~(j <= n)
      BY <1>1, <1>3, <1>4, <2>3
    <3>2. o[i] = p[i - n] /\ o[j] = p[j - n]
      BY <1>1, <1>3, <2>3, <3>1
    <3>3. QED BY <3>1, <3>2 DEF Ordered
  <2>4. QED BY <2>1, <2>2, <2>3
<1>5. ASSUME NEW x \in S \cup T PROVE \E i \in 1 .. Len(o) : x = o[i]
  <2>1. CASE x \in S
    <3>1. PICK i \in 1 .. n : x = q[i]
      BY <2>1 DEF Ordered
    <3>2. i \in 1 .. Len(o) /\ i <= n
      BY <1>1, <1>3
    <3>3. QED BY <1>3, <3>1, <3>2
  <2>2. CASE x \in T
    <3>1. PICK i \in 1 .. Len(p) : x = p[i]
      BY <2>2 DEF Ordered
    <3>2. n + i \in 1 .. Len(o) /\ ~(n + i <= n) /\ (n + i) - n = i
      BY <1>1, <1>3
    <3>3. QED BY <1>3, <3>1, <3>2
  <2>3. QED BY <2>1, <2>2
<1>6. QED BY <1>3, <1>4, <1>5 DEF Ordered, o

LEMMA OrderedNone == Ordered(<<>>, {})
BY EmptySeq DEF Ordered

LEMMA OrderedOne ==
  ASSUME NEW x \in Nat
  PROVE  Ordered(<<x>>, {x})
<1>1. <<x>> \in Seq({x}) /\ Len(<<x>>) = 1 /\ <<x>>[1] = x
  OBVIOUS
<1>2. QED BY <1>1 DEF Ordered

(* Places in a sequence.                                                   *)
Bounded(S) == \E n \in Nat : S \subseteq 1 .. n

LEMMA BoundedIs ==
  ASSUME NEW S, Bounded(S)
  PROVE  S \subseteq Nat
<1>1. PICK n \in Nat : S \subseteq 1 .. n
  BY DEF Bounded
<1>2. 1 .. n \subseteq Nat
  OBVIOUS
<1>3. QED BY <1>1, <1>2, Zenon

(* Every such set has its order: else there is a least bound of one        *)
(* without.                                                                *)
LEMMA HasOrder ==
  ASSUME NEW S, Bounded(S)
  PROVE  Ordered(InOrder(S), S)
<1> PICK N \in Nat : S \subseteq 1 .. N
  BY DEF Bounded
<1> DEFINE Upto(n) == \E q : Ordered(q, S \cap (1 .. n))
           Wrong == {n \in 0 .. N : ~Upto(n)}
<1>1. ASSUME Wrong # {} PROVE FALSE
  <2>1. PICK n \in Wrong : \A l \in Wrong : n <= l
    <3>1. Wrong \subseteq 0 .. N
      OBVIOUS
    <3> HIDE DEF Wrong
    <3>2. QED BY <1>1, <3>1, LeastPlace
  <2>2. n \in 0 .. N /\ ~Upto(n)
    OBVIOUS
  <2>3. CASE n = 0
    <3>1. S \cap (1 .. n) = {}
      BY <2>3
    <3>2. QED BY <2>2, <3>1, OrderedNone
  <2>4. CASE n # 0
    <3>1. n - 1 \in 0 .. N /\ ~(n <= n - 1)
      BY <2>2, <2>4
    <3>2. Upto(n - 1)
      BY <2>1, <3>1
    <3>3. PICK q : Ordered(q, S \cap (1 .. n - 1))
      BY <3>2
    <3>4. CASE n \in S
      <4>1. S \cap (1 .. n) = (S \cap (1 .. n - 1)) \cup {n}
        BY <2>2, <2>4, <3>4
      <4>2. \A x \in S \cap (1 .. n - 1), y \in {n} : x < y
        BY <2>2
      <4>3. S \cap (1 .. n - 1) \subseteq Nat /\ {n} \subseteq Nat /\ Ordered(<<n>>, {n})
        BY <2>2, OrderedOne
      <4>4. Ordered(q \o <<n>>, (S \cap (1 .. n - 1)) \cup {n})
        BY <3>3, <4>2, <4>3, OrderedConcat
      <4>5. QED BY <2>2, <4>1, <4>4
    <3>5. CASE n \notin S
      <4>1. S \cap (1 .. n) = S \cap (1 .. n - 1)
        BY <2>2, <2>4, <3>5
      <4>2. QED BY <2>2, <3>3, <4>1
    <3>6. QED BY <3>4, <3>5
  <2>5. QED BY <2>3, <2>4
<1>2. Upto(N)
  <2> HIDE DEF Upto
  <2>1. QED BY <1>1
<1>3. S \cap (1 .. N) = S /\ S \subseteq Nat
  <2> HIDE DEF Upto, Wrong
  <2>1. 1 .. N \subseteq Nat
    OBVIOUS
  <2>2. QED BY <2>1, Zenon
<1>4. PICK q : Ordered(q, S)
  BY <1>2, <1>3
<1>5. QED BY <1>3, <1>4, InOrderIs

Listed(s, q) == [k \in 1 .. Len(q) |-> s[q[k]]]

LEMMA AtIs ==
  ASSUME NEW S, S \subseteq Nat, NEW q, Ordered(q, S), NEW s
  PROVE  At(s, S) = Listed(s, q)
<1>1. InOrder(S) = q
  BY InOrderIs
<1>2. DOMAIN q = 1 .. Len(q)
  BY OrderedPlaces
<1>3. QED BY <1>1, <1>2 DEF At, Listed

LEMMA AtType ==
  ASSUME NEW S, Bounded(S), NEW C, NEW s, \A x \in S : s[x] \in C
  PROVE  At(s, S) \in Seq(C)
<1> DEFINE q == InOrder(S)
<1>1. Ordered(q, S)
  BY HasOrder
<1>2. S \subseteq Nat
  BY BoundedIs
<1> HIDE DEF q
<1>3. Len(q) \in Nat /\ \A k \in 1 .. Len(q) : s[q[k]] \in C
  BY <1>1, OrderedPlaces
<1> DEFINE t == [k \in 1 .. Len(q) |-> s[q[k]]]
<1>4. t \in Seq(C)
  BY <1>3
<1>5. t = Listed(s, q)
  BY DEF Listed
<1>6. QED BY <1>1, <1>2, <1>4, <1>5, AtIs

LEMMA AtNone == ASSUME NEW s PROVE At(s, {}) = <<>>
<1>1. At(s, {}) = Listed(s, <<>>)
  BY OrderedNone, AtIs
<1>2. 1 .. Len(<<>>) = {}
  OBVIOUS
<1>3. QED BY <1>1, <1>2 DEF Listed

Precedes(S, T)  == \A x \in S, y \in T : x < y
AreIn(s, S, C)  == \A x \in S : s[x] \in C

IsConcat(u, s, t) == u = s \o t

(* One set of places after the other.                                      *)
LEMMA AtConcat ==
  ASSUME NEW S, Bounded(S), NEW T, Bounded(T),
         Precedes(S, T), NEW U, U = S \cup T, NEW C, NEW s, AreIn(s, U, C)
  PROVE  IsConcat(At(s, U), At(s, S), At(s, T))
<1> DEFINE q == InOrder(S)
           p == InOrder(T)
<1>1. Ordered(q, S) /\ Ordered(p, T)
  BY HasOrder
<1>2. S \subseteq Nat /\ T \subseteq Nat /\ S \cup T \subseteq Nat
  BY BoundedIs
<1> HIDE DEF q, p
<1>3. Ordered(q \o p, S \cup T)
  <2>1. \A x \in S, y \in T : x < y
    BY DEF Precedes
  <2>2. QED BY <1>1, <1>2, <2>1, OrderedConcat
<1> DEFINE o == q \o p
           u == At(s, S)
           v == At(s, T)
<1>4. /\ u \in Seq(C) /\ u = [k \in 1 .. Len(q) |-> s[q[k]]]
      /\ v \in Seq(C) /\ v = [k \in 1 .. Len(p) |-> s[p[k]]]
  <2>1. u = Listed(s, q) /\ v = Listed(s, p)
    BY <1>1, <1>2, AtIs
  <2>2. u \in Seq(C)
    <3>1. \A x \in S : s[x] \in C
      BY DEF AreIn
    <3>2. QED BY <3>1, AtType
  <2>3. v \in Seq(C)
    <3>1. \A x \in T : s[x] \in C
      BY DEF AreIn
    <3>2. QED BY <3>1, AtType
  <2> HIDE DEF u, v
  <2>4. QED BY <2>1, <2>2, <2>3 DEF Listed
<1>5. Len(q) \in Nat /\ Len(p) \in Nat /\ q \in Seq(S \cup T) /\ p \in Seq(S \cup T)
  <2>1. q \in Seq(S) /\ p \in Seq(T)
    BY <1>1 DEF Ordered
  <2>2. Seq(S) \subseteq Seq(S \cup T) /\ Seq(T) \subseteq Seq(S \cup T)
    OBVIOUS
  <2>3. QED BY <1>1, <2>1, <2>2, OrderedPlaces
<1>6. Len(u) = Len(q) /\ Len(v) = Len(p)
  <2> HIDE DEF u, v
  <2>1. QED BY <1>4, <1>5, LenProperties
<1>7. /\ Len(o) = Len(q) + Len(p)
      /\ \A i \in 1 .. Len(q) + Len(p) : o[i] = IF i <= Len(q) THEN q[i] ELSE p[i - Len(q)]
  BY <1>5, ConcatProperties
<1> HIDE DEF u, v
<1>8. /\ u \o v \in Seq(C) /\ Len(u \o v) = Len(q) + Len(p)
      /\ \A i \in 1 .. Len(q) + Len(p) : (u \o v)[i] = IF i <= Len(q) THEN u[i] ELSE v[i - Len(q)]
  BY <1>4, <1>6, ConcatProperties
<1>9. At(s, S \cup T) = [k \in 1 .. Len(q) + Len(p) |-> s[o[k]]]
  <2>1. At(s, S \cup T) = Listed(s, o)
    BY <1>2, <1>3, AtIs
  <2> HIDE DEF o
  <2>2. QED BY <1>7, <2>1 DEF Listed
<1> HIDE DEF o
<1>10. ASSUME NEW i \in 1 .. Len(q) + Len(p) PROVE s[o[i]] = (u \o v)[i]
  <2>1. CASE i <= Len(q)
    <3>1. i \in 1 .. Len(q)
      BY <1>5, <2>1
    <3>2. QED BY <1>4, <1>7, <1>8, <2>1, <3>1
  <2>2. CASE ~(i <= Len(q))
    <3>1. i - Len(q) \in 1 .. Len(p)
      BY <1>5, <2>2
    <3>2. QED BY <1>4, <1>7, <1>8, <2>2, <3>1
  <2>3. QED BY <2>1, <2>2
<1> DEFINE w == u \o v
<1>11. w = [k \in 1 .. Len(w) |-> w[k]]
  <2>1. w \in Seq(C)
    BY <1>8
  <2> HIDE DEF w
  <2>2. QED BY <2>1, LenProperties
<1>12. Len(w) = Len(q) + Len(p)
  BY <1>8
<1>13. \A i \in 1 .. Len(q) + Len(p) : s[o[i]] = w[i]
  BY <1>10
<1>14. w = At(s, S) \o At(s, T)
  BY DEF u, v
<1> HIDE DEF w
<1>15. At(s, S \cup T) = At(s, S) \o At(s, T)
  BY <1>9, <1>11, <1>12, <1>13, <1>14
<1>16. QED BY <1>15 DEF IsConcat

AreMoved(T, S, c)   == T = {x + c : x \in S} /\ c \in Int /\ T \subseteq Nat
MovedBy(s, t, S, c) == \A x \in S : s[x] = t[x + c]

(* The same at other places, further on.                                   *)
LEMMA AtMoved ==
  ASSUME NEW S, Bounded(S), NEW c, NEW T, AreMoved(T, S, c), NEW s, NEW t, MovedBy(s, t, S, c)
  PROVE  At(s, S) = At(t, T)
<1> DEFINE q == InOrder(S)
<1>0. c \in Int /\ T \subseteq Nat
  BY DEF AreMoved
<1>1. Ordered(q, S)
  BY HasOrder
<1>2. S \subseteq Nat
  BY BoundedIs
<1> HIDE DEF q
<1>3. Len(q) \in Nat /\ \A k \in 1 .. Len(q) : q[k] \in S /\ q[k] \in Nat
  BY <1>1, <1>2, OrderedPlaces
<1> DEFINE p == [k \in 1 .. Len(q) |-> q[k] + c]
<1>4. p \in Seq(T) /\ Len(p) = Len(q) /\ \A k \in 1 .. Len(q) : p[k] = q[k] + c
  <2>1. \A k \in 1 .. Len(q) : q[k] + c \in T
    BY <1>0, <1>3 DEF AreMoved
  <2>2. QED BY <1>3, <2>1
<1> HIDE DEF p
<1>5. Ordered(p, T)
  <2>1. ASSUME NEW i \in 1 .. Len(p), NEW j \in 1 .. Len(p), i < j PROVE p[i] < p[j]
    <3>1. q[i] < q[j]
      BY <1>1, <1>4, <2>1 DEF Ordered
    <3>2. QED BY <1>0, <1>3, <1>4, <3>1
  <2>2. ASSUME NEW y \in T PROVE \E i \in 1 .. Len(p) : y = p[i]
    <3>1. PICK x \in S : y = x + c
      BY DEF AreMoved
    <3>2. PICK i \in 1 .. Len(q) : x = q[i]
      BY <1>1 DEF Ordered
    <3>3. QED BY <1>4, <3>1, <3>2
  <2>3. QED BY <1>4, <2>1, <2>2 DEF Ordered
<1>6. At(s, S) = Listed(s, q) /\ At(t, T) = Listed(t, p)
  BY <1>0, <1>1, <1>2, <1>5, AtIs
<1>7. \A k \in 1 .. Len(q) : s[q[k]] = t[p[k]]
  BY <1>3, <1>4 DEF MovedBy
<1>8. QED BY <1>4, <1>6, <1>7 DEF Listed

LEMMA AtAgree ==
  ASSUME NEW S, Bounded(S), NEW s, NEW t, \A x \in S : s[x] = t[x]
  PROVE  At(s, S) = At(t, S)
<1>1. Ordered(InOrder(S), S)
  BY HasOrder
<1>2. S \subseteq Nat
  BY BoundedIs
<1> DEFINE q == InOrder(S)
<1>3. \A k \in 1 .. Len(q) : s[q[k]] = t[q[k]]
  BY <1>1, OrderedPlaces
<1>4. At(s, S) = Listed(s, q) /\ At(t, S) = Listed(t, q)
  BY <1>1, <1>2, AtIs
<1> HIDE DEF q
<1>5. QED BY <1>3, <1>4 DEF Listed

(* Every place from a to b.                                                *)
LEMMA OrderedInterval ==
  ASSUME NEW a \in Nat, NEW b \in Int, a <= b + 1
  PROVE  Ordered([k \in 1 .. b + 1 - a |-> a + k - 1], a .. b)
<1> DEFINE q == [k \in 1 .. b + 1 - a |-> a + k - 1]
<1>1. b + 1 - a \in Nat /\ \A k \in 1 .. b + 1 - a : a + k - 1 \in a .. b
  OBVIOUS
<1>2. q \in Seq(a .. b) /\ Len(q) = b + 1 - a
  BY <1>1
<1>3. \A k \in 1 .. b + 1 - a : q[k] = a + k - 1
  OBVIOUS
<1> HIDE DEF q
<1>4. \A x \in a .. b : x + 1 - a \in 1 .. b + 1 - a /\ x = a + (x + 1 - a) - 1
  OBVIOUS
<1>5. QED BY <1>2, <1>3, <1>4 DEF Ordered, q

Stretch(s, a, n) == [k \in 1 .. n |-> s[a + k - 1]]

LEMMA AtInterval ==
  ASSUME NEW a \in Nat, NEW b \in Int, a <= b + 1, NEW s
  PROVE  At(s, a .. b) = Stretch(s, a, b + 1 - a)
<1> DEFINE q == [k \in 1 .. b + 1 - a |-> a + k - 1]
<1>1. a .. b \subseteq Nat /\ Ordered(q, a .. b) /\ b + 1 - a \in Nat
  BY OrderedInterval
<1>2. Len(q) = b + 1 - a
  BY <1>1
<1>3. \A k \in 1 .. b + 1 - a : q[k] = a + k - 1
  OBVIOUS
<1> HIDE DEF q
<1>4. At(s, a .. b) = Listed(s, q)
  BY <1>1, AtIs
<1>5. QED BY <1>2, <1>3, <1>4 DEF Listed, Stretch

-----------------------------------------------------------------------------
(* The stream.                                                             *)

Bytes == Sent * FrameLength
Chars == {CR, LF, Space} \cup {<<m, k>> : m \in 1 .. Sent, k \in 0 .. 3}

(* How message m looks if buffers end after the numbers of bytes in c:     *)
(* byte by byte, and once a space that came alone is gone.                 *)
BytesBy(c, m) == IF Before(m) + 1 \in c THEN <<Bad(m), Bad(m), Space, <<m, 3>>>> ELSE Text(m)

AloneBy(c, m) == {Before(m) + 2, Before(m) + 3} \subseteq c

SeenBy(c, m) ==
  (IF Before(m) + 1 \in c THEN <<Bad(m), Bad(m)>> ELSE <<<<m, 1>>, <<m, 2>>>>)
    \o (IF AloneBy(c, m) THEN <<>> ELSE <<Space>>) \o <<<<m, 3>>>>

FrameBy(c, m) == BytesBy(c, m) \o <<CR, LF>>

(* How the whole stream looks, and what is kept of a part of it.           *)
View(c) ==
  [i \in 1 .. Bytes |-> FrameBy(c, MessageAt(i))[i - Before(MessageAt(i))]]

BeginsAt(m) == 6 * m - 6

IsTextOf(i, m) == BeginsAt(m) + 1 <= i /\ i <= BeginsAt(m) + 4 /\ i # BeginsAt(m) + 3

IsText(i)  == i \in 1 .. Bytes /\ \E m \in 1 .. Sent : IsTextOf(i, m)
IsSpace(i) == i \in 1 .. Bytes /\ \E m \in 1 .. Sent : i = BeginsAt(m) + 3

IsKept(c, i) == IsText(i) \/ (IsSpace(i) /\ ~(i - 1 \in c /\ i \in c))

TextPlaces(c, lo, hi) == {i \in lo .. hi : IsKept(c, i)}
ViewText(c, lo, hi)   == At(View(c), TextPlaces(c, lo, hi))

LEMMA BeforeIs ==
  ASSUME NEW m \in Int
  PROVE  Before(m) = BeginsAt(m) /\ Before(m + 1) = 6 * m
<1>1. (m - 1) * 6 = 6 * m - 6 /\ ((m + 1) - 1) * 6 = 6 * m
  OBVIOUS
<1>2. QED BY <1>1 DEF Before, FrameLength, BeginsAt

LEMMA BytesIs == Sent \in Nat /\ Sent >= 1 /\ Bytes \in Nat /\ Bytes = 6 * Sent
<1>1. Sent \in Nat /\ Sent >= 1
  BY SentAssumption
<1>2. QED BY <1>1 DEF Bytes, FrameLength

Within(i, m) == BeginsAt(m) + 1 <= i /\ i <= BeginsAt(m) + 6

LEMMA MessageAtIs ==
  ASSUME NEW m \in 1 .. Sent, NEW i \in Int, Within(i, m)
  PROVE  i \in 1 .. Bytes /\ MessageAt(i) = m /\ Before(m) = BeginsAt(m)
<1>1. Before(m) = BeginsAt(m) /\ Before(m + 1) = 6 * m
  BY BeforeIs
<1>2. i \in Before(m) + 1 .. Before(m + 1)
  BY <1>1 DEF Within, BeginsAt
<1>3. ASSUME NEW l \in 1 .. Sent, i \in Before(l) + 1 .. Before(l + 1) PROVE l = m
  <2>1. Before(l) = BeginsAt(l) /\ Before(l + 1) = 6 * l
    BY BeforeIs
  <2>2. QED BY <1>3, <2>1 DEF Within, BeginsAt
<1>4. MessageAt(i) = m
  BY <1>2, <1>3 DEF MessageAt
<1>5. i \in 1 .. Bytes
  BY BytesIs DEF Within, BeginsAt
<1>6. QED BY <1>1, <1>4, <1>5

LEMMA HasMessage ==
  ASSUME NEW i \in 1 .. Bytes
  PROVE  \E m \in 1 .. Sent : Within(i, m)
<1> DEFINE M == {m \in 0 .. Sent : i <= 6 * m}
<1>1. M # {} /\ M \subseteq 0 .. Sent /\ Sent \in Nat
  <2>1. Sent \in M
    BY BytesIs
  <2>2. QED BY <2>1, BytesIs
<1>2. PICK m \in M : \A l \in M : m <= l
  <2> HIDE DEF M
  <2>1. QED BY <1>1, LeastPlace
<1>3. m \in 1 .. Sent /\ i <= 6 * m
  BY BytesIs
<1>4. m - 1 \notin M
  <2>1. ~(m <= m - 1)
    BY <1>3, BytesIs
  <2>2. QED BY <1>2, <2>1
<1>5. m - 1 \in 0 .. Sent
  BY <1>3, BytesIs
<1>6. ~(i <= 6 * (m - 1))
  BY <1>4, <1>5
<1>7. QED BY <1>3, <1>6, BytesIs DEF Within, BeginsAt

LEMMA FrameIs ==
  ASSUME NEW m
  PROVE  /\ Frame(m)[1] = <<m, 1>> /\ Frame(m)[2] = <<m, 2>>
         /\ Frame(m)[3] = Space /\ Frame(m)[4] = <<m, 3>>
         /\ Frame(m)[5] = CR /\ Frame(m)[6] = LF
<1>1. Frame(m) = <<<<m, 1>>, <<m, 2>>, Space, <<m, 3>>>> \o <<CR, LF>>
  BY DEF Frame, Text
<1>2. QED BY <1>1

LEMMA BytesByIs ==
  ASSUME NEW c, NEW m
  PROVE  /\ BytesBy(c, m)[1] \in {<<m, 0>>, <<m, 1>>}
         /\ BytesBy(c, m)[2] \in {<<m, 0>>, <<m, 2>>}
         /\ BytesBy(c, m)[3] = Space /\ BytesBy(c, m)[4] = <<m, 3>>
BY DEF BytesBy, Bad, Text

LEMMA FrameByIs ==
  ASSUME NEW c, NEW m
  PROVE  /\ \A k \in 1 .. 4 : FrameBy(c, m)[k] = BytesBy(c, m)[k]
         /\ FrameBy(c, m)[5] = CR /\ FrameBy(c, m)[6] = LF
<1>1. PICK v, w : BytesBy(c, m) = <<v, w, Space, <<m, 3>>>>
  BY DEF BytesBy, Text
<1>2. FrameBy(c, m) = <<v, w, Space, <<m, 3>>>> \o <<CR, LF>>
  BY <1>1 DEF FrameBy
<1>3. QED BY <1>1, <1>2

(* What is written and what is seen, byte by byte.                         *)
LEMMA StreamIs ==
  ASSUME NEW c, NEW m \in 1 .. Sent
  PROVE  /\ \A k \in 1 .. 6 : BeginsAt(m) + k \in 1 .. Bytes
         /\ \A k \in 1 .. 4 : View(c)[BeginsAt(m) + k] = BytesBy(c, m)[k]
         /\ Stream[BeginsAt(m) + 1] = <<m, 1>> /\ Stream[BeginsAt(m) + 2] = <<m, 2>>
         /\ Stream[BeginsAt(m) + 3] = Space /\ Stream[BeginsAt(m) + 4] = <<m, 3>>
         /\ Stream[BeginsAt(m) + 5] = CR /\ Stream[BeginsAt(m) + 6] = LF
         /\ View(c)[BeginsAt(m) + 5] = CR /\ View(c)[BeginsAt(m) + 6] = LF
<1>1. ASSUME NEW k \in 1 .. 6
      PROVE  /\ BeginsAt(m) + k \in 1 .. Bytes
             /\ Stream[BeginsAt(m) + k] = Frame(m)[k]
             /\ View(c)[BeginsAt(m) + k] = FrameBy(c, m)[k]
  <2> DEFINE i == BeginsAt(m) + k
  <2>1. i \in Int /\ Within(i, m) /\ i - BeginsAt(m) = k
    BY DEF Within, BeginsAt
  <2> HIDE DEF i
  <2>2. i \in 1 .. Bytes /\ MessageAt(i) = m /\ Before(m) = BeginsAt(m)
    BY <2>1, MessageAtIs
  <2>3. i \in 1 .. Sent * FrameLength
    BY <2>2 DEF Bytes
  <2>4. Stream[i] = Frame(MessageAt(i))[i - Before(MessageAt(i))]
    BY <2>3 DEF Stream
  <2>5. View(c)[i] = FrameBy(c, MessageAt(i))[i - Before(MessageAt(i))]
    BY <2>2 DEF View
  <2>6. Stream[i] = Frame(m)[k] /\ View(c)[i] = FrameBy(c, m)[k]
    BY <2>1, <2>2, <2>4, <2>5
  <2>7. QED BY <2>2, <2>6 DEF i
<1>2. /\ 1 \in 1 .. 6 /\ 2 \in 1 .. 6 /\ 3 \in 1 .. 6 /\ 4 \in 1 .. 6 /\ 5 \in 1 .. 6 /\ 6 \in 1 .. 6
      /\ \A k \in 1 .. 4 : k \in 1 .. 6
  OBVIOUS
<1>3. \A k \in 1 .. 6 : BeginsAt(m) + k \in 1 .. Bytes
  BY <1>1
<1>4. \A k \in 1 .. 4 : View(c)[BeginsAt(m) + k] = BytesBy(c, m)[k]
  <2> TAKE k \in 1 .. 4
  <2>1. View(c)[BeginsAt(m) + k] = FrameBy(c, m)[k] /\ FrameBy(c, m)[k] = BytesBy(c, m)[k]
    BY <1>1, <1>2, FrameByIs
  <2>2. QED BY <2>1
<1>5. /\ Stream[BeginsAt(m) + 1] = <<m, 1>> /\ Stream[BeginsAt(m) + 2] = <<m, 2>>
      /\ Stream[BeginsAt(m) + 3] = Space /\ Stream[BeginsAt(m) + 4] = <<m, 3>>
      /\ Stream[BeginsAt(m) + 5] = CR /\ Stream[BeginsAt(m) + 6] = LF
  BY <1>1, <1>2, FrameIs
<1>6. View(c)[BeginsAt(m) + 5] = CR /\ View(c)[BeginsAt(m) + 6] = LF
  BY <1>1, <1>2, FrameByIs
<1>7. QED BY <1>3, <1>4, <1>5, <1>6

LEMMA NotWhite ==
  ASSUME NEW m \in 1 .. Sent, NEW k
  PROVE  <<m, k>> \notin WhiteSpace /\ <<m, k>> # Space
<1>1. m # 0
  BY BytesIs
<1>2. QED BY <1>1 DEF WhiteSpace, Terminator, CR, LF, Space

(* Which byte of its message a place holds.                                *)
LEMMA PlaceIs ==
  ASSUME NEW i \in Int, NEW m \in 1 .. Sent, NEW k \in 1 .. 6, i = BeginsAt(m) + k
  PROVE  /\ IsText(i) <=> k = 1 \/ k = 2 \/ k = 4
         /\ IsSpace(i) <=> k = 3
<1>1. i \in 1 .. Bytes
  BY StreamIs
<1>2. \A l \in 1 .. Sent : /\ IsTextOf(i, l) => l = m
                           /\ i = BeginsAt(l) + 3 => l = m
  BY BytesIs DEF IsTextOf, BeginsAt
<1>3. IsTextOf(i, m) <=> k = 1 \/ k = 2 \/ k = 4
  BY BytesIs DEF IsTextOf, BeginsAt
<1>4. i = BeginsAt(m) + 3 <=> k = 3
  BY BytesIs DEF BeginsAt
<1>5. QED BY <1>1, <1>2, <1>3, <1>4 DEF IsText, IsSpace

LEMMA TextPlace ==
  ASSUME NEW c, NEW i \in 1 .. Bytes
  PROVE  /\ View(c)[i] \notin WhiteSpace <=> IsText(i)
         /\ View(c)[i] \notin Terminator <=> IsText(i) \/ IsSpace(i)
         /\ View(c)[i] \in Chars
<1>1. PICK m \in 1 .. Sent : Within(i, m)
  BY HasMessage
<1> DEFINE k == i - BeginsAt(m)
<1>2. i \in Int /\ k \in 1 .. 6 /\ i = BeginsAt(m) + k
  BY <1>1, BytesIs DEF Within, BeginsAt
<1> HIDE DEF k
<1>3. k = 1 \/ k = 2 \/ k = 3 \/ k = 4 \/ k = 5 \/ k = 6
  BY <1>2
<1>4. (IsText(i) <=> k = 1 \/ k = 2 \/ k = 4) /\ (IsSpace(i) <=> k = 3)
  BY <1>2, PlaceIs
<1>5. /\ 1 \in 1 .. 4 /\ 2 \in 1 .. 4 /\ 3 \in 1 .. 4 /\ 4 \in 1 .. 4
      /\ 0 \in 0 .. 3 /\ 1 \in 0 .. 3 /\ 2 \in 0 .. 3 /\ 3 \in 0 .. 3
  OBVIOUS
<1>6. CASE k = 1 \/ k = 2 \/ k = 4
  <2>1. View(c)[i] = BytesBy(c, m)[k]
    BY <1>2, <1>5, <1>6, StreamIs
  <2>2. \E l \in 0 .. 3 : BytesBy(c, m)[k] = <<m, l>>
    <3>1. /\ BytesBy(c, m)[1] = <<m, 0>> \/ BytesBy(c, m)[1] = <<m, 1>>
          /\ BytesBy(c, m)[2] = <<m, 0>> \/ BytesBy(c, m)[2] = <<m, 2>>
          /\ BytesBy(c, m)[4] = <<m, 3>>
      BY BytesByIs
    <3>2. QED BY <1>5, <1>6, <3>1
  <2>3. PICK l \in 0 .. 3 : View(c)[i] = <<m, l>>
    BY <2>1, <2>2
  <2>4. View(c)[i] \notin WhiteSpace /\ View(c)[i] \in Chars
    BY <2>3, NotWhite DEF Chars
  <2>5. QED BY <1>4, <1>6, <2>4 DEF WhiteSpace
<1>7. CASE k = 3
  <2>1. View(c)[i] = Space
    BY <1>2, <1>5, <1>7, StreamIs, BytesByIs
  <2>2. Space \in WhiteSpace /\ Space \notin Terminator /\ Space \in Chars
    BY DEF WhiteSpace, Terminator, Space, CR, LF, Chars
  <2>3. QED BY <1>4, <1>7, <2>1, <2>2
<1>8. CASE k = 5 \/ k = 6
  <2>1. View(c)[i] = CR \/ View(c)[i] = LF
    BY <1>2, <1>8, StreamIs
  <2>2. View(c)[i] \in WhiteSpace /\ View(c)[i] \in Terminator /\ View(c)[i] \in Chars
    BY <2>1 DEF WhiteSpace, Terminator, Chars
  <2>3. ~IsText(i) /\ ~IsSpace(i)
    BY <1>4, <1>8
  <2>4. QED BY <2>2, <2>3
<1>9. QED BY <1>3, <1>6, <1>7, <1>8

LEMMA TextPlacesAre ==
  ASSUME NEW c, NEW lo \in Nat, lo >= 1, NEW hi \in Int, hi <= Bytes
  PROVE  /\ TextPlaces(c, lo, hi) = {i \in lo .. hi : IsKept(c, i)}
         /\ TextPlaces(c, lo, hi) \subseteq 1 .. Bytes
<1>1. \A i \in lo .. hi : i \in 1 .. Bytes
  BY BytesIs
<1>2. QED BY <1>1 DEF TextPlaces

LEMMA BytesBound ==
  ASSUME NEW S, S \subseteq 1 .. Bytes
  PROVE  Bounded(S)
BY BytesIs DEF Bounded

LEMMA ViewTextType ==
  ASSUME NEW c, NEW lo \in Nat, lo >= 1, NEW hi \in Int, hi <= Bytes
  PROVE  ViewText(c, lo, hi) \in Seq(Chars)
<1>1. TextPlaces(c, lo, hi) \subseteq 1 .. Bytes /\ Bytes \in Nat
  BY TextPlacesAre, BytesIs
<1>2. \A i \in TextPlaces(c, lo, hi) : View(c)[i] \in Chars
  BY <1>1, TextPlace
<1>3. Bounded(TextPlaces(c, lo, hi))
  BY <1>1, BytesBound
<1>4. QED BY <1>2, <1>3, AtType DEF ViewText

LEMMA ViewTextNone ==
  ASSUME NEW c, NEW lo \in Nat, lo >= 1, NEW hi \in Int, hi <= Bytes, \A i \in lo .. hi : ~IsKept(c, i)
  PROVE  ViewText(c, lo, hi) = <<>>
<1>1. TextPlaces(c, lo, hi) = {}
  BY TextPlacesAre
<1>2. QED BY <1>1, AtNone DEF ViewText

Parts(lo, mid, hi) ==
  /\ lo \in Nat /\ mid \in Nat /\ hi \in Nat
  /\ 1 <= lo /\ lo <= mid + 1 /\ mid <= hi /\ hi <= Bytes

LEMMA ViewTextConcat ==
  ASSUME NEW c, NEW lo, NEW mid, NEW hi, Parts(lo, mid, hi)
  PROVE  IsConcat(ViewText(c, lo, hi), ViewText(c, lo, mid), ViewText(c, mid + 1, hi))
<1> DEFINE S == TextPlaces(c, lo, mid)
           T == TextPlaces(c, mid + 1, hi)
<1>0. /\ lo \in Nat /\ mid \in Nat /\ hi \in Nat
      /\ lo >= 1 /\ lo <= mid + 1 /\ mid <= hi /\ hi <= Bytes
  BY DEF Parts
<1>1. /\ S = {i \in lo .. mid : IsKept(c, i)} /\ T = {i \in mid + 1 .. hi : IsKept(c, i)}
      /\ TextPlaces(c, lo, hi) = {i \in lo .. hi : IsKept(c, i)}
      /\ S \subseteq 1 .. Bytes /\ T \subseteq 1 .. Bytes /\ Bytes \in Nat
      /\ TextPlaces(c, lo, hi) \subseteq 1 .. Bytes
  BY <1>0, TextPlacesAre, BytesIs
<1>2. TextPlaces(c, lo, hi) = S \cup T
  <2>1. \A i : i \in lo .. hi <=> (i \in lo .. mid \/ i \in mid + 1 .. hi)
    BY <1>0
  <2>2. QED BY <1>1, <2>1
<1>3. Precedes(S, T)
  <2>1. \A x \in lo .. mid, y \in mid + 1 .. hi : x < y
    BY <1>0
  <2>2. S \subseteq lo .. mid /\ T \subseteq mid + 1 .. hi
    BY <1>1
  <2> HIDE DEF S, T
  <2>3. QED BY <2>1, <2>2 DEF Precedes
<1> HIDE DEF S, T
<1> DEFINE U == TextPlaces(c, lo, hi)
<1>4. U = S \cup T
  BY <1>2
<1> HIDE DEF U
<1>5. AreIn(View(c), U, Chars)
  <2>1. \A x \in U : x \in 1 .. Bytes
    BY <1>1, <1>4
  <2>2. QED BY <2>1, TextPlace DEF AreIn
<1>6. IsConcat(At(View(c), U), At(View(c), S), At(View(c), T))
  <2>1. Bounded(S) /\ Bounded(T)
    BY <1>1, BytesBound
  <2>2. QED BY <1>3, <1>4, <1>5, <2>1, AtConcat
<1>7. QED BY <1>6 DEF ViewText, S, T, U

LEMMA PutAfter ==
  ASSUME NEW C, NEW u \in Seq(C), NEW z \in C, NEW t \in Seq(C), Len(t) = Len(u) + 1,
         \A i \in 1 .. Len(u) : t[i] = u[i], t[Len(u) + 1] = z
  PROVE  u \o <<z>> = t
<1> DEFINE o == <<z>>
           p == u \o o
<1>1. o \in Seq(C) /\ Len(o) = 1 /\ o[1] = z
  OBVIOUS
<1> HIDE DEF o
<1>2. /\ p \in Seq(C) /\ Len(p) = Len(u) + 1
      /\ \A i \in 1 .. Len(u) + 1 : p[i] = IF i <= Len(u) THEN u[i] ELSE o[i - Len(u)]
  <2>1. /\ u \o o \in Seq(C) /\ Len(u \o o) = Len(u) + Len(o)
        /\ \A i \in 1 .. Len(u) + Len(o) : (u \o o)[i] = IF i <= Len(u) THEN u[i] ELSE o[i - Len(u)]
    BY <1>1, ConcatProperties
  <2> HIDE DEF p
  <2>2. p \in Seq(C) /\ Len(p) = Len(u) + Len(o)
    BY <2>1 DEF p
  <2>3. \A i \in 1 .. Len(u) + Len(o) : p[i] = IF i <= Len(u) THEN u[i] ELSE o[i - Len(u)]
    BY <2>1, Zenon DEF p
  <2>4. QED BY <1>1, <2>2, <2>3
<1> HIDE DEF p
<1>3. Len(u) \in Nat
  BY LenProperties
<1>4. ASSUME NEW i \in 1 .. Len(u) + 1 PROVE p[i] = t[i]
  <2>1. CASE i <= Len(u)
    <3>1. i \in 1 .. Len(u)
      BY <1>3, <2>1
    <3>2. QED BY <1>2, <2>1, <3>1
  <2>2. CASE ~(i <= Len(u))
    <3>1. i = Len(u) + 1 /\ i - Len(u) = 1
      BY <1>3, <2>2
    <3>2. QED BY <1>1, <1>2, <2>2, <3>1
  <2>3. QED BY <2>1, <2>2
<1>5. QED BY <1>2, <1>4, SeqEqual DEF p, o

LEMMA Pieces ==
  ASSUME NEW v, NEW w, NEW s, NEW z
  PROVE  /\ <<v, w>> \o <<>> \o <<z>> = <<v, w, z>>
         /\ <<v, w>> \o <<s>> \o <<z>> = <<v, w, s, z>>
<1> DEFINE C == {v, w, s, z}
           two == <<v, w>>
           three == <<v, w, z>>
           spaced == <<v, w, s>>
           four == <<v, w, s, z>>
<1>1. /\ two \in Seq(C) /\ Len(two) = 2 /\ two[1] = v /\ two[2] = w
      /\ three \in Seq(C) /\ Len(three) = 3 /\ three[1] = v /\ three[2] = w /\ three[3] = z
      /\ spaced \in Seq(C) /\ Len(spaced) = 3 /\ spaced[1] = v /\ spaced[2] = w /\ spaced[3] = s
      /\ four \in Seq(C) /\ Len(four) = 4
      /\ four[1] = v /\ four[2] = w /\ four[3] = s /\ four[4] = z
      /\ s \in C /\ z \in C
  OBVIOUS
<1> HIDE DEF C, two, three, spaced, four
<1>2. /\ \A i \in 1 .. 2 : i = 1 \/ i = 2
      /\ \A i \in 1 .. 3 : i = 1 \/ i = 2 \/ i = 3
  OBVIOUS
<1>3. two \o <<>> = two
  BY <1>1, ConcatEmptySeq
<1>4. two \o <<z>> = three
  <2>1. \A i \in 1 .. Len(two) : three[i] = two[i]
    BY <1>1, <1>2
  <2>2. Len(three) = Len(two) + 1 /\ three[Len(two) + 1] = z
    BY <1>1
  <2>3. QED BY <1>1, <2>1, <2>2, PutAfter
<1>5. two \o <<s>> = spaced
  <2>1. \A i \in 1 .. Len(two) : spaced[i] = two[i]
    BY <1>1, <1>2
  <2>2. Len(spaced) = Len(two) + 1 /\ spaced[Len(two) + 1] = s
    BY <1>1
  <2>3. QED BY <1>1, <2>1, <2>2, PutAfter
<1>6. spaced \o <<z>> = four
  <2>1. \A i \in 1 .. Len(spaced) : four[i] = spaced[i]
    BY <1>1, <1>2
  <2>2. Len(four) = Len(spaced) + 1 /\ four[Len(spaced) + 1] = z
    BY <1>1
  <2>3. QED BY <1>1, <2>1, <2>2, PutAfter
<1>7. QED BY <1>3, <1>4, <1>5, <1>6 DEF two, three, spaced, four

(* The text of one message, with its terminator or without.                *)
LEMMA ViewTextOne ==
  ASSUME NEW c, NEW m \in 1 .. Sent, NEW e \in 4 .. 6
  PROVE  ViewText(c, BeginsAt(m) + 1, BeginsAt(m) + e) = SeenBy(c, m)
<1> DEFINE b == BeginsAt(m)
           v == BytesBy(c, m)
<1>1. b \in Nat /\ b + e \in Nat /\ b + e <= Bytes /\ b = 6 * m - 6 /\ m \in Nat /\ Before(m) = b
  BY BytesIs, BeforeIs DEF BeginsAt
<1>2. TextPlaces(c, b + 1, b + e) = {i \in b + 1 .. b + e : IsKept(c, i)}
  BY <1>1, TextPlacesAre
<1>3. /\ View(c)[b + 1] = v[1] /\ View(c)[b + 2] = v[2]
      /\ View(c)[b + 3] = Space /\ View(c)[b + 4] = <<m, 3>>
  <2>1. 1 \in 1 .. 4 /\ 2 \in 1 .. 4 /\ 3 \in 1 .. 4 /\ 4 \in 1 .. 4
    OBVIOUS
  <2>2. QED BY <2>1, StreamIs, BytesByIs
<1>4. (IF Before(m) + 1 \in c THEN <<Bad(m), Bad(m)>> ELSE <<<<m, 1>>, <<m, 2>>>>) = <<v[1], v[2]>>
  BY DEF BytesBy, Text
<1>5. ASSUME NEW i \in b + 1 .. b + e
      PROVE  IsKept(c, i) <=> i = b + 1 \/ i = b + 2 \/ i = b + 4 \/ (i = b + 3 /\ ~AloneBy(c, m))
  <2> DEFINE k == i - b
  <2>1. i \in Int /\ k \in 1 .. 6 /\ i = BeginsAt(m) + k
    BY <1>1
  <2>2. /\ k = 1 <=> i = b + 1
        /\ k = 2 <=> i = b + 2
        /\ k = 3 <=> i = b + 3
        /\ k = 4 <=> i = b + 4
    BY <1>1
  <2> HIDE DEF k
  <2>3. (IsText(i) <=> k = 1 \/ k = 2 \/ k = 4) /\ (IsSpace(i) <=> k = 3)
    BY <2>1, PlaceIs
  <2>4. k = 3 => (AloneBy(c, m) <=> i - 1 \in c /\ i \in c)
    <3>1. k = 3 => i - 1 = Before(m) + 2 /\ i = Before(m) + 3
      BY <1>1, <2>2
    <3>2. QED BY <3>1 DEF AloneBy
  <2> HIDE DEF b
  <2>5. QED BY <2>2, <2>3, <2>4 DEF IsKept
<1> HIDE DEF b, v
<1>6. CASE AloneBy(c, m)
  <2> DEFINE q == <<b + 1, b + 2, b + 4>>
             S == {b + 1, b + 2, b + 4}
  <2>1. TextPlaces(c, b + 1, b + e) = S
    BY <1>1, <1>2, <1>5, <1>6
  <2>2. q \in Seq(S) /\ Len(q) = 3 /\ q[1] = b + 1 /\ q[2] = b + 2 /\ q[3] = b + 4
    OBVIOUS
  <2>3. S \subseteq Nat /\ \A x \in S : x = b + 1 \/ x = b + 2 \/ x = b + 4
    BY <1>1
  <2> HIDE DEF q, S
  <2>4. Ordered(q, S)
    <3>1. \A i \in 1 .. 3 : i = 1 \/ i = 2 \/ i = 3
      OBVIOUS
    <3>2. \A i, j \in 1 .. 3 : i < j => q[i] < q[j]
      BY <1>1, <2>2, <3>1
    <3>3. \A x \in S : \E i \in 1 .. 3 : x = q[i]
      <4>1. 1 \in 1 .. 3 /\ 2 \in 1 .. 3 /\ 3 \in 1 .. 3
        OBVIOUS
      <4>2. QED BY <2>2, <2>3, <4>1
    <3>4. QED BY <2>2, <3>2, <3>3 DEF Ordered
  <2>5. At(View(c), S) = Listed(View(c), q)
    BY <2>3, <2>4, AtIs
  <2>6. Listed(View(c), q) = <<v[1], v[2], <<m, 3>>>>
    <3>1. Listed(View(c), q) = [k \in 1 .. 3 |-> View(c)[q[k]]]
      BY <2>2 DEF Listed
    <3>2. \A k \in 1 .. 3 : View(c)[q[k]] = <<v[1], v[2], <<m, 3>>>>[k]
      <4>1. \A k \in 1 .. 3 : k = 1 \/ k = 2 \/ k = 3
        OBVIOUS
      <4>2. QED BY <1>3, <2>2, <4>1
    <3>3. QED BY <3>1, <3>2
  <2>7. SeenBy(c, m) = <<v[1], v[2], <<m, 3>>>>
    <3>1. SeenBy(c, m) = <<v[1], v[2]>> \o <<>> \o <<<<m, 3>>>>
      BY <1>4, <1>6 DEF SeenBy
    <3>2. QED BY <3>1, Pieces
  <2>8. QED BY <2>1, <2>5, <2>6, <2>7 DEF ViewText, b
<1>7. CASE ~AloneBy(c, m)
  <2> DEFINE lo == b + 1
             hi == b + 4
             u == <<v[1], v[2], Space, <<m, 3>>>>
  <2>1. TextPlaces(c, b + 1, b + e) = lo .. hi
    <3>1. \A i : i \in lo .. hi <=> /\ i \in b + 1 .. b + e
                                    /\ i = b + 1 \/ i = b + 2 \/ i = b + 4 \/ i = b + 3
      BY <1>1
    <3>2. QED BY <1>2, <1>5, <1>7, <3>1
  <2>2. lo \in Nat /\ hi \in Int /\ lo <= hi + 1 /\ hi + 1 - lo = 4
    BY <1>1
  <2>3. \A k \in 1 .. 4 : lo + k - 1 = b + k
    BY <1>1
  <2>4. \A k \in 1 .. 4 : View(c)[b + k] = u[k]
    <3>1. \A k \in 1 .. 4 : k = 1 \/ k = 2 \/ k = 3 \/ k = 4
      OBVIOUS
    <3>2. QED BY <1>3, <3>1
  <2>5. u = [k \in 1 .. 4 |-> u[k]]
    OBVIOUS
  <2>6. SeenBy(c, m) = u
    <3>1. SeenBy(c, m) = <<v[1], v[2]>> \o <<Space>> \o <<<<m, 3>>>>
      BY <1>4, <1>7 DEF SeenBy
    <3>2. QED BY <3>1, Pieces
  <2> HIDE DEF lo, hi, u
  <2>7. At(View(c), lo .. hi) = [k \in 1 .. 4 |-> View(c)[b + k]]
    <3>1. At(View(c), lo .. hi) = Stretch(View(c), lo, 4)
      BY <2>2, AtInterval
    <3>2. QED BY <2>3, <3>1 DEF Stretch
  <2>8. At(View(c), lo .. hi) = u
    BY <2>4, <2>5, <2>7
  <2>9. QED BY <2>1, <2>6, <2>8 DEF ViewText, b
<1>8. QED BY <1>6, <1>7

-----------------------------------------------------------------------------
(* One buffer: the n bytes after the first r.                              *)

BufferAt(c, r, n) ==
  /\ r \in Nat /\ n \in Nat /\ n >= 1 /\ r + n <= Bytes
  /\ (r > 0 => r \in c) /\ r + n \in c
  /\ \A i \in c : i \in Nat /\ (i <= r \/ i = r + n)

(* It is decoded to what is seen of the stream.                            *)
DecodedAs(d, c, r, n) ==
  /\ d \in Seq(Chars) /\ Len(d) = n
  /\ \A i \in 1 .. n : d[i] = View(c)[r + i]

LEMMA DecodeIs ==
  ASSUME NEW c, NEW r, NEW n, BufferAt(c, r, n)
  PROVE  DecodedAs(Decode(SubSeq(Stream, r + 1, r + n)), c, r, n)
<1> DEFINE bytes == SubSeq(Stream, r + 1, r + n)
           d == Decode(bytes)
<1>1. /\ r \in Nat /\ n \in Nat /\ n >= 1 /\ r + n <= Bytes
      /\ (r > 0 => r \in c) /\ r + n \in c
      /\ \A i \in c : i \in Nat /\ (i <= r \/ i = r + n)
  BY DEF BufferAt
<1>2. /\ Len(bytes) = n /\ DOMAIN bytes = 1 .. n
      /\ \A i \in 1 .. n : bytes[i] = Stream[r + i]
  <2>1. bytes = [i \in 1 .. n |-> Stream[r + i]]
    <3>1. bytes = [i \in 1 .. (r + n) - (r + 1) + 1 |-> Stream[(r + 1) + i - 1]]
      BY <1>1
    <3>2. (r + n) - (r + 1) + 1 = n /\ \A i \in 1 .. n : (r + 1) + i - 1 = r + i
      BY <1>1
    <3> HIDE DEF bytes
    <3>3. QED BY <3>1, <3>2
  <2> HIDE DEF bytes
  <2>2. QED BY <1>1, <2>1
<1> HIDE DEF bytes
<1>3. d = [i \in 1 .. n |->
             IF \/ i = 1 /\ bytes[i] \in {<<m, 2>> : m \in 1 .. Sent}
                \/ i = n /\ bytes[i] \in {<<m, 1>> : m \in 1 .. Sent}
             THEN Bad(bytes[i][1]) ELSE bytes[i]]
  BY <1>2 DEF Decode
<1> HIDE DEF d
<1>4. ASSUME NEW i \in 1 .. n PROVE d[i] = View(c)[r + i]
  <2>1. i \in Int /\ r + i \in 1 .. Bytes
    BY <1>1, BytesIs
  <2>2. PICK m \in 1 .. Sent : Within(r + i, m)
    BY <2>1, HasMessage
  <2> DEFINE k == r + i - BeginsAt(m)
  <2>3. BeginsAt(m) = 6 * m - 6 /\ Before(m) = BeginsAt(m) /\ m \in Nat
    BY BeforeIs, BytesIs DEF BeginsAt
  <2>4. k \in 1 .. 6 /\ BeginsAt(m) + k = r + i /\ BeginsAt(m) \in Nat
    BY <1>1, <2>1, <2>2, <2>3, BytesIs DEF Within
  <2> HIDE DEF k
  <2>5. k = 1 \/ k = 2 \/ k = 3 \/ k = 4 \/ k = 5 \/ k = 6
    BY <2>4
  <2>6. d[i] = IF \/ i = 1 /\ Stream[r + i] \in {<<l, 2>> : l \in 1 .. Sent}
                  \/ i = n /\ Stream[r + i] \in {<<l, 1>> : l \in 1 .. Sent}
               THEN Bad(Stream[r + i][1]) ELSE Stream[r + i]
    BY <1>2, <1>3
  <2>7. CASE k = 1
    <3>1. Stream[r + i] = <<m, 1>> /\ View(c)[r + i] = BytesBy(c, m)[1]
      <4>1. 1 \in 1 .. 4
        OBVIOUS
      <4>2. QED BY <2>4, <2>7, <4>1, StreamIs
    <3>2. Before(m) + 1 \in c <=> i = n
      BY <1>1, <2>1, <2>3, <2>4, <2>7
    <3>3. BytesBy(c, m)[1] = IF i = n THEN <<m, 0>> ELSE <<m, 1>>
      BY <3>2 DEF BytesBy, Bad, Text
    <3>4. d[i] = IF i = n THEN <<m, 0>> ELSE <<m, 1>>
      <4>1. <<m, 1>> \notin {<<l, 2>> : l \in 1 .. Sent} /\ <<m, 1>> \in {<<l, 1>> : l \in 1 .. Sent}
        OBVIOUS
      <4>2. Bad(<<m, 1>>[1]) = <<m, 0>>
        BY DEF Bad
      <4>3. QED BY <2>6, <3>1, <4>1, <4>2
    <3>5. QED BY <3>1, <3>3, <3>4
  <2>8. CASE k = 2
    <3>1. Stream[r + i] = <<m, 2>> /\ View(c)[r + i] = BytesBy(c, m)[2]
      <4>1. 2 \in 1 .. 4
        OBVIOUS
      <4>2. QED BY <2>4, <2>8, <4>1, StreamIs
    <3>2. Before(m) + 1 \in c <=> i = 1
      BY <1>1, <2>1, <2>3, <2>4, <2>8
    <3>3. BytesBy(c, m)[2] = IF i = 1 THEN <<m, 0>> ELSE <<m, 2>>
      BY <3>2 DEF BytesBy, Bad, Text
    <3>4. d[i] = IF i = 1 THEN <<m, 0>> ELSE <<m, 2>>
      <4>1. <<m, 2>> \in {<<l, 2>> : l \in 1 .. Sent} /\ <<m, 2>> \notin {<<l, 1>> : l \in 1 .. Sent}
        OBVIOUS
      <4>2. Bad(<<m, 2>>[1]) = <<m, 0>>
        BY DEF Bad
      <4>3. QED BY <2>6, <3>1, <4>1, <4>2
    <3>5. QED BY <3>1, <3>3, <3>4
  <2>9. CASE k = 4
    <3>1. Stream[r + i] = <<m, 3>> /\ View(c)[r + i] = BytesBy(c, m)[4]
      <4>1. 4 \in 1 .. 4
        OBVIOUS
      <4>2. QED BY <2>4, <2>9, <4>1, StreamIs
    <3>2. <<m, 3>> \notin {<<l, 2>> : l \in 1 .. Sent} /\ <<m, 3>> \notin {<<l, 1>> : l \in 1 .. Sent}
      OBVIOUS
    <3>3. QED BY <2>6, <3>1, <3>2, BytesByIs
  <2>10. CASE k = 3 \/ k = 5 \/ k = 6
    <3>1. /\ View(c)[r + i] = Stream[r + i]
          /\ Stream[r + i] = CR \/ Stream[r + i] = LF \/ Stream[r + i] = Space
      <4>1. 3 \in 1 .. 4
        OBVIOUS
      <4>2. k = 3 => View(c)[r + i] = Space /\ Stream[r + i] = Space
        BY <2>4, <4>1, StreamIs, BytesByIs
      <4>3. QED BY <2>4, <2>10, <4>2, StreamIs
    <3>2. ASSUME NEW l \in 1 .. Sent
          PROVE  /\ CR # <<l, 1>> /\ CR # <<l, 2>> /\ LF # <<l, 1>> /\ LF # <<l, 2>>
                 /\ Space # <<l, 1>> /\ Space # <<l, 2>>
      <4>1. l # 0
        BY BytesIs
      <4>2. QED BY <4>1 DEF CR, LF, Space
    <3>3. Stream[r + i] \notin {<<l, 2>> : l \in 1 .. Sent} /\ Stream[r + i] \notin {<<l, 1>> : l \in 1 .. Sent}
      BY <3>1, <3>2
    <3>4. QED BY <2>6, <3>1, <3>3
  <2>11. QED BY <2>5, <2>7, <2>8, <2>9, <2>10
<1>5. d \in Seq(Chars) /\ Len(d) = n
  <2>1. \A i \in 1 .. n : d[i] \in Chars
    <3>1. \A i \in 1 .. n : r + i \in 1 .. Bytes
      BY <1>1, BytesIs
    <3>2. QED BY <1>4, <3>1, TextPlace
  <2>2. d = [i \in 1 .. n |-> d[i]]
    BY <1>3
  <2>3. QED BY <1>1, <2>1, <2>2
<1>6. QED BY <1>4, <1>5 DEF DecodedAs, d, bytes

LEMMA TextIs ==
  ASSUME NEW i \in Int
  PROVE  IsText(i) <=> \E m \in 1 .. Sent : 6 * m - 5 <= i /\ i <= 6 * m - 2 /\ i # 6 * m - 3
<1>1. \A m \in 1 .. Sent : /\ IsTextOf(i, m) <=> 6 * m - 5 <= i /\ i <= 6 * m - 2 /\ i # 6 * m - 3
                           /\ IsTextOf(i, m) => i \in 1 .. Bytes
  BY BytesIs DEF BeginsAt, IsTextOf
<1>2. QED BY <1>1 DEF IsText

LEMMA KeptIs ==
  ASSUME NEW i \in Int, NEW c, IsKept(c, i)
  PROVE  \E m \in 1 .. Sent : 6 * m - 5 <= i /\ i <= 6 * m - 2
<1>1. CASE IsText(i)
  BY <1>1, TextIs
<1>2. CASE ~IsText(i)
  <2>1. PICK m \in 1 .. Sent : i = BeginsAt(m) + 3
    BY <1>2 DEF IsKept, IsSpace
  <2>2. QED BY <2>1, BytesIs DEF BeginsAt
<1>3. QED BY <1>1, <1>2

(* Where the terminators are.                                              *)
LEMMA TerminatorPlace ==
  ASSUME NEW c, NEW i \in 1 .. Bytes
  PROVE  /\ View(c)[i] = CR <=> \E m \in 1 .. Sent : i = 6 * m - 1
         /\ View(c)[i] = LF <=> \E m \in 1 .. Sent : i = 6 * m
<1>1. PICK m \in 1 .. Sent : Within(i, m)
  BY HasMessage
<1> DEFINE k == i - BeginsAt(m)
<1>2. i \in Int /\ k \in 1 .. 6 /\ i = BeginsAt(m) + k /\ BeginsAt(m) = 6 * m - 6 /\ m \in Nat
  BY <1>1, BytesIs DEF Within, BeginsAt
<1> HIDE DEF k
<1>3. /\ \A l \in 1 .. Sent : i = 6 * l - 1 => l = m /\ k = 5
      /\ \A l \in 1 .. Sent : i = 6 * l => l = m /\ k = 6
      /\ k = 5 => i = 6 * m - 1
      /\ k = 6 => i = 6 * m
  BY <1>2, BytesIs
<1>4. CR # LF /\ CR \in Terminator /\ LF \in Terminator
  BY DEF CR, LF, Terminator
<1>5. CASE k \in 1 .. 4
  <2>1. k = 1 \/ k = 2 \/ k = 3 \/ k = 4
    BY <1>5
  <2>2. IsText(i) \/ IsSpace(i)
    BY <1>2, <2>1, PlaceIs
  <2>3. View(c)[i] # CR /\ View(c)[i] # LF
    BY <1>4, <2>2, TextPlace
  <2>4. k # 5 /\ k # 6
    BY <1>5
  <2>5. QED BY <1>3, <2>3, <2>4
<1>6. CASE k = 5
  <2>1. View(c)[i] = CR
    BY <1>2, <1>6, StreamIs
  <2>2. k # 6
    BY <1>6
  <2>3. QED BY <1>3, <1>4, <1>6, <2>1, <2>2
<1>7. CASE k = 6
  <2>1. View(c)[i] = LF
    BY <1>2, <1>7, StreamIs
  <2>2. k # 5
    BY <1>7
  <2>3. QED BY <1>3, <1>4, <1>7, <2>1, <2>2
<1>8. QED BY <1>2, <1>5, <1>6, <1>7

HasText(r, n) == \E i \in r + 1 .. r + n : IsText(i)
AllKept(c, r, n) == \A i \in r + 1 .. r + n : IsSpace(i) => IsKept(c, i)

(* A buffer with text keeps its spaces, and of one without nothing is kept.*)
LEMMA SpacesStay ==
  ASSUME NEW c, NEW r, NEW n, BufferAt(c, r, n), HasText(r, n)
  PROVE  AllKept(c, r, n)
<1>1. /\ r \in Nat /\ n \in Nat /\ n >= 1
      /\ \A i \in c : i \in Nat /\ (i <= r \/ i = r + n)
  BY DEF BufferAt
<1>2. PICK p \in r + 1 .. r + n : IsText(p)
  BY DEF HasText
<1>3. ASSUME NEW i \in r + 1 .. r + n, IsSpace(i), i - 1 \in c, i \in c PROVE FALSE
  <2>1. i \in Int /\ i = r + n
    BY <1>1, <1>3
  <2>2. i - 1 <= r
    BY <1>1, <1>3, <2>1
  <2>3. p = i
    BY <1>1, <1>2, <2>1, <2>2
  <2>4. PICK m \in 1 .. Sent : i = BeginsAt(m) + 3
    BY <1>3 DEF IsSpace
  <2>5. ~IsText(i)
    <3>1. 3 \in 1 .. 6
      OBVIOUS
    <3>2. QED BY <2>1, <2>4, <3>1, PlaceIs
  <2>6. QED BY <1>2, <2>3, <2>5
<1>4. QED BY <1>3 DEF AllKept, IsKept

LEMMA NothingKept ==
  ASSUME NEW c, NEW r, NEW n, BufferAt(c, r, n), ~HasText(r, n)
  PROVE  \A i \in r + 1 .. r + n : ~IsKept(c, i)
<1>1. r \in Nat /\ n \in Nat /\ r + n <= Bytes /\ (r > 0 => r \in c) /\ r + n \in c
  BY DEF BufferAt
<1>2. ASSUME NEW i \in r + 1 .. r + n PROVE ~IsKept(c, i)
  <2>1. ~IsText(i) /\ i \in Int
    BY <1>1 DEF HasText
  <2>2. ASSUME IsSpace(i) PROVE i - 1 \in c /\ i \in c
    <3>1. PICK m \in 1 .. Sent : i = BeginsAt(m) + 3
      BY <2>2 DEF IsSpace
    <3>2. i - 1 = BeginsAt(m) + 2 /\ i + 1 = BeginsAt(m) + 4 /\ i > 1 /\ i - 1 \in Int /\ i + 1 \in Int
      BY <3>1, BytesIs DEF BeginsAt
    <3>3. IsText(i - 1) /\ IsText(i + 1)
      <4>1. 2 \in 1 .. 6 /\ 4 \in 1 .. 6
        OBVIOUS
      <4>2. QED BY <3>2, <4>1, PlaceIs
    <3>4. i - 1 \notin r + 1 .. r + n /\ i + 1 \notin r + 1 .. r + n
      BY <3>3 DEF HasText
    <3>5. i - 1 = r /\ i = r + n /\ r > 0
      BY <1>1, <2>1, <3>2, <3>4
    <3>6. QED BY <1>1, <3>5
  <2>3. QED BY <2>1, <2>2 DEF IsKept
<1>3. QED BY <1>2

(* A part of a buffer.                                                     *)
LEMMA PartIs ==
  ASSUME NEW c, NEW r, NEW n, BufferAt(c, r, n), NEW d, DecodedAs(d, c, r, n),
         NEW f \in Nat, f >= 1, NEW t \in Nat, f <= t + 1, t <= n
  PROVE  /\ SubSeq(d, f, t) \in Seq(Chars)
         /\ AllKept(c, r, n) => TextOf(SubSeq(d, f, t)) = ViewText(c, r + f, r + t)
         /\ IsBlank(SubSeq(d, f, t)) <=> \A i \in r + f .. r + t : ~IsText(i)
<1> DEFINE line == SubSeq(d, f, t)
           len == t + 1 - f
           move == r + f - 1
<1>1. r \in Nat /\ n \in Nat /\ r + n <= Bytes /\ len \in Nat /\ move \in Int /\ move \in Nat
  BY DEF BufferAt
<1>2. d \in Seq(Chars) /\ Len(d) = n /\ \A i \in 1 .. n : d[i] = View(c)[r + i]
  BY DEF DecodedAs
<1>3. \A i \in f .. t : d[i] \in Chars
  <2>1. \A i \in f .. t : i \in 1 .. Len(d)
    BY <1>1, <1>2
  <2>2. QED BY <1>2, <2>1, ElementOfSeq
<1>4. /\ line \in Seq(Chars) /\ Len(line) = len
      /\ \A i \in 1 .. len : line[i] = d[f + i - 1]
  <2>1. IF f <= t THEN Len(line) = t - f + 1 ELSE Len(line) = 0
    BY <1>2, <1>3, SubSeqProperties
  <2>2. line \in Seq(Chars) /\ \A i \in 1 .. t - f + 1 : line[i] = d[f + i - 1]
    BY <1>2, <1>3, SubSeqProperties
  <2>3. t - f + 1 = len /\ (~(f <= t) => len = 0)
    OBVIOUS
  <2> HIDE DEF line, len
  <2>4. QED BY <2>1, <2>2, <2>3
<1>5. \A i \in 1 .. len : /\ f + i - 1 \in 1 .. n /\ r + (f + i - 1) = i + move
                         /\ i + move \in r + f .. r + t
  BY <1>1
<1> HIDE DEF line
<1>6. \A i \in 1 .. len : line[i] = View(c)[i + move]
  BY <1>2, <1>4, <1>5
<1>7. DOMAIN line = 1 .. len
  BY <1>1, <1>4, LenProperties
<1>8. ASSUME NEW i \in r + f .. r + t
      PROVE  i \in 1 .. Bytes /\ i - move \in 1 .. len /\ (i - move) + move = i
  BY <1>1, BytesIs
<1> HIDE DEF len, move
<1>9. \A i \in 1 .. len : i + move \in 1 .. Bytes /\ (line[i] \notin WhiteSpace <=> IsText(i + move))
                         /\ (line[i] \notin Terminator <=> IsText(i + move) \/ IsSpace(i + move))
  <2>1. \A i \in 1 .. len : i + move \in 1 .. Bytes
    BY <1>5, <1>8
  <2>2. QED BY <1>6, <2>1, TextPlace
<1> DEFINE S == {i \in DOMAIN line : line[i] \notin Terminator}
           T == TextPlaces(c, r + f, r + t)
<1>10. T = {i \in r + f .. r + t : IsKept(c, i)} /\ T \subseteq Nat
  <2>1. r + f \in Nat /\ r + f >= 1 /\ r + t \in Int /\ r + t <= Bytes
    BY <1>1, BytesIs
  <2>2. T = {i \in r + f .. r + t : IsKept(c, i)}
    BY <2>1, TextPlacesAre
  <2>3. \A i \in r + f .. r + t : i \in Nat
    BY <1>1
  <2> HIDE DEF T
  <2>4. QED BY <2>2, <2>3
<1>11. ASSUME AllKept(c, r, n) PROVE AreMoved(T, S, move)
  <2>0. ASSUME NEW i \in r + f .. r + t PROVE IsKept(c, i) <=> IsText(i) \/ IsSpace(i)
    <3>1. i \in r + 1 .. r + n
      BY <1>1
    <3>2. QED BY <1>11, <3>1 DEF AllKept, IsKept
  <2>1. ASSUME NEW i \in T PROVE i \in {x + move : x \in S}
    <3>1. i \in r + f .. r + t /\ (IsText(i) \/ IsSpace(i))
      BY <1>10, <2>0, <2>1
    <3>2. i - move \in S /\ (i - move) + move = i
      BY <1>7, <1>8, <1>9, <3>1
    <3>3. QED BY <3>2
  <2>2. ASSUME NEW x \in S PROVE x + move \in T
    <3>1. x \in 1 .. len /\ line[x] \notin Terminator
      BY <1>7
    <3>2. x + move \in r + f .. r + t /\ (IsText(x + move) \/ IsSpace(x + move))
      BY <1>5, <1>9, <3>1
    <3>3. QED BY <1>10, <2>0, <3>2
  <2>3. move \in Int /\ T \subseteq Nat
    BY <1>1, <1>10
  <2> HIDE DEF S, T
  <2>4. QED BY <2>1, <2>2, <2>3 DEF AreMoved
<1>12. S \subseteq 1 .. len /\ MovedBy(line, View(c), S, move)
  BY <1>6, <1>7 DEF MovedBy
<1>13. ASSUME AllKept(c, r, n) PROVE TextOf(line) = ViewText(c, r + f, r + t)
  <2>1. At(line, S) = At(View(c), T)
    <3>1. Bounded(S)
      BY <1>1, <1>12 DEF Bounded
    <3> HIDE DEF S, T
    <3>2. QED BY <1>11, <1>12, <1>13, <3>1, AtMoved
  <2>2. QED BY <2>1 DEF TextOf, ViewText
<1>14. IsBlank(line) <=> \A i \in r + f .. r + t : ~IsText(i)
  <2>1. IsBlank(line) <=> \A i \in 1 .. len : line[i] \in WhiteSpace
    BY <1>7 DEF IsBlank
  <2>2. (\A i \in 1 .. len : ~IsText(i + move)) <=> \A i \in r + f .. r + t : ~IsText(i)
    <3>1. ASSUME \A i \in 1 .. len : ~IsText(i + move), NEW i \in r + f .. r + t PROVE ~IsText(i)
      BY <1>8, <3>1
    <3>2. QED BY <1>5, <3>1
  <2>3. QED BY <1>9, <2>1, <2>2
<1>15. QED BY <1>4, <1>13, <1>14 DEF line

(* The terminators of a buffer are those of the messages from x to y.      *)
Terminators(x, y, r, n) ==
  /\ x \in 1 .. Sent + 1 /\ y \in 0 .. Sent /\ x <= y + 1
  /\ 6 * x - 7 <= r /\ r < 6 * x - 1
  /\ 6 * y <= r + n /\ r + n < 6 * y + 6

LEMMA HasTerminators ==
  ASSUME NEW c, NEW r, NEW n, BufferAt(c, r, n)
  PROVE  \E x, y \in Nat : Terminators(x, y, r, n)
<1>1. r \in Nat /\ n \in Nat /\ n >= 1 /\ r + n <= Bytes /\ Bytes = 6 * Sent /\ Sent \in Nat
  BY BytesIs DEF BufferAt
<1>2. r + 1 \in 1 .. Bytes /\ r + n \in 1 .. Bytes
  BY <1>1
<1>3. PICK l \in 1 .. Sent : Within(r + 1, l)
  BY <1>2, HasMessage
<1>4. PICK m \in 1 .. Sent : Within(r + n, m)
  BY <1>2, HasMessage
<1> DEFINE x == IF r + 1 = 6 * l THEN l + 1 ELSE l
           y == IF r + n = 6 * m THEN m ELSE m - 1
<1>5. 6 * l - 5 <= r + 1 /\ r + 1 <= 6 * l /\ 6 * m - 5 <= r + n /\ r + n <= 6 * m
  BY <1>3, <1>4 DEF Within, BeginsAt
<1>6. x \in Nat /\ x \in 1 .. Sent + 1 /\ 6 * x - 7 <= r /\ r < 6 * x - 1
  BY <1>1, <1>5
<1>7. y \in Nat /\ y \in 0 .. Sent /\ 6 * y <= r + n /\ r + n < 6 * y + 6
  BY <1>1, <1>5
<1> HIDE DEF x, y
<1>8. x <= y + 1
  BY <1>1, <1>6, <1>7
<1>9. Terminators(x, y, r, n)
  BY <1>6, <1>7, <1>8 DEF Terminators
<1>10. QED BY <1>6, <1>7, <1>9

PieceFrom(x, r, k)     == IF k = 1 THEN 1 ELSE 6 * (x + k) - 11 - r
PieceTo(x, y, r, n, k) == IF k = y + 2 - x THEN n ELSE 6 * (x + k) - 8 - r

LEMMA SplitIs ==
  ASSUME NEW c, NEW r, NEW n, BufferAt(c, r, n), NEW d, DecodedAs(d, c, r, n),
         NEW x \in Nat, NEW y \in Nat, Terminators(x, y, r, n)
  PROVE  Split(d) = [k \in 1 .. y + 2 - x |->
                       SubSeq(d, PieceFrom(x, r, k), PieceTo(x, y, r, n, k))]
<1> DEFINE cr == {i \in 1 .. Len(d) - 1 : d[i] = CR /\ d[i + 1] = LF}
           F == {1} \cup {i + 2 : i \in cr}
           G == {i - 1 : i \in cr} \cup {Len(d)}
           pieces == y + 2 - x
           from == [k \in 1 .. pieces |-> PieceFrom(x, r, k)]
           to == [k \in 1 .. pieces |-> PieceTo(x, y, r, n, k)]
<1>1. /\ r \in Nat /\ n \in Nat /\ n >= 1 /\ r + n <= Bytes /\ Bytes = 6 * Sent /\ Sent \in Nat
      /\ x \in 1 .. Sent + 1 /\ y \in 0 .. Sent /\ x <= y + 1
      /\ 6 * x - 7 <= r /\ r < 6 * x - 1
      /\ 6 * y <= r + n /\ r + n < 6 * y + 6
  BY BytesIs DEF BufferAt, Terminators
<1>2. Len(d) = n /\ \A i \in 1 .. n : d[i] = View(c)[r + i] /\ r + i \in 1 .. Bytes
  BY <1>1 DEF DecodedAs
<1>3. ASSUME NEW i \in cr PROVE \E m \in x .. y : i = 6 * m - 1 - r
  <2>1. i \in 1 .. n - 1 /\ d[i] = CR
    BY <1>2
  <2>2. i \in 1 .. n /\ r + i \in 1 .. Bytes /\ View(c)[r + i] = CR
    BY <1>1, <1>2, <2>1
  <2>3. PICK m \in 1 .. Sent : r + i = 6 * m - 1
    BY <2>2, TerminatorPlace
  <2>4. m \in x .. y /\ i = 6 * m - 1 - r
    BY <1>1, <2>1, <2>3
  <2>5. QED BY <2>4
<1>4. ASSUME NEW m \in x .. y PROVE 6 * m - 1 - r \in cr
  <2> DEFINE i == 6 * m - 1 - r
  <2>1. i \in 1 .. n - 1 /\ i \in 1 .. n /\ i + 1 \in 1 .. n /\ r + i = 6 * m - 1 /\ r + (i + 1) = 6 * m
        /\ m \in 1 .. Sent
    BY <1>1
  <2> HIDE DEF i
  <2>2. View(c)[r + i] = CR /\ View(c)[r + (i + 1)] = LF
    <3>1. r + i \in 1 .. Bytes /\ r + (i + 1) \in 1 .. Bytes
      BY <1>2, <2>1
    <3>2. QED BY <2>1, <3>1, TerminatorPlace
  <2>3. d[i] = CR /\ d[i + 1] = LF
    BY <1>2, <2>1, <2>2
  <2>4. i \in cr
    BY <1>2, <2>1, <2>3
  <2>5. QED BY <2>4 DEF i
<1> HIDE DEF cr
<1>5. pieces \in Nat /\ pieces >= 1
  BY <1>1
<1>6. \A k \in 1 .. pieces : PieceFrom(x, r, k) \in Nat /\ PieceTo(x, y, r, n, k) \in Nat
  BY <1>1 DEF PieceFrom, PieceTo
<1>7. /\ Len(from) = pieces /\ \A k \in 1 .. pieces : from[k] = PieceFrom(x, r, k)
      /\ Len(to) = pieces /\ \A k \in 1 .. pieces : to[k] = PieceTo(x, y, r, n, k)
      /\ DOMAIN from = 1 .. pieces
  <2> HIDE DEF pieces
  <2>1. QED BY <1>5
<1>8. Ordered(from, F) /\ F \subseteq Nat
  <2>1. ASSUME NEW k \in 1 .. pieces PROVE PieceFrom(x, r, k) \in F
    <3>1. CASE k = 1
      BY <3>1 DEF PieceFrom
    <3>2. CASE k # 1
      <4>1. x + k - 2 \in x .. y /\ 6 * (x + k - 2) - 1 - r + 2 = 6 * (x + k) - 11 - r
        BY <1>1, <3>2
      <4>2. 6 * (x + k - 2) - 1 - r \in cr
        BY <1>4, <4>1
      <4>3. QED BY <3>2, <4>1, <4>2 DEF PieceFrom
    <3>3. QED BY <3>1, <3>2
  <2>2. ASSUME NEW z \in F PROVE z \in Nat /\ \E k \in 1 .. pieces : z = PieceFrom(x, r, k)
    <3>1. CASE z = 1
      <4>1. 1 \in 1 .. pieces
        BY <1>5
      <4>2. QED BY <3>1, <4>1 DEF PieceFrom
    <3>2. CASE z # 1
      <4>1. PICK i \in cr : z = i + 2
        BY <3>2
      <4>2. PICK m \in x .. y : i = 6 * m - 1 - r
        BY <1>3, <4>1
      <4>3. m + 2 - x \in 1 .. pieces /\ m + 2 - x # 1 /\ z = 6 * (x + (m + 2 - x)) - 11 - r
        BY <1>1, <4>1, <4>2
      <4>4. z = PieceFrom(x, r, m + 2 - x)
        BY <4>3 DEF PieceFrom
      <4>5. z \in Nat
        BY <1>1, <4>1, <4>2
      <4>6. QED BY <4>3, <4>4, <4>5
    <3>3. QED BY <3>1, <3>2
  <2>3. \A i, j \in 1 .. pieces : i < j => PieceFrom(x, r, i) < PieceFrom(x, r, j)
    BY <1>1 DEF PieceFrom
  <2> HIDE DEF F, from, pieces
  <2>4. from \in Seq(F)
    <3>1. \A k \in 1 .. pieces : PieceFrom(x, r, k) \in F
      BY <2>1
    <3>2. QED BY <1>5, <3>1 DEF from
  <2>5. QED BY <1>7, <2>2, <2>3, <2>4 DEF Ordered
<1>9. Ordered(to, G) /\ G \subseteq Nat
  <2>1. ASSUME NEW k \in 1 .. pieces PROVE PieceTo(x, y, r, n, k) \in G
    <3>1. CASE k = pieces
      BY <1>2, <3>1 DEF PieceTo
    <3>2. CASE k # pieces
      <4>1. x + k - 1 \in x .. y /\ 6 * (x + k - 1) - 1 - r - 1 = 6 * (x + k) - 8 - r
        BY <1>1, <3>2
      <4>2. 6 * (x + k - 1) - 1 - r \in cr
        BY <1>4, <4>1
      <4>3. QED BY <3>2, <4>1, <4>2 DEF PieceTo
    <3>3. QED BY <3>1, <3>2
  <2>2. ASSUME NEW z \in G PROVE z \in Nat /\ \E k \in 1 .. pieces : z = PieceTo(x, y, r, n, k)
    <3>1. CASE z = n
      <4>1. pieces \in 1 .. pieces
        BY <1>5
      <4>2. QED BY <1>1, <3>1, <4>1 DEF PieceTo
    <3>2. CASE z # n
      <4>1. PICK i \in cr : z = i - 1
        BY <1>2, <3>2
      <4>2. PICK m \in x .. y : i = 6 * m - 1 - r
        BY <1>3, <4>1
      <4>3. m + 1 - x \in 1 .. pieces /\ m + 1 - x # pieces /\ z = 6 * (x + (m + 1 - x)) - 8 - r
        BY <1>1, <4>1, <4>2
      <4>4. z = PieceTo(x, y, r, n, m + 1 - x)
        BY <4>3 DEF PieceTo
      <4>5. z \in Nat
        BY <1>1, <4>1, <4>2
      <4>6. QED BY <4>3, <4>4, <4>5
    <3>3. QED BY <3>1, <3>2
  <2>3. \A i, j \in 1 .. pieces : i < j => PieceTo(x, y, r, n, i) < PieceTo(x, y, r, n, j)
    BY <1>1 DEF PieceTo
  <2> HIDE DEF G, to, pieces
  <2>4. to \in Seq(G)
    <3>1. \A k \in 1 .. pieces : PieceTo(x, y, r, n, k) \in G
      BY <2>1
    <3>2. QED BY <1>5, <3>1 DEF to
  <2>5. QED BY <1>7, <2>2, <2>3, <2>4 DEF Ordered
<1>10. InOrder(F) = from /\ InOrder(G) = to
  <2> HIDE DEF F, G, from, to
  <2>1. QED BY <1>8, <1>9, InOrderIs
<1>11. Split(d) = [k \in DOMAIN InOrder(F) |-> SubSeq(d, InOrder(F)[k], InOrder(G)[k])]
  BY DEF Split, cr
<1> HIDE DEF F, G, from, to
<1>12. Split(d) = [k \in 1 .. pieces |-> SubSeq(d, from[k], to[k])]
  BY <1>7, <1>10, <1>11
<1>13. QED BY <1>7, <1>12

(* The lines of a buffer with text in it: the first goes on where the last *)
(* buffer ended, in the text of message lo or before it; hi is the last    *)
(* message whose terminator is there.                                      *)
LineSpan(lo, hi, r, n) ==
  /\ lo \in 1 .. Sent /\ hi \in 0 .. Sent /\ lo <= hi + 1
  /\ 6 * lo - 8 <= r /\ r < 6 * lo - 2
  /\ 6 * hi <= r + n /\ r + n < 6 * hi + 6
  /\ (r + n = 6 * hi => lo <= hi)

LineCount(lo, hi, r, n) == IF r + n = 6 * hi THEN hi + 1 - lo ELSE hi + 2 - lo

LineFrom(lo, r, j)      == IF j = 1 THEN r + 1 ELSE 6 * (lo + j) - 11
LineTo(lo, hi, r, n, j) == IF j = hi + 2 - lo THEN r + n ELSE 6 * (lo + j) - 8

AreLines(ls, c, lo, hi, r, n) ==
  /\ ls \in Seq(Seq(Chars)) /\ Len(ls) = LineCount(lo, hi, r, n)
  /\ \A j \in 1 .. LineCount(lo, hi, r, n) :
       TextOf(ls[j]) = ViewText(c, LineFrom(lo, r, j), LineTo(lo, hi, r, n, j))

(* Places without text before a text do not matter.                        *)
LEMMA ViewTextSkips ==
  ASSUME NEW c, NEW a \in Nat, a >= 1, NEW b \in Nat, a <= b, NEW h \in Int, h <= Bytes,
         \A i \in a .. b - 1 : ~IsKept(c, i)
  PROVE  ViewText(c, a, h) = ViewText(c, b, h)
<1>1. /\ TextPlaces(c, a, h) = {i \in a .. h : IsKept(c, i)}
      /\ TextPlaces(c, b, h) = {i \in b .. h : IsKept(c, i)}
  BY TextPlacesAre
<1>2. ASSUME NEW i, IsKept(c, i) PROVE i \in a .. h <=> i \in b .. h
  <2>1. i \in Int
    BY <1>2 DEF IsKept, IsText, IsSpace
  <2>2. i \in a .. h => ~(i < b)
    BY <1>2, <2>1
  <2>3. QED BY <2>1, <2>2
<1>3. {i \in a .. h : IsKept(c, i)} = {i \in b .. h : IsKept(c, i)}
  BY <1>2
<1>4. TextPlaces(c, a, h) = TextPlaces(c, b, h)
  BY <1>1, <1>3, Zenon
<1>5. QED BY <1>4, Zenon DEF ViewText

LEMMA LinesAre ==
  ASSUME NEW c, NEW r, NEW n, BufferAt(c, r, n), NEW d, DecodedAs(d, c, r, n), HasText(r, n)
  PROVE  \E lo, hi \in Nat : LineSpan(lo, hi, r, n) /\ AreLines(Lines(d), c, lo, hi, r, n)
<1>1. PICK x \in Nat, y \in Nat : Terminators(x, y, r, n)
  BY HasTerminators
<1>2. /\ r \in Nat /\ n \in Nat /\ n >= 1 /\ r + n <= Bytes /\ Bytes = 6 * Sent /\ Sent \in Nat
      /\ x \in 1 .. Sent + 1 /\ y \in 0 .. Sent /\ x <= y + 1
      /\ 6 * x - 7 <= r /\ r < 6 * x - 1
      /\ 6 * y <= r + n /\ r + n < 6 * y + 6
  BY <1>1, BytesIs DEF BufferAt, Terminators
<1>3. PICK p \in r + 1 .. r + n : IsText(p)
  BY DEF HasText
<1>4. PICK m \in 1 .. Sent : 6 * m - 5 <= p /\ p <= 6 * m - 2
  BY <1>2, <1>3, TextIs
<1> DEFINE pieces == y + 2 - x
           first == IF r = 6 * x - 2 THEN 2 ELSE 1
           final == IF r + n = 6 * y THEN y + 1 - x ELSE y + 2 - x
           lo == x + first - 1
           S == Split(d)
<1>5. /\ (r = 6 * x - 2 \/ r + n = 6 * y) => x <= y
      /\ first \in 1 .. 2 /\ final \in 1 .. pieces /\ first <= final
      /\ pieces \in Nat
  <2>1. p >= r + 1 /\ p <= r + n /\ m \in Nat /\ p \in Nat
    BY <1>2
  <2>2. (r = 6 * x - 2 \/ r + n = 6 * y) => x <= y
    BY <1>2, <1>4, <2>1
  <2>3. ~(x = y /\ r = 6 * x - 2 /\ r + n = 6 * y)
    BY <1>2, <1>4, <2>1
  <2>4. QED BY <1>2, <2>2, <2>3
<1>6. LineSpan(lo, y, r, n)
  <2>1. 6 * lo - 8 <= r /\ r < 6 * lo - 2 /\ lo \in Nat /\ lo >= 1
    BY <1>2
  <2>2. p >= r + 1 /\ p <= r + n /\ m \in Nat /\ p \in Nat
    BY <1>2
  <2>3. lo <= m
    <3> HIDE DEF lo
    <3>1. QED BY <1>2, <1>4, <2>1, <2>2
  <2>4. lo \in 1 .. Sent
    <3> HIDE DEF lo
    <3>1. QED BY <1>2, <2>1, <2>3
  <2>5. lo <= y + 1 /\ (r + n = 6 * y => lo <= y)
    BY <1>2, <1>5
  <2> HIDE DEF lo
  <2>6. QED BY <1>2, <2>1, <2>4, <2>5 DEF LineSpan
<1>7. S = [k \in 1 .. pieces |-> SubSeq(d, PieceFrom(x, r, k), PieceTo(x, y, r, n, k))]
  BY <1>1, SplitIs
<1> HIDE DEF S
<1>8. ASSUME NEW k \in 1 .. pieces
      PROVE  /\ PieceFrom(x, r, k) \in Nat /\ PieceFrom(x, r, k) >= 1
             /\ PieceTo(x, y, r, n, k) \in Nat /\ PieceTo(x, y, r, n, k) <= n
             /\ PieceFrom(x, r, k) <= PieceTo(x, y, r, n, k) + 1
  BY <1>2 DEF PieceFrom, PieceTo
<1>9. ASSUME NEW k \in 1 .. pieces
      PROVE  /\ S[k] \in Seq(Chars)
             /\ TextOf(S[k]) = ViewText(c, r + PieceFrom(x, r, k), r + PieceTo(x, y, r, n, k))
             /\ IsBlank(S[k]) <=> \A i \in r + PieceFrom(x, r, k) .. r + PieceTo(x, y, r, n, k) : ~IsText(i)
  <2> DEFINE f == PieceFrom(x, r, k)
             t == PieceTo(x, y, r, n, k)
  <2>1. S[k] = SubSeq(d, f, t)
    BY <1>7
  <2>2. f \in Nat /\ f >= 1 /\ t \in Nat /\ f <= t + 1 /\ t <= n
    BY <1>8
  <2> HIDE DEF f, t
  <2>3. /\ SubSeq(d, f, t) \in Seq(Chars)
        /\ TextOf(SubSeq(d, f, t)) = ViewText(c, r + f, r + t)
        /\ IsBlank(SubSeq(d, f, t)) <=> \A i \in r + f .. r + t : ~IsText(i)
    BY <2>2, PartIs, SpacesStay
  <2>4. QED BY <2>1, <2>3 DEF f, t
<1> HIDE DEF first, final
<1>10. ASSUME NEW k \in 1 .. pieces PROVE ~IsBlank(S[k]) <=> k \in first .. final
  <2> DEFINE f == r + PieceFrom(x, r, k)
             t == r + PieceTo(x, y, r, n, k)
  <2>1. CASE k \notin first .. final
    <3>1. f > t
      BY <1>2, <1>5, <2>1 DEF PieceFrom, PieceTo, first, final
    <3>2. f \in Nat /\ t \in Nat
      BY <1>2, <1>8
    <3> HIDE DEF f, t
    <3>3. \A i \in f .. t : ~IsText(i)
      BY <3>1, <3>2
    <3>4. QED BY <1>9, <2>1, <3>3 DEF f, t
  <2>2. CASE k \in first .. final
    <3>1. CASE pieces = 1
      <4>1. f = r + 1 /\ t = r + n
        BY <1>2, <3>1 DEF PieceFrom, PieceTo
      <4>2. QED BY <1>3, <1>9, <2>2, <4>1
    <3>2. CASE pieces # 1 /\ k # pieces
      <4> DEFINE i == 6 * (x + k) - 8
                 l == x + k - 1
      <4>1. i \in Int /\ l \in 1 .. Sent /\ 6 * l - 5 <= i /\ i <= 6 * l - 2 /\ i # 6 * l - 3
        BY <1>2, <3>2
      <4>2. t = i
        BY <1>2, <3>2 DEF PieceTo
      <4>3. f \in Int /\ f <= i
        BY <1>2, <1>5, <2>2, <3>2 DEF PieceFrom, first, final
      <4> HIDE DEF i, l, f, t
      <4>4. IsText(i) /\ i \in f .. t
        BY <4>1, <4>2, <4>3, TextIs
      <4>5. QED BY <1>9, <2>2, <4>4 DEF f, t
    <3>3. CASE pieces # 1 /\ k = pieces
      <4> DEFINE i == 6 * y + 1
      <4>1. i \in Int /\ i \in Nat /\ y + 1 \in 1 .. Sent /\ 6 * (y + 1) - 5 <= i /\ i <= 6 * (y + 1) - 2
            /\ i # 6 * (y + 1) - 3
        BY <1>2, <1>5, <2>2, <3>3 DEF final
      <4>2. t = r + n /\ i <= r + n
        BY <1>2, <1>5, <2>2, <3>3 DEF PieceTo, final
      <4>3. f = i
        BY <1>2, <3>3 DEF PieceFrom
      <4> HIDE DEF i, f, t
      <4>4. IsText(i) /\ i \in f .. t
        <5>1. IsText(i)
          BY <4>1, TextIs
        <5>2. i \in f .. t
          BY <1>2, <4>1, <4>2, <4>3
        <5>3. QED BY <5>1, <5>2
      <4>5. QED BY <1>9, <2>2, <4>4 DEF f, t
    <3>4. QED BY <3>1, <3>2, <3>3
  <2>3. QED BY <2>1, <2>2
<1>11. {k \in DOMAIN S : ~IsBlank(S[k])} = first .. final
  <2>1. DOMAIN S = 1 .. pieces
    BY <1>7
  <2>2. \A k \in first .. final : k \in 1 .. pieces
    BY <1>5
  <2>3. QED BY <1>10, <2>1, <2>2
<1> DEFINE ls == Lines(d)
           count == final + 1 - first
<1>12. ls = [j \in 1 .. count |-> S[first + j - 1]]
  <2>1. ls = At(S, first .. final)
    BY <1>11 DEF Lines, S
  <2>2. first \in Nat /\ final \in Int /\ first <= final + 1
    BY <1>5
  <2>3. At(S, first .. final) = Stretch(S, first, count)
    BY <2>2, AtInterval
  <2>4. QED BY <2>1, <2>3 DEF Stretch
<1>13. count = LineCount(lo, y, r, n) /\ count \in Nat
  BY <1>2, <1>5 DEF LineCount, first, final
<1>14. \A j \in 1 .. count : first + j - 1 \in 1 .. pieces
  BY <1>5
<1> HIDE DEF ls, count, lo
<1>15. ls \in Seq(Seq(Chars)) /\ Len(ls) = count /\ \A j \in 1 .. count : ls[j] = S[first + j - 1]
  <2>1. \A j \in 1 .. count : S[first + j - 1] \in Seq(Chars)
    BY <1>9, <1>14
  <2> DEFINE g == [j \in 1 .. count |-> S[first + j - 1]]
  <2>2. g \in Seq(Seq(Chars)) /\ Len(g) = count
    BY <1>13, <2>1
  <2>3. \A j \in 1 .. count : g[j] = S[first + j - 1]
    OBVIOUS
  <2>4. ls = g
    BY <1>12
  <2> HIDE DEF g
  <2>5. QED BY <2>2, <2>3, <2>4
<1>16. ASSUME NEW j \in 1 .. count
       PROVE  TextOf(ls[j]) = ViewText(c, LineFrom(lo, r, j), LineTo(lo, y, r, n, j))
  <2> DEFINE k == first + j - 1
             f == PieceFrom(x, r, k)
             t == PieceTo(x, y, r, n, k)
  <2>1. k \in 1 .. pieces /\ ls[j] = S[k]
    BY <1>14, <1>15
  <2>2. r + t = LineTo(lo, y, r, n, j)
    BY <1>2, <1>5, <1>13 DEF PieceTo, LineTo, lo
  <2>3. t \in Nat /\ t <= n
    BY <1>8, <2>1
  <2> HIDE DEF k
  <2>4. TextOf(ls[j]) = ViewText(c, r + f, r + t)
    BY <1>9, <2>1
  <2>5. CASE first = 1 \/ j # 1
    <3>1. r + f = LineFrom(lo, r, j)
      BY <1>2, <1>5, <1>13, <2>5 DEF PieceFrom, LineFrom, lo, k
    <3>2. QED BY <2>2, <2>4, <3>1
  <2>6. CASE first = 2 /\ j = 1
    <3>1. r = 6 * x - 2 /\ r + f = 6 * x + 1 /\ LineFrom(lo, r, j) = 6 * x - 1
      BY <1>2, <2>6 DEF PieceFrom, LineFrom, first, k
    <3>2. ASSUME NEW i \in 6 * x - 1 .. 6 * x + 1 - 1 PROVE ~IsKept(c, i)
      <4>1. i \in Int /\ \A l \in 1 .. Sent : ~(6 * l - 5 <= i /\ i <= 6 * l - 2)
        BY <1>2
      <4>2. QED BY <4>1, KeptIs
    <3> DEFINE a == 6 * x - 1
               b == 6 * x + 1
               h == r + t
    <3>3. a \in Nat /\ a >= 1 /\ b \in Nat /\ a <= b /\ h \in Int /\ h <= Bytes
      <4> HIDE DEF t
      <4>1. QED BY <1>2, <2>3
    <3>4. \A i \in a .. b - 1 : ~IsKept(c, i)
      BY <3>2
    <3> HIDE DEF a, b, h
    <3>5. ViewText(c, a, h) = ViewText(c, b, h)
      BY <3>3, <3>4, ViewTextSkips
    <3>6. QED BY <2>2, <2>4, <3>1, <3>5 DEF a, b, h
  <2>7. first = 1 \/ first = 2
    BY <1>5
  <2>8. QED BY <2>5, <2>6, <2>7
<1>17. AreLines(ls, c, lo, y, r, n)
  BY <1>13, <1>15, <1>16 DEF AreLines
<1>18. lo \in Nat
  BY <1>2, <1>5 DEF lo
<1>19. QED BY <1>6, <1>17, <1>18 DEF ls

LEMMA NoLines ==
  ASSUME NEW c, NEW r, NEW n, BufferAt(c, r, n), NEW d, DecodedAs(d, c, r, n), ~HasText(r, n)
  PROVE  Lines(d) = <<>>
<1>1. PICK x \in Nat, y \in Nat : Terminators(x, y, r, n)
  BY HasTerminators
<1>2. /\ r \in Nat /\ n \in Nat /\ n >= 1 /\ r + n <= Bytes /\ Bytes = 6 * Sent /\ Sent \in Nat
      /\ x \in 1 .. Sent + 1 /\ y \in 0 .. Sent /\ x <= y + 1
      /\ 6 * x - 7 <= r /\ r < 6 * x - 1
      /\ 6 * y <= r + n /\ r + n < 6 * y + 6
  BY <1>1, BytesIs DEF BufferAt, Terminators
<1> DEFINE pieces == y + 2 - x
           S == Split(d)
<1>3. S = [k \in 1 .. pieces |-> SubSeq(d, PieceFrom(x, r, k), PieceTo(x, y, r, n, k))]
  BY <1>1, SplitIs
<1> HIDE DEF S
<1>4. ASSUME NEW k \in 1 .. pieces PROVE IsBlank(S[k])
  <2> DEFINE f == PieceFrom(x, r, k)
             t == PieceTo(x, y, r, n, k)
  <2>1. S[k] = SubSeq(d, f, t)
    BY <1>3
  <2>2. f \in Nat /\ f >= 1 /\ t \in Nat /\ f <= t + 1 /\ t <= n
    BY <1>2 DEF PieceFrom, PieceTo
  <2> HIDE DEF f, t
  <2>3. \A i \in r + f .. r + t : ~IsText(i)
    <3>1. \A i \in r + f .. r + t : i \in r + 1 .. r + n
      BY <1>2, <2>2
    <3>2. QED BY <3>1 DEF HasText
  <2>4. QED BY <2>1, <2>2, <2>3, PartIs
<1>5. {k \in DOMAIN S : ~IsBlank(S[k])} = {}
  <2>1. DOMAIN S = 1 .. pieces
    BY <1>3
  <2>2. QED BY <1>4, <2>1
<1>6. QED BY <1>5, AtNone DEF Lines, S

LEMMA EndsLineIs ==
  ASSUME NEW c, NEW r, NEW n, BufferAt(c, r, n), NEW d, DecodedAs(d, c, r, n),
         NEW lo, NEW hi \in Nat, LineSpan(lo, hi, r, n), HasText(r, n)
  PROVE  EndsLine(d) <=> r + n = 6 * hi
<1>1. /\ r \in Nat /\ n \in Nat /\ n >= 1 /\ r + n <= Bytes /\ Bytes = 6 * Sent /\ Sent \in Nat
      /\ hi \in 0 .. Sent /\ 6 * hi <= r + n /\ r + n < 6 * hi + 6
  BY BytesIs DEF BufferAt, LineSpan
<1>2. d \in Seq(Chars) /\ Len(d) = n /\ \A i \in 1 .. n : d[i] = View(c)[r + i] /\ r + i \in 1 .. Bytes
  BY <1>1 DEF DecodedAs
<1> DEFINE e == <<CR, LF>>
<1>3. Reverse(e) = <<LF, CR>>
  BY DEF Reverse
<1>4. Len(Reverse(d)) = n /\ \A i \in 1 .. n : Reverse(d)[i] = d[n - i + 1]
  BY <1>1, <1>2 DEF Reverse
<1>5. EndsLine(d) <=> n >= 2 /\ d[n] = LF /\ d[n - 1] = CR
  <2> DEFINE v == Reverse(d)
             w == <<LF, CR>>
  <2>1. v \in Seq(Chars) /\ Len(v) = n /\ \A i \in 1 .. n : v[i] = d[n - i + 1]
    <3>1. \A i \in 1 .. n : d[n - i + 1] \in Chars
      <4>1. \A i \in 1 .. n : n - i + 1 \in 1 .. Len(d)
        BY <1>1, <1>2
      <4>2. QED BY <1>2, <4>1, ElementOfSeq
    <3>2. v = [i \in 1 .. n |-> d[n - i + 1]]
      BY <1>1, <1>2 DEF Reverse
    <3> HIDE DEF v
    <3>3. QED BY <1>1, <3>1, <3>2
  <2>2. w \in Seq(Chars) /\ Len(w) = 2 /\ w[1] = LF /\ w[2] = CR
    BY DEF Chars
  <2>3. EndsLine(d) <=> IsPrefix(w, v)
    BY <1>3 DEF EndsLine, IsSuffix
  <2> HIDE DEF v, w
  <2>4. SubSeq(w, 1, 2) = w
    BY <2>2, SubSeqFull
  <2>5. EndsLine(d) <=> 2 <= n /\ w = SubSeq(v, 1, 2)
    BY <2>1, <2>2, <2>3, <2>4 DEF IsPrefix
  <2>6. ASSUME 2 <= n PROVE w = SubSeq(v, 1, 2) <=> v[1] = LF /\ v[2] = CR
    <3>1. 1 \in 1 .. n /\ 2 \in 1 .. n /\ \A i \in 1 .. 2 : i \in 1 .. n /\ (i = 1 \/ i = 2)
      BY <1>1, <2>6
    <3>2. \A i \in 1 .. 2 : v[i] \in Chars
      BY <2>1, <3>1, ElementOfSeq
    <3>3. /\ SubSeq(v, 1, 2) \in Seq(Chars) /\ Len(SubSeq(v, 1, 2)) = 2
          /\ \A i \in 1 .. 2 - 1 + 1 : SubSeq(v, 1, 2)[i] = v[1 + i - 1]
      BY <2>1, <3>2, SubSeqProperties
    <3> DEFINE u == SubSeq(v, 1, 2)
    <3>4. u \in Seq(Chars) /\ Len(u) = 2 /\ u[1] = v[1] /\ u[2] = v[2]
      BY <3>3
    <3> HIDE DEF u
    <3>5. w = u <=> \A i \in 1 .. 2 : w[i] = u[i]
      BY <2>2, <3>4, SeqEqual
    <3>6. (\A i \in 1 .. 2 : w[i] = u[i]) <=> w[1] = u[1] /\ w[2] = u[2]
      BY <3>1
    <3>7. QED BY <2>2, <3>4, <3>5, <3>6 DEF u
  <2>7. n >= 2 => v[1] = d[n] /\ v[2] = d[n - 1]
    BY <1>1, <2>1
  <2>8. QED BY <1>1, <2>5, <2>6, <2>7
<1>6. ASSUME EndsLine(d) PROVE r + n = 6 * hi
  <2>1. n \in 1 .. n /\ View(c)[r + n] = LF /\ r + n \in 1 .. Bytes
    BY <1>1, <1>2, <1>5, <1>6
  <2>2. PICK m \in 1 .. Sent : r + n = 6 * m
    BY <2>1, TerminatorPlace
  <2>3. QED BY <1>1, <2>2
<1>7. ASSUME r + n = 6 * hi PROVE EndsLine(d)
  <2>1. PICK p \in r + 1 .. r + n : IsText(p)
    BY DEF HasText
  <2>2. PICK m \in 1 .. Sent : 6 * m - 5 <= p /\ p <= 6 * m - 2
    BY <1>1, <2>1, TextIs
  <2>3. n >= 2 /\ hi \in 1 .. Sent
    BY <1>1, <1>7, <2>2
  <2>4. n \in 1 .. n /\ n - 1 \in 1 .. n /\ r + (n - 1) = 6 * hi - 1
    BY <1>1, <1>7, <2>3
  <2>5. View(c)[r + n] = LF /\ View(c)[r + (n - 1)] = CR
    <3>1. r + n \in 1 .. Bytes /\ r + (n - 1) \in 1 .. Bytes
      BY <1>2, <2>4
    <3>2. QED BY <1>7, <2>3, <2>4, <3>1, TerminatorPlace
  <2>6. QED BY <1>2, <1>5, <2>3, <2>4, <2>5
<1>8. QED BY <1>6, <1>7

-----------------------------------------------------------------------------
(* What is left of one buffer and what the next one makes of it.           *)

LEMMA TextOfConcat ==
  ASSUME NEW u \in Seq(Chars), NEW v \in Seq(Chars)
  PROVE  u \o v \in Seq(Chars) /\ IsConcat(TextOf(u \o v), TextOf(u), TextOf(v))
<1> DEFINE w == u \o v
           n == Len(u)
           S == {i \in DOMAIN u : u[i] \notin Terminator}
           P == {i \in DOMAIN v : v[i] \notin Terminator}
           T == {i + n : i \in P}
           U == {i \in DOMAIN w : w[i] \notin Terminator}
<1>1. n \in Nat /\ Len(v) \in Nat /\ DOMAIN u = 1 .. n /\ DOMAIN v = 1 .. Len(v)
  BY LenProperties
<1>2. /\ w \in Seq(Chars) /\ Len(w) = n + Len(v)
      /\ \A i \in 1 .. n + Len(v) : w[i] = IF i <= n THEN u[i] ELSE v[i - n]
  BY ConcatProperties
<1> HIDE DEF w
<1>3. DOMAIN w = 1 .. n + Len(v)
  BY <1>2, LenProperties
<1>4. \A i \in 1 .. n : i \in 1 .. n + Len(v) /\ w[i] = u[i]
  BY <1>1, <1>2
<1>5. \A i \in 1 .. Len(v) : i + n \in 1 .. n + Len(v) /\ w[i + n] = v[i]
  <2> TAKE i \in 1 .. Len(v)
  <2>1. i + n \in 1 .. n + Len(v) /\ ~(i + n <= n) /\ (i + n) - n = i
    BY <1>1
  <2>2. QED BY <1>2, <2>1
<1>6. /\ \A i \in S : i \in 1 .. n /\ u[i] \notin Terminator
      /\ \A i \in P : i \in 1 .. Len(v) /\ v[i] \notin Terminator
  BY <1>1
<1>7. U = S \cup T
  <2>1. ASSUME NEW i \in U PROVE i \in S \cup T
    <3>1. i \in 1 .. n + Len(v) /\ w[i] \notin Terminator
      BY <1>3
    <3>2. CASE i <= n
      <4>1. i \in 1 .. n
        BY <1>1, <3>1, <3>2
      <4>2. QED BY <1>1, <1>4, <3>1, <4>1
    <3>3. CASE ~(i <= n)
      <4>1. i - n \in 1 .. Len(v) /\ (i - n) + n = i
        BY <1>1, <3>1, <3>3
      <4>2. i - n \in P
        BY <1>1, <1>5, <3>1, <4>1
      <4>3. QED BY <4>1, <4>2
    <3>4. QED BY <3>2, <3>3
  <2>2. ASSUME NEW i \in S PROVE i \in U
    BY <1>3, <1>4, <1>6
  <2>3. ASSUME NEW i \in P PROVE i + n \in U
    BY <1>3, <1>5, <1>6
  <2> HIDE DEF U, S, P
  <2>4. QED BY <2>1, <2>2, <2>3
<1> HIDE DEF S, P, U
<1>8. Precedes(S, T)
  <2>1. \A x \in 1 .. n, y \in 1 .. Len(v) : x < y + n
    BY <1>1
  <2>2. QED BY <1>6, <2>1 DEF Precedes
<1>9. Bounded(S) /\ Bounded(P)
  BY <1>1, <1>6 DEF Bounded
<1>10. Bounded(T) /\ T \subseteq Nat
  <2>1. \A x \in T : x \in 1 .. n + Len(v)
    BY <1>5, <1>6
  <2>2. n + Len(v) \in Nat
    BY <1>1
  <2>3. \A x \in 1 .. n + Len(v) : x \in Nat
    BY <2>2
  <2> HIDE DEF T
  <2>4. QED BY <2>1, <2>2, <2>3 DEF Bounded
<1>11. AreIn(w, U, Chars)
  <2>1. \A i \in U : i \in 1 .. Len(w)
    BY <1>2, <1>3 DEF U
  <2>2. QED BY <1>2, <2>1, ElementOfSeq DEF AreIn
<1>12. AreMoved(T, P, n)
  BY <1>1, <1>10 DEF AreMoved
<1>13. MovedBy(v, w, P, n)
  BY <1>5, <1>6 DEF MovedBy
<1> HIDE DEF T
<1>14. IsConcat(At(w, U), At(w, S), At(w, T))
  BY <1>7, <1>8, <1>9, <1>10, <1>11, AtConcat
<1>15. At(v, P) = At(w, T)
  BY <1>9, <1>12, <1>13, AtMoved
<1>16. At(u, S) = At(w, S)
  <2>1. \A x \in S : u[x] = w[x]
    BY <1>4, <1>6
  <2>2. QED BY <1>9, <2>1, AtAgree
<1>17. TextOf(u) = At(u, S) /\ TextOf(v) = At(v, P) /\ TextOf(w) = At(w, U)
  BY DEF TextOf, S, P, U
<1>18. QED BY <1>2, <1>14, <1>15, <1>16, <1>17 DEF w

LEMMA TextOfNone == TextOf(<<>>) = <<>>
<1>1. {i \in DOMAIN <<>> : <<>>[i] \notin Terminator} = {}
  OBVIOUS
<1>2. QED BY <1>1, AtNone DEF TextOf

(* A later cut changes nothing of what has been seen.                      *)
LEMMA SeenStays ==
  ASSUME NEW c, NEW e \in Nat, NEW m \in Int, 6 * m - 3 < e
  PROVE  SeenBy(c \cup {e}, m) = SeenBy(c, m)
<1>1. /\ Before(m) + 1 = 6 * m - 5 /\ Before(m) + 2 = 6 * m - 4
      /\ Before(m) + 3 = 6 * m - 3
  <2>1. Before(m) = 6 * m - 6
    BY BeforeIs DEF BeginsAt
  <2>2. QED BY <2>1
<1>2. \A k \in {6 * m - 5, 6 * m - 4, 6 * m - 3} : k \in c \cup {e} <=> k \in c
  OBVIOUS
<1>3. /\ Before(m) + 1 \in c \cup {e} <=> Before(m) + 1 \in c
      /\ AloneBy(c \cup {e}, m) <=> AloneBy(c, m)
  BY <1>1, <1>2 DEF AloneBy
<1>4. QED BY <1>3 DEF SeenBy

LEMMA ViewStays ==
  ASSUME NEW c, NEW lo \in Nat, lo >= 1, NEW r \in Nat, r <= Bytes, NEW e \in Nat, r < e
  PROVE  ViewText(c \cup {e}, lo, r) = ViewText(c, lo, r)
<1> DEFINE S == TextPlaces(c, lo, r)
<1>1. S = {i \in lo .. r : IsKept(c, i)} /\ S \subseteq 1 .. Bytes
  BY TextPlacesAre
<1>2. Bounded(S)
  BY <1>1, BytesBound
<1>3. ASSUME NEW i \in S PROVE View(c \cup {e})[i] = View(c)[i]
  <2>1. i \in 1 .. Bytes /\ i <= r /\ i \in Int
    BY <1>1, BytesIs
  <2>2. PICK m \in 1 .. Sent : Within(i, m)
    BY <2>1, HasMessage
  <2>3. m \in Int /\ Before(m) + 1 = 6 * m - 5 /\ 6 * m - 5 < e
    <3>1. m \in Int /\ 6 * m - 5 < e
      BY <2>1, <2>2, BytesIs DEF Within, BeginsAt
    <3>2. Before(m) = 6 * m - 6
      BY <3>1, BeforeIs DEF BeginsAt
    <3>3. QED BY <3>1, <3>2
  <2>4. Before(m) + 1 \in c \cup {e} <=> Before(m) + 1 \in c
    BY <2>3
  <2>5. BytesBy(c \cup {e}, m) = BytesBy(c, m)
    BY <2>4 DEF BytesBy
  <2>6. MessageAt(i) = m
    BY <2>1, <2>2, MessageAtIs
  <2>7. QED BY <2>1, <2>5, <2>6 DEF View, FrameBy
<1>4. TextPlaces(c \cup {e}, lo, r) = S
  <2>1. \A i \in lo .. r : (i \in c \cup {e} <=> i \in c) /\ (i - 1 \in c \cup {e} <=> i - 1 \in c)
    OBVIOUS
  <2>2. \A i \in lo .. r : IsKept(c \cup {e}, i) <=> IsKept(c, i)
    BY <2>1 DEF IsKept
  <2>3. QED BY <2>2 DEF TextPlaces
<1> HIDE DEF S
<1>5. At(View(c \cup {e}), S) = At(View(c), S)
  BY <1>2, <1>3, AtAgree
<1>6. QED BY <1>4, <1>5 DEF ViewText, S

(* A message is the text of a line of its own.                             *)
LEMMA SeenTwo ==
  ASSUME NEW c, NEW m
  PROVE  \E v, w \in {<<m, 0>>, <<m, 1>>, <<m, 2>>} :
           SeenBy(c, m) = IF AloneBy(c, m) THEN <<v, w, <<m, 3>>>> ELSE <<v, w, Space, <<m, 3>>>>
<1> DEFINE b == Before(m) + 1 \in c
           v == IF b THEN <<m, 0>> ELSE <<m, 1>>
           w == IF b THEN <<m, 0>> ELSE <<m, 2>>
<1>1. (IF b THEN <<Bad(m), Bad(m)>> ELSE <<<<m, 1>>, <<m, 2>>>>) = <<v, w>>
  BY DEF Bad
<1>2. v \in {<<m, 0>>, <<m, 1>>, <<m, 2>>} /\ w \in {<<m, 0>>, <<m, 1>>, <<m, 2>>}
  OBVIOUS
<1>3. SeenBy(c, m) = (IF b THEN <<Bad(m), Bad(m)>> ELSE <<<<m, 1>>, <<m, 2>>>>)
                       \o (IF AloneBy(c, m) THEN <<>> ELSE <<Space>>) \o <<<<m, 3>>>>
  BY DEF SeenBy
<1> HIDE DEF v, w, b
<1>4. SeenBy(c, m) = <<v, w>> \o (IF AloneBy(c, m) THEN <<>> ELSE <<Space>>) \o <<<<m, 3>>>>
  BY <1>1, <1>3
<1>5. SeenBy(c, m) = IF AloneBy(c, m) THEN <<v, w, <<m, 3>>>> ELSE <<v, w, Space, <<m, 3>>>>
  <2>1. CASE AloneBy(c, m)
    <3>1. SeenBy(c, m) = <<v, w>> \o <<>> \o <<<<m, 3>>>>
      BY <1>4, <2>1
    <3>2. QED BY <2>1, <3>1, Pieces
  <2>2. CASE ~AloneBy(c, m)
    <3>1. SeenBy(c, m) = <<v, w>> \o <<Space>> \o <<<<m, 3>>>>
      BY <1>4, <2>2
    <3>2. QED BY <2>2, <3>1, Pieces
  <2>3. QED BY <2>1, <2>2
<1>6. QED BY <1>2, <1>5

LEMMA ThreeAre ==
  ASSUME NEW x \in Int, NEW y \in Int, NEW z \in Int, x # y, x # z, y # z
  PROVE  Cardinality({x, y, z}) = 3
<1>1. IsFiniteSet({}) /\ Cardinality({}) = 0
  BY FS_EmptySet
<1>2. IsFiniteSet({x}) /\ Cardinality({x}) = 1
  BY FS_Singleton
<1>3. {x, y} = {x} \cup {y} /\ {x, y, z} = {x, y} \cup {z} /\ y \notin {x} /\ z \notin {x, y}
  OBVIOUS
<1>4. IsFiniteSet({x, y}) /\ Cardinality({x, y}) = 2
  BY <1>2, <1>3, FS_AddElement
<1>5. QED BY <1>3, <1>4, FS_AddElement

LEMMA SeenIsMessage ==
  ASSUME NEW c, NEW m \in 1 .. Sent
  PROVE  IsMessage(SeenBy(c, m))
<1>1. PICK v \in {<<m, 0>>, <<m, 1>>, <<m, 2>>}, w \in {<<m, 0>>, <<m, 1>>, <<m, 2>>} :
        SeenBy(c, m) = IF AloneBy(c, m) THEN <<v, w, <<m, 3>>>> ELSE <<v, w, Space, <<m, 3>>>>
  BY SeenTwo
<1>2. /\ v # Space /\ w # Space /\ <<m, 3>> # Space
      /\ v[1] = m /\ w[1] = m /\ <<m, 3>>[1] = m
  <2>1. \A k : <<m, k>> # Space /\ <<m, k>>[1] = m
    BY NotWhite
  <2>2. QED BY <2>1
<1>3. CASE AloneBy(c, m)
  <2> DEFINE s == <<v, w, <<m, 3>>>>
  <2>1. DOMAIN s = {1, 2, 3} /\ s[1] = v /\ s[2] = w /\ s[3] = <<m, 3>>
    OBVIOUS
  <2> HIDE DEF s
  <2>2. Letters(s) = {1, 2, 3}
    BY <1>2, <2>1 DEF Letters
  <2>3. \A i \in {1, 2, 3} : s[i][1] = m
    BY <1>2, <2>1
  <2>4. Cardinality({1, 2, 3}) = 3
    BY ThreeAre
  <2>5. SeenBy(c, m) = s
    BY <1>1, <1>3 DEF s
  <2>6. QED BY <2>2, <2>3, <2>4, <2>5 DEF IsMessage
<1>4. CASE ~AloneBy(c, m)
  <2> DEFINE s == <<v, w, Space, <<m, 3>>>>
  <2>1. DOMAIN s = {1, 2, 3, 4} /\ s[1] = v /\ s[2] = w /\ s[3] = Space /\ s[4] = <<m, 3>>
    OBVIOUS
  <2> HIDE DEF s
  <2>2. Letters(s) = {1, 2, 4}
    BY <1>2, <2>1 DEF Letters
  <2>3. \A i \in {1, 2, 4} : s[i][1] = m
    BY <1>2, <2>1
  <2>4. Cardinality({1, 2, 4}) = 3
    BY ThreeAre
  <2>5. SeenBy(c, m) = s
    BY <1>1, <1>4 DEF s
  <2>6. QED BY <2>2, <2>3, <2>4, <2>5 DEF IsMessage
<1>5. QED BY <1>3, <1>4

(* Its first character and its last.                                       *)
LEMMA SeenEnds ==
  ASSUME NEW c, NEW m \in 1 .. Sent
  PROVE  /\ Len(SeenBy(c, m)) \in Nat /\ Len(SeenBy(c, m)) >= 1
         /\ SeenBy(c, m)[1] # Space /\ SeenBy(c, m)[1][1] = m
         /\ SeenBy(c, m)[Len(SeenBy(c, m))] # Space
         /\ SeenBy(c, m)[Len(SeenBy(c, m))][1] = m
<1>1. PICK v \in {<<m, 0>>, <<m, 1>>, <<m, 2>>}, w \in {<<m, 0>>, <<m, 1>>, <<m, 2>>} :
        SeenBy(c, m) = IF AloneBy(c, m) THEN <<v, w, <<m, 3>>>> ELSE <<v, w, Space, <<m, 3>>>>
  BY SeenTwo
<1>2. v # Space /\ v[1] = m /\ <<m, 3>> # Space /\ <<m, 3>>[1] = m
  <2>1. \A k : <<m, k>> # Space /\ <<m, k>>[1] = m
    BY NotWhite
  <2>2. QED BY <2>1
<1>3. CASE AloneBy(c, m)
  <2> DEFINE s == <<v, w, <<m, 3>>>>
  <2>1. Len(s) = 3 /\ s[1] = v /\ s[3] = <<m, 3>> /\ SeenBy(c, m) = s
    BY <1>1, <1>3
  <2> HIDE DEF s
  <2>2. QED BY <1>2, <2>1
<1>4. CASE ~AloneBy(c, m)
  <2> DEFINE s == <<v, w, Space, <<m, 3>>>>
  <2>1. Len(s) = 4 /\ s[1] = v /\ s[4] = <<m, 3>> /\ SeenBy(c, m) = s
    BY <1>1, <1>4
  <2> HIDE DEF s
  <2>2. Len(s) \in Nat /\ Len(s) >= 1 /\ s[Len(s)] = <<m, 3>>
    BY <2>1
  <2>3. QED BY <1>2, <2>1, <2>2
<1>5. QED BY <1>3, <1>4

(* Messages that run together are no message.                              *)
LEMMA RunIsNoMessage ==
  ASSUME NEW c, NEW a \in 1 .. Sent, NEW l \in 1 .. Sent, a < l
  PROVE  ~IsMessage(ViewText(c, 6 * a - 5, 6 * l - 2))
<1> DEFINE first == 6 * a - 5
           m1 == 6 * a - 2
           m2 == 6 * l - 6
           last == 6 * l - 2
<1>1. /\ first \in Nat /\ first >= 1 /\ m1 \in Nat /\ first <= m1 + 1 /\ m2 \in Nat /\ m1 <= m2
      /\ last \in Nat /\ m2 <= last /\ last <= Bytes /\ m1 <= last /\ m1 + 1 <= m2 + 1
      /\ m1 + 1 \in Nat /\ m1 + 1 >= 1 /\ m2 + 1 \in Nat /\ m2 + 1 >= 1
      /\ m1 <= Bytes /\ m2 <= Bytes
  BY BytesIs
<1>2. ViewText(c, first, m1) = SeenBy(c, a) /\ ViewText(c, m2 + 1, last) = SeenBy(c, l)
  <2>1. /\ first = BeginsAt(a) + 1 /\ m1 = BeginsAt(a) + 4
        /\ m2 + 1 = BeginsAt(l) + 1 /\ last = BeginsAt(l) + 4 /\ 4 \in 4 .. 6
    BY BytesIs DEF BeginsAt
  <2> HIDE DEF first, m1, m2, last
  <2>2. QED BY <2>1, ViewTextOne
<1> HIDE DEF first, m1, m2, last
<1> DEFINE mid == m1 + 1
           A == ViewText(c, first, m1)
           R == ViewText(c, mid, last)
           B == ViewText(c, mid, m2)
           Z == ViewText(c, m2 + 1, last)
           W == ViewText(c, first, last)
<1>3. W = A \o R
  <2>1. Parts(first, m1, last)
    BY <1>1 DEF Parts
  <2>2. QED BY <2>1, ViewTextConcat DEF IsConcat
<1>4. R = B \o Z
  <2>1. Parts(mid, m2, last)
    BY <1>1 DEF Parts
  <2>2. QED BY <2>1, ViewTextConcat DEF IsConcat
<1>5. A \in Seq(Chars) /\ R \in Seq(Chars) /\ B \in Seq(Chars) /\ Z \in Seq(Chars)
  <2>1. mid \in Nat /\ mid >= 1 /\ m1 \in Int /\ m2 \in Int /\ last \in Int
    BY <1>1
  <2> HIDE DEF mid
  <2>2. QED BY <1>1, <2>1, ViewTextType
<1>6. /\ Len(A) \in Nat /\ Len(A) >= 1 /\ A[1] # Space /\ A[1][1] = a
      /\ Len(Z) \in Nat /\ Len(Z) >= 1 /\ Z[Len(Z)] # Space /\ Z[Len(Z)][1] = l
  BY <1>2, SeenEnds
<1> HIDE DEF A, R, B, Z
<1>7. /\ Len(R) = Len(B) + Len(Z) /\ Len(B) \in Nat /\ R[Len(B) + Len(Z)] = Z[Len(Z)]
  <2>1. /\ Len(B \o Z) = Len(B) + Len(Z) /\ Len(B) \in Nat
        /\ \A i \in 1 .. Len(B) + Len(Z) : (B \o Z)[i] = IF i <= Len(B) THEN B[i] ELSE Z[i - Len(B)]
    BY <1>5, ConcatProperties, LenProperties
  <2> DEFINE k == Len(B) + Len(Z)
  <2>2. k \in 1 .. Len(B) + Len(Z) /\ ~(k <= Len(B)) /\ k - Len(B) = Len(Z)
    BY <1>6, <2>1
  <2> HIDE DEF k
  <2>3. (B \o Z)[k] = Z[Len(Z)]
    BY <2>1, <2>2
  <2>4. QED BY <1>4, <2>1, <2>3 DEF k
<1> DEFINE k == Len(A) + Len(R)
<1>8. W \in Seq(Chars) /\ Len(W) = k /\ 1 \in 1 .. k /\ k \in 1 .. k /\ W[1] = A[1] /\ W[k] = Z[Len(Z)]
  <2>1. /\ A \o R \in Seq(Chars) /\ Len(A \o R) = Len(A) + Len(R) /\ Len(R) \in Nat
        /\ \A i \in 1 .. Len(A) + Len(R) : (A \o R)[i] = IF i <= Len(A) THEN A[i] ELSE R[i - Len(A)]
    BY <1>5, ConcatProperties, LenProperties
  <2>2. /\ k \in 1 .. Len(A) + Len(R) /\ ~(k <= Len(A)) /\ k - Len(A) = Len(R)
        /\ 1 \in 1 .. Len(A) + Len(R) /\ 1 <= Len(A)
    BY <1>6, <1>7, <2>1
  <2>3. k = Len(A) + Len(R)
    OBVIOUS
  <2> HIDE DEF k, W
  <2>4. (A \o R)[k] = R[Len(R)] /\ (A \o R)[1] = A[1]
    BY <2>1, <2>2
  <2>5. QED BY <1>3, <1>7, <2>1, <2>2, <2>3, <2>4
<1> HIDE DEF k, W
<1>9. 1 \in Letters(W) /\ k \in Letters(W)
  <2>1. DOMAIN W = 1 .. k
    BY <1>8, LenProperties
  <2>2. QED BY <1>6, <1>8, <2>1 DEF Letters
<1>10. W[1][1] # W[k][1]
  <2>1. W[1][1] = a /\ W[k][1] = l
    BY <1>6, <1>8
  <2>2. a # l
    BY BytesIs
  <2>3. QED BY <2>1, <2>2
<1>11. ~IsMessage(W)
  BY <1>9, <1>10 DEF IsMessage
<1>12. QED BY <1>11 DEF W, first, last

-----------------------------------------------------------------------------
(* The inductive invariant.                                                *)

CutBy(c, m)  == 6 * m - 2 \in c \/ 6 * m - 1 \in c
SafeBy(c, m) == ~CutBy(c, m) /\ (m > 1 => ~CutBy(c, m - 1))

SafeSet(c, r) == {m \in 1 .. Sent : 6 * m <= r /\ SafeBy(c, m)}
SeenAll(c)    == [m \in 1 .. Sent |-> SeenBy(c, m)]

(* What is unfinished is the text of the messages from a on: the one       *)
(* before a ended uncut, and the terminators since then have been cut.     *)
JoiningFrom(a, r, u, c) ==
  /\ a \in 1 .. Sent + 1 /\ 6 * a - 6 <= r
  /\ a > 1 => ~CutBy(c, a - 1)
  /\ \A m \in a .. Sent : 6 * m - 2 <= r => CutBy(c, m)
  /\ TextOf(u) = ViewText(c, 6 * a - 5, r)

FrameInvOf(r, u, h, c) ==
  /\ r \in 0 .. Bytes /\ u \in Seq(Chars)
  /\ c \subseteq 1 .. r /\ (r > 0 => r \in c)
  /\ h = At(SeenAll(c), SafeSet(c, r))
  /\ \E a \in Nat : JoiningFrom(a, r, u, c)

FrameInv == FrameInvOf(received, unfinishedLine, handled, cuts)

(* The places of terminators and characters, by the source's names.        *)
LEMMA NamesAre ==
  /\ \A m \in 1 .. Sent : TerminatorCut(m) <=> CutBy(cuts, m)
  /\ {m \in Arrived : Safe(m)} = SafeSet(cuts, received)
  /\ [m \in 1 .. Sent |-> Seen(m)] = SeenAll(cuts)
<1>1. ASSUME NEW m \in Int PROVE TerminatorCut(m) <=> CutBy(cuts, m)
  <2>1. Before(m) = 6 * m - 6
    BY BeforeIs DEF BeginsAt
  <2>2. Before(m) + 4 = 6 * m - 2 /\ Before(m) + 5 = 6 * m - 1
    BY <2>1
  <2>3. QED BY <2>2 DEF TerminatorCut, CutBy
<1>2. ASSUME NEW m \in 1 .. Sent PROVE Safe(m) <=> SafeBy(cuts, m)
  BY <1>1 DEF Safe, SafeBy
<1>3. ASSUME NEW m \in 1 .. Sent PROVE Before(m + 1) = 6 * m
  BY BeforeIs
<1>4. {m \in Arrived : Safe(m)} = SafeSet(cuts, received)
  BY <1>2, <1>3 DEF Arrived, SafeSet
<1>5. \A m \in 1 .. Sent : Seen(m) = SeenBy(cuts, m)
  BY DEF Seen, SeenBy, CharacterCut, SpaceAlone, AloneBy
<1>6. QED BY <1>1, <1>4, <1>5 DEF SeenAll

(* n bytes after the first r of them, what is unfinished being u; c2 and e *)
(* are the cuts and the bytes then.                                        *)
Arrives(c, c2, r, n, e, a, u) ==
  /\ e = r + n /\ c2 = c \cup {e}
  /\ r \in Nat /\ n \in Nat /\ n >= 1 /\ r + n <= Bytes /\ c \subseteq 1 .. r
  /\ a \in Nat /\ u \in Seq(Chars) /\ JoiningFrom(a, r, u, c)

Ended(a, lo, hi) == IF a = lo THEN lo .. hi ELSE lo + 1 .. hi

(* A buffer makes those messages safe whose terminators it brings in one   *)
(* piece, but for the first if that joins others.                          *)
LEMMA SafeGrows ==
  ASSUME NEW c, NEW c2, NEW r, NEW n, NEW e, NEW a, NEW u, Arrives(c, c2, r, n, e, a, u),
         NEW lo, NEW hi, LineSpan(lo, hi, r, n)
  PROVE  /\ a <= lo
         /\ SafeSet(c2, e) = SafeSet(c, r) \cup Ended(a, lo, hi)
         /\ Precedes(SafeSet(c, r), Ended(a, lo, hi))
         /\ Ended(a, lo, hi) \subseteq 1 .. Sent
<1>0. /\ e = r + n /\ e \in Nat /\ c2 = c \cup {e}
      /\ r \in Nat /\ n \in Nat /\ n >= 1 /\ r + n <= Bytes /\ c \subseteq 1 .. r
      /\ a \in Nat /\ u \in Seq(Chars) /\ JoiningFrom(a, r, u, c)
      /\ lo \in 1 .. Sent /\ hi \in 0 .. Sent /\ lo \in Nat /\ hi \in Nat /\ lo \in Int /\ hi \in Int
  BY BytesIs DEF Arrives, LineSpan
<1> USE <1>0
<1>1. /\ lo \in 1 .. Sent /\ hi \in 0 .. Sent /\ lo <= hi + 1 /\ Sent \in Nat
      /\ 6 * lo - 8 <= r /\ r < 6 * lo - 2
      /\ 6 * hi <= r + n /\ r + n < 6 * hi + 6
  BY BytesIs DEF LineSpan
<1>2. /\ a \in 1 .. Sent + 1 /\ 6 * a - 6 <= r
      /\ (a > 1 => ~CutBy(c, a - 1))
      /\ \A m \in a .. Sent : 6 * m - 2 <= r => CutBy(c, m)
  BY DEF JoiningFrom
<1>3. a <= lo
  BY <1>1, <1>2
<1>4. \A i \in Int : (i \in c2 <=> i \in c \/ i = r + n) /\ (i \in c => i <= r)
  OBVIOUS
<1>5. ASSUME NEW m \in Int, 6 * m <= r + n PROVE CutBy(c2, m) <=> CutBy(c, m)
  <2>1. 6 * m - 2 \in Int /\ 6 * m - 1 \in Int /\ 6 * m - 2 # r + n /\ 6 * m - 1 # r + n
    BY <1>5
  <2>2. QED BY <1>4, <2>1 DEF CutBy
<1>6. ASSUME NEW m \in Int, 6 * m - 2 > r PROVE ~CutBy(c, m)
  <2>1. 6 * m - 2 \in Int /\ 6 * m - 1 \in Int /\ ~(6 * m - 2 <= r) /\ ~(6 * m - 1 <= r)
    BY <1>6
  <2>2. QED BY <1>4, <2>1 DEF CutBy
<1>7. ASSUME NEW m \in 1 .. Sent, 6 * m <= r + n PROVE SafeBy(c2, m) <=> SafeBy(c, m)
  <2>1. m \in Int /\ m - 1 \in Int /\ 6 * (m - 1) <= r + n
    BY <1>1, <1>7
  <2>2. QED BY <1>5, <1>7, <2>1 DEF SafeBy
<1>8. ASSUME NEW m \in 1 .. Sent, m > lo PROVE SafeBy(c, m)
  <2>1. m \in Int /\ m - 1 \in Int /\ 6 * m - 2 > r /\ 6 * (m - 1) - 2 > r
    BY <1>1, <1>8
  <2>2. QED BY <1>6, <2>1 DEF SafeBy
<1>9. SafeBy(c, lo) <=> a = lo
  <2>1. lo \in Int /\ ~CutBy(c, lo)
    BY <1>1, <1>6
  <2>2. CASE a = lo
    BY <1>2, <2>1, <2>2 DEF SafeBy
  <2>3. CASE a # lo
    <3>1. lo - 1 \in a .. Sent /\ 6 * (lo - 1) - 2 <= r /\ lo > 1
      BY <1>1, <1>2, <1>3, <2>3
    <3>2. QED BY <1>2, <2>3, <3>1 DEF SafeBy
  <2>4. QED BY <2>2, <2>3
<1>10. ASSUME NEW m \in 1 .. Sent, m < lo, 6 * m > r PROVE ~SafeBy(c, m)
  <2>1. m \in a .. Sent /\ 6 * m - 2 <= r
    BY <1>1, <1>2, <1>3, <1>10
  <2>2. QED BY <1>2, <2>1 DEF SafeBy
<1>11. ASSUME NEW m \in 1 .. Sent
       PROVE  6 * m <= r + n /\ SafeBy(c2, m) <=> (6 * m <= r /\ SafeBy(c, m)) \/ m \in Ended(a, lo, hi)
  <2>1. m \in Nat
    BY <1>1
  <2>2. CASE m > lo
    <3>1. m \in Ended(a, lo, hi) <=> 6 * m <= r + n
      BY <1>1, <1>3, <2>1, <2>2 DEF Ended
    <3>2. ~(6 * m <= r) /\ SafeBy(c, m)
      BY <1>1, <1>8, <2>1, <2>2
    <3>3. QED BY <1>7, <3>1, <3>2
  <2>3. CASE m = lo
    <3>1. m \in Ended(a, lo, hi) <=> a = lo /\ 6 * m <= r + n
      BY <1>1, <1>3, <2>1, <2>3 DEF Ended
    <3>2. ~(6 * m <= r)
      BY <1>1, <2>1, <2>3
    <3>3. QED BY <1>7, <1>9, <2>3, <3>1, <3>2
  <2>4. CASE m < lo
    <3>1. m \notin Ended(a, lo, hi)
      BY <1>1, <2>1, <2>4 DEF Ended
    <3>2. 6 * m <= r => 6 * m <= r + n
      BY <2>1
    <3>3. SafeBy(c, m) => 6 * m <= r
      BY <1>10, <2>1, <2>4
    <3>4. QED BY <1>7, <3>1, <3>2, <3>3
  <2>5. m > lo \/ m = lo \/ m < lo
    BY <1>1, <2>1
  <2>6. QED BY <2>2, <2>3, <2>4, <2>5
<1>12. \A m \in Ended(a, lo, hi) : m \in 1 .. Sent /\ m >= lo
  BY <1>1 DEF Ended
<1>13. SafeSet(c2, e) = SafeSet(c, r) \cup Ended(a, lo, hi)
  BY <1>11, <1>12 DEF SafeSet
<1>14. ASSUME NEW m \in SafeSet(c, r), NEW l \in Ended(a, lo, hi) PROVE m < l
  <2>1. m \in Nat /\ 6 * m <= r
    BY BytesIs DEF SafeSet
  <2>2. l \in Nat /\ l >= lo
    BY <1>1, <1>12
  <2>3. QED BY <1>1, <2>1, <2>2
<1>15. Precedes(SafeSet(c, r), Ended(a, lo, hi))
  BY <1>14 DEF Precedes
<1>16. QED BY <1>3, <1>12, <1>13, <1>15

(* A buffer without text makes no message safe.                            *)
LEMMA SafeStays ==
  ASSUME NEW c, NEW c2, NEW r, NEW n, NEW e, NEW a, NEW u, Arrives(c, c2, r, n, e, a, u), ~HasText(r, n)
  PROVE  /\ \A m \in a .. Sent : 6 * m - 2 <= r + n => 6 * m - 2 <= r
         /\ SafeSet(c2, e) = SafeSet(c, r)
<1>0. /\ e = r + n /\ e \in Nat /\ c2 = c \cup {e}
      /\ r \in Nat /\ n \in Nat /\ n >= 1 /\ r + n <= Bytes /\ c \subseteq 1 .. r
      /\ a \in Nat /\ u \in Seq(Chars) /\ JoiningFrom(a, r, u, c)
  BY DEF Arrives
<1> USE <1>0
<1>1. /\ a \in 1 .. Sent + 1 /\ 6 * a - 6 <= r
      /\ \A m \in a .. Sent : 6 * m - 2 <= r => CutBy(c, m)
  BY DEF JoiningFrom
<1>2. \A i \in Int : i \in c2 <=> i \in c \/ i = r + n
  OBVIOUS
<1>3. ASSUME NEW m \in 1 .. Sent, 6 * m - 2 <= r + n PROVE 6 * m - 2 <= r
  <2>1. ASSUME ~(6 * m - 2 <= r) PROVE FALSE
    <3>1. 6 * m - 2 \in r + 1 .. r + n /\ 6 * m - 2 \in Int
      BY <1>3, <2>1, BytesIs
    <3>2. IsText(6 * m - 2)
      <4>1. m \in 1 .. Sent /\ 6 * m - 5 <= 6 * m - 2 /\ 6 * m - 2 <= 6 * m - 2
            /\ 6 * m - 2 # 6 * m - 3
        BY BytesIs
      <4>2. QED BY <3>1, <4>1, TextIs
    <3>3. QED BY <3>1, <3>2 DEF HasText
  <2>2. QED BY <2>1
<1>4. ASSUME NEW m \in Int, 6 * m <= r + n PROVE CutBy(c2, m) <=> CutBy(c, m)
  <2>1. 6 * m - 2 \in Int /\ 6 * m - 1 \in Int /\ 6 * m - 2 # r + n /\ 6 * m - 1 # r + n
    BY <1>4
  <2>2. QED BY <1>2, <2>1 DEF CutBy
<1>5. ASSUME NEW m \in 1 .. Sent, 6 * m <= r + n PROVE SafeBy(c2, m) <=> SafeBy(c, m)
  <2>1. m \in Int /\ m - 1 \in Int /\ 6 * (m - 1) <= r + n
    BY <1>5, BytesIs
  <2>2. QED BY <1>4, <1>5, <2>1 DEF SafeBy
<1>6. ASSUME NEW m \in 1 .. Sent, 6 * m <= r + n, SafeBy(c, m) PROVE 6 * m <= r
  <2>1. ASSUME ~(6 * m <= r) PROVE FALSE
    <3>1. m \in a .. Sent /\ 6 * m - 2 <= r + n
      BY <1>1, <1>6, <2>1, BytesIs
    <3>2. CutBy(c, m)
      BY <1>1, <1>3, <3>1
    <3>3. QED BY <1>6, <3>2 DEF SafeBy
  <2>2. QED BY <2>1
<1>7. \A m \in 1 .. Sent : 6 * m <= r => 6 * m <= r + n
  BY BytesIs
<1>8. SafeSet(c2, e) = SafeSet(c, r)
  BY <1>5, <1>6, <1>7 DEF SafeSet
<1>9. \A m \in a .. Sent : 6 * m - 2 <= r + n => 6 * m - 2 <= r
  <2>1. \A m \in a .. Sent : m \in 1 .. Sent
    BY <1>1, BytesIs
  <2>2. QED BY <1>3, <2>1
<1>10. QED BY <1>8, <1>9

(* What has been handled stays as it was seen.                             *)
LEMMA HandledStays ==
  ASSUME NEW c, NEW r \in Nat, NEW e \in Nat, r < e
  PROVE  /\ Bounded(SafeSet(c, r))
         /\ At(SeenAll(c \cup {e}), SafeSet(c, r)) = At(SeenAll(c), SafeSet(c, r))
<1> DEFINE S == SafeSet(c, r)
<1>1. S \subseteq 1 .. Sent /\ Bounded(S)
  BY BytesIs DEF SafeSet, Bounded
<1>2. ASSUME NEW m \in S PROVE SeenAll(c \cup {e})[m] = SeenAll(c)[m]
  <2>1. m \in 1 .. Sent /\ m \in Int /\ 6 * m - 3 < e
    BY BytesIs DEF SafeSet
  <2>2. SeenBy(c \cup {e}, m) = SeenBy(c, m)
    BY <2>1, SeenStays
  <2>3. QED BY <2>1, <2>2 DEF SeenAll
<1> HIDE DEF S
<1>3. At(SeenAll(c \cup {e}), S) = At(SeenAll(c), S)
  BY <1>1, <1>2, AtAgree
<1>4. QED BY <1>1, <1>3 DEF S

JoinFrom(a, lo, j) == IF j = 1 THEN 6 * a - 5 ELSE 6 * (lo + j) - 11

AreJoined(js, c, a, lo, hi, r, n) ==
  /\ js \in Seq(Seq(Chars)) /\ Len(js) = LineCount(lo, hi, r, n)
  /\ \A j \in 1 .. LineCount(lo, hi, r, n) :
       TextOf(js[j]) = ViewText(c, JoinFrom(a, lo, j), LineTo(lo, hi, r, n, j))

(* The lines of a buffer once the unfinished line has been joined to the   *)
(* first of them.                                                          *)
LEMMA JoinedAre ==
  ASSUME NEW c, NEW c2, NEW r, NEW n, NEW e, NEW a, NEW u, Arrives(c, c2, r, n, e, a, u),
         NEW lo, NEW hi, LineSpan(lo, hi, r, n), a <= lo,
         NEW ls, AreLines(ls, c2, lo, hi, r, n)
  PROVE  /\ LineCount(lo, hi, r, n) \in Nat /\ LineCount(lo, hi, r, n) >= 1
         /\ AreJoined([ls EXCEPT ![1] = u \o @], c2, a, lo, hi, r, n)
<1> DEFINE js == [ls EXCEPT ![1] = u \o @]
           count == LineCount(lo, hi, r, n)
           to == LineTo(lo, hi, r, n, 1)
           A == ViewText(c2, 6 * a - 5, r)
           B == ViewText(c2, r + 1, to)
<1>0. /\ e = r + n /\ e \in Nat /\ c2 = c \cup {e}
      /\ r \in Nat /\ n \in Nat /\ n >= 1 /\ r + n <= Bytes /\ c \subseteq 1 .. r
      /\ a \in Nat /\ u \in Seq(Chars) /\ JoiningFrom(a, r, u, c)
      /\ lo \in 1 .. Sent /\ hi \in 0 .. Sent /\ lo \in Nat /\ hi \in Nat /\ lo \in Int /\ hi \in Int
  BY BytesIs DEF Arrives, LineSpan
<1> USE <1>0
<1>1. /\ lo \in 1 .. Sent /\ hi \in 0 .. Sent /\ lo <= hi + 1 /\ Sent \in Nat
      /\ 6 * lo - 8 <= r /\ r < 6 * lo - 2 /\ (r + n = 6 * hi => lo <= hi)
      /\ 6 * hi <= r + n /\ r + n < 6 * hi + 6 /\ Bytes = 6 * Sent
  BY BytesIs DEF LineSpan
<1>2. a >= 1 /\ 6 * a - 6 <= r /\ TextOf(u) = ViewText(c, 6 * a - 5, r)
  BY <1>1 DEF JoiningFrom
<1>3. count \in Nat /\ count >= 1 /\ 1 \in 1 .. count
  BY <1>1 DEF LineCount
<1>4. /\ ls \in Seq(Seq(Chars)) /\ Len(ls) = count
      /\ \A j \in 1 .. count :
           TextOf(ls[j]) = ViewText(c2, LineFrom(lo, r, j), LineTo(lo, hi, r, n, j))
  BY DEF AreLines
<1> HIDE DEF count
<1>5. ls[1] \in Seq(Chars)
  BY <1>3, <1>4, ElementOfSeq
<1>6. u \o ls[1] \in Seq(Chars) /\ IsConcat(TextOf(u \o ls[1]), TextOf(u), TextOf(ls[1]))
  BY <1>5, TextOfConcat
<1>7. js \in Seq(Seq(Chars)) /\ Len(js) = count
      /\ \A j \in 1 .. count : js[j] = IF j = 1 THEN u \o ls[1] ELSE ls[j]
  <2>1. ls = [j \in 1 .. count |-> ls[j]]
    BY <1>4, LenProperties
  <2> DEFINE w == u \o ls[1]
  <2>2. w \in Seq(Chars)
    BY <1>6
  <2> HIDE DEF w
  <2>3. \A j \in 1 .. count : ls[j] \in Seq(Chars)
    BY <1>4, ElementOfSeq
  <2>4. [ls EXCEPT ![1] = w] = [j \in 1 .. count |-> IF j = 1 THEN w ELSE ls[j]]
    BY <2>1
  <2>5. [j \in 1 .. count |-> IF j = 1 THEN w ELSE ls[j]] \in Seq(Seq(Chars))
    BY <1>3, <2>2, <2>3
  <2>6. Len([j \in 1 .. count |-> IF j = 1 THEN w ELSE ls[j]]) = count
    BY <1>3
  <2>7. QED BY <2>4, <2>5, <2>6 DEF w
<1>8. 6 * a - 5 \in Nat /\ 6 * a - 5 >= 1 /\ r <= Bytes /\ r + n \in Nat /\ r < r + n
      /\ to \in Nat /\ r <= to /\ to <= Bytes /\ 6 * a - 5 <= r + 1
  BY <1>1, <1>2 DEF LineTo
<1>9. TextOf(u) = A
  BY <1>2, <1>8, ViewStays
<1>10. TextOf(ls[1]) = B
  BY <1>3, <1>4 DEF LineFrom
<1>11. IsConcat(ViewText(c2, 6 * a - 5, to), A, B)
  <2>1. Parts(6 * a - 5, r, to)
    BY <1>8 DEF Parts
  <2>2. QED BY <2>1, ViewTextConcat
<1>12. TextOf(js[1]) = ViewText(c2, JoinFrom(a, lo, 1), to)
  <2>1. js[1] = u \o ls[1]
    BY <1>3, <1>7
  <2>2. TextOf(u \o ls[1]) = ViewText(c2, 6 * a - 5, to)
    <3> HIDE DEF A, B, to
    <3>1. QED BY <1>6, <1>9, <1>10, <1>11 DEF IsConcat
  <2>3. QED BY <2>1, <2>2 DEF JoinFrom
<1>13. ASSUME NEW j \in 1 .. count, j # 1
       PROVE  TextOf(js[j]) = ViewText(c2, JoinFrom(a, lo, j), LineTo(lo, hi, r, n, j))
  BY <1>4, <1>7, <1>13 DEF JoinFrom, LineFrom
<1> HIDE DEF js, A, B
<1>14. AreJoined(js, c2, a, lo, hi, r, n)
  BY <1>7, <1>12, <1>13 DEF AreJoined, count
<1>15. QED BY <1>3, <1>14 DEF js, count

TextsOf(lines)  == [i \in DOMAIN lines |-> TextOf(lines[i])]
ParsedOf(texts) == At(texts, {i \in DOMAIN texts : IsMessage(texts[i])})

AreEnded(f, c, a, lo, hi) ==
  /\ a \in Nat /\ a >= 1 /\ lo \in 1 .. Sent /\ hi \in 0 .. Sent /\ a <= lo /\ lo <= hi + 1
  /\ Len(f) = hi + 1 - lo /\ f \in Seq(Seq(Chars))
  /\ \A j \in 1 .. hi + 1 - lo : TextOf(f[j]) = ViewText(c, JoinFrom(a, lo, j), 6 * (lo + j) - 8)

(* Of the lines that a buffer ends, those are messages that begin with the *)
(* text of one.                                                            *)
LEMMA EndedAreHandled ==
  ASSUME NEW f, NEW c, NEW a, NEW lo, NEW hi, AreEnded(f, c, a, lo, hi)
  PROVE  ParsedOf(TextsOf(f)) = At(SeenAll(c), Ended(a, lo, hi))
<1> DEFINE texts == TextsOf(f)
           g == hi + 1 - lo
           S == {i \in DOMAIN texts : IsMessage(texts[i])}
           T == IF a = lo THEN 1 .. g ELSE 2 .. g
<1>0. /\ a \in Nat /\ a >= 1 /\ lo \in 1 .. Sent /\ hi \in 0 .. Sent /\ a <= lo /\ lo <= hi + 1
      /\ Len(f) = hi + 1 - lo /\ f \in Seq(Seq(Chars))
      /\ \A j \in 1 .. hi + 1 - lo : TextOf(f[j]) = ViewText(c, JoinFrom(a, lo, j), 6 * (lo + j) - 8)
  BY DEF AreEnded
<1> USE <1>0
<1>1. g \in Nat /\ Sent \in Nat /\ lo \in Nat /\ hi \in Nat
  BY BytesIs
<1>2. DOMAIN f = 1 .. g
  BY LenProperties
<1>3. DOMAIN texts = 1 .. g /\ \A j \in 1 .. g :
         texts[j] = ViewText(c, JoinFrom(a, lo, j), 6 * (lo + j) - 8)
  BY <1>2 DEF TextsOf
<1> HIDE DEF texts
<1>4. ASSUME NEW j \in 1 .. g, j # 1 \/ a = lo
      PROVE  texts[j] = SeenBy(c, lo + j - 1)
  <2> DEFINE m == lo + j - 1
  <2>1. /\ m \in 1 .. Sent /\ 4 \in 4 .. 6
        /\ JoinFrom(a, lo, j) = BeginsAt(m) + 1 /\ 6 * (lo + j) - 8 = BeginsAt(m) + 4
    BY <1>1, <1>4 DEF JoinFrom, BeginsAt
  <2> HIDE DEF m
  <2>2. texts[j] = ViewText(c, BeginsAt(m) + 1, BeginsAt(m) + 4)
    BY <1>3, <2>1
  <2>3. texts[j] = SeenBy(c, m)
    BY <2>1, <2>2, ViewTextOne
  <2>4. QED BY <2>3 DEF m
<1>5. ASSUME 1 \in 1 .. g, a # lo
      PROVE  ~IsMessage(texts[1])
  <2>1. /\ texts[1] = ViewText(c, 6 * a - 5, 6 * lo - 2) /\ a < lo /\ a \in 1 .. Sent
    <3>1. 6 * (lo + 1) - 8 = 6 * lo - 2 /\ a < lo /\ a \in 1 .. Sent
      BY <1>1, <1>5
    <3>2. QED BY <1>3, <1>5, <3>1 DEF JoinFrom
  <2>2. QED BY <2>1, RunIsNoMessage
<1>6. ASSUME NEW j \in 1 .. g, j # 1 \/ a = lo PROVE IsMessage(texts[j])
  <2>1. lo + j - 1 \in 1 .. Sent /\ texts[j] = SeenBy(c, lo + j - 1)
    BY <1>1, <1>4, <1>6
  <2>2. QED BY <2>1, SeenIsMessage
<1> HIDE DEF g
<1>7. S = T
  <2>1. ASSUME NEW j PROVE j \in S <=> j \in T
    <3>1. j \in T <=> j \in 1 .. g /\ (j # 1 \/ a = lo)
      BY <1>1
    <3>2. j \in S <=> j \in 1 .. g /\ IsMessage(texts[j])
      BY <1>3
    <3>3. ASSUME j \in 1 .. g PROVE IsMessage(texts[j]) <=> (j # 1 \/ a = lo)
      BY <1>5, <1>6, <3>3
    <3>4. QED BY <3>1, <3>2, <3>3
  <2>2. QED BY <2>1
<1>8. Bounded(T) /\ T \subseteq 1 .. g
  <2>1. T \subseteq 1 .. g
    BY <1>1
  <2> HIDE DEF T
  <2>2. QED BY <1>1, <2>1 DEF Bounded
<1>9. AreMoved(Ended(a, lo, hi), T, lo - 1)
  <2>1. lo - 1 \in Int /\ Ended(a, lo, hi) \subseteq Nat
    BY <1>1 DEF Ended
  <2>2. ASSUME NEW m PROVE m \in Ended(a, lo, hi) <=> \E j \in T : m = j + (lo - 1)
    <3>1. ASSUME m \in Ended(a, lo, hi) PROVE m - (lo - 1) \in T /\ m = (m - (lo - 1)) + (lo - 1)
      BY <1>1, <3>1 DEF Ended, g
    <3>2. ASSUME NEW j \in T PROVE j + (lo - 1) \in Ended(a, lo, hi)
      BY <1>1 DEF Ended, g
    <3>3. QED BY <3>1, <3>2
  <2> HIDE DEF T
  <2>3. Ended(a, lo, hi) = {j + (lo - 1) : j \in T}
    BY <2>2
  <2>4. QED BY <2>1, <2>3 DEF AreMoved
<1>10. MovedBy(texts, SeenAll(c), T, lo - 1)
  <2>1. ASSUME NEW j \in T PROVE texts[j] = SeenAll(c)[j + (lo - 1)]
    <3>1. j \in 1 .. g /\ (j # 1 \/ a = lo)
      BY <1>1
    <3>2. lo + j - 1 = j + (lo - 1) /\ j + (lo - 1) \in 1 .. Sent
      BY <1>1, <3>1 DEF g
    <3>3. QED BY <1>4, <3>1, <3>2 DEF SeenAll
  <2>2. QED BY <2>1 DEF MovedBy
<1> HIDE DEF S, T
<1>11. At(texts, T) = At(SeenAll(c), Ended(a, lo, hi))
  BY <1>8, <1>9, <1>10, AtMoved
<1>12. QED BY <1>7, <1>11 DEF S, ParsedOf, texts

(* The messages handled before a buffer and those that it ends are the     *)
(* ones that are safe after it.                                            *)
LEMMA HandledGrow ==
  ASSUME NEW c, NEW c2, NEW r, NEW n, NEW e, NEW a, NEW u, Arrives(c, c2, r, n, e, a, u),
         NEW lo, NEW hi, LineSpan(lo, hi, r, n)
  PROVE  At(SeenAll(c2), SafeSet(c2, e))
           = At(SeenAll(c), SafeSet(c, r)) \o At(SeenAll(c2), Ended(a, lo, hi))
<1> DEFINE S == SafeSet(c, r)
           T == Ended(a, lo, hi)
           U == SafeSet(c2, e)
           C == {SeenAll(c2)[m] : m \in U}
<1>0. U = S \cup T /\ Precedes(S, T) /\ T \subseteq 1 .. Sent
  <2>1. /\ SafeSet(c2, e) = SafeSet(c, r) \cup Ended(a, lo, hi)
        /\ Precedes(SafeSet(c, r), Ended(a, lo, hi))
        /\ Ended(a, lo, hi) \subseteq 1 .. Sent
    BY SafeGrows
  <2>2. QED BY <2>1
<1>1. /\ e = r + n /\ e \in Nat /\ c2 = c \cup {e}
      /\ r \in Nat /\ n \in Nat /\ n >= 1 /\ r + n <= Bytes /\ c \subseteq 1 .. r
      /\ a \in Nat /\ u \in Seq(Chars) /\ JoiningFrom(a, r, u, c)
      /\ lo \in 1 .. Sent /\ hi \in 0 .. Sent /\ lo \in Nat /\ hi \in Nat /\ lo \in Int /\ hi \in Int
  BY BytesIs DEF Arrives, LineSpan
<1> USE <1>1
<1>2. Bounded(S) /\ At(SeenAll(c2), S) = At(SeenAll(c), S)
  <2>1. e \in Nat /\ r < e
    OBVIOUS
  <2>2. QED BY <2>1, HandledStays
<1>3. Bounded(T)
  BY <1>0, BytesIs DEF Bounded
<1>4. AreIn(SeenAll(c2), U, C)
  BY DEF AreIn
<1> HIDE DEF S, T, U, C
<1>5. Precedes(S, T)
  BY <1>0
<1>6. IsConcat(At(SeenAll(c2), U), At(SeenAll(c2), S), At(SeenAll(c2), T))
  BY <1>0, <1>2, <1>3, <1>4, <1>5, AtConcat
<1>7. QED BY <1>2, <1>6 DEF IsConcat, S, T, U

(* After a buffer that ends lines, what is unfinished begins with the next *)
(* message; after one that ends none, where it did.                        *)
NextJoined(a, lo, hi) == IF lo <= hi THEN hi + 1 ELSE a

LEMMA JoiningMoves ==
  ASSUME NEW c, NEW c2, NEW r, NEW n, NEW e, NEW a, NEW u, Arrives(c, c2, r, n, e, a, u),
         NEW lo, NEW hi, LineSpan(lo, hi, r, n), a <= lo,
         NEW v, TextOf(v) = ViewText(c2, 6 * NextJoined(a, lo, hi) - 5, e)
  PROVE  NextJoined(a, lo, hi) \in Nat /\ JoiningFrom(NextJoined(a, lo, hi), e, v, c2)
<1> DEFINE b == NextJoined(a, lo, hi)
<1>0. /\ e = r + n /\ e \in Nat /\ c2 = c \cup {e}
      /\ r \in Nat /\ n \in Nat /\ n >= 1 /\ r + n <= Bytes /\ c \subseteq 1 .. r
      /\ a \in Nat /\ u \in Seq(Chars) /\ JoiningFrom(a, r, u, c)
      /\ lo \in 1 .. Sent /\ hi \in 0 .. Sent /\ lo \in Nat /\ hi \in Nat /\ lo \in Int /\ hi \in Int
  BY BytesIs DEF Arrives, LineSpan
<1> USE <1>0
<1>1. /\ lo \in 1 .. Sent /\ hi \in 0 .. Sent /\ lo <= hi + 1 /\ Sent \in Nat
      /\ 6 * lo - 8 <= r /\ r < 6 * lo - 2
      /\ 6 * hi <= r + n /\ r + n < 6 * hi + 6 /\ Bytes = 6 * Sent
  BY BytesIs DEF LineSpan
<1>2. /\ a \in 1 .. Sent + 1 /\ 6 * a - 6 <= r
      /\ (a > 1 => ~CutBy(c, a - 1))
      /\ \A m \in a .. Sent : 6 * m - 2 <= r => CutBy(c, m)
  BY DEF JoiningFrom
<1>3. \A i \in Int : (i \in c2 <=> i \in c \/ i = r + n) /\ (i \in c => i <= r)
  OBVIOUS
<1>4. b \in 1 .. Sent + 1 /\ 6 * b - 6 <= r + n /\ (lo <= hi => b = hi + 1) /\ (hi < lo => b = a)
  BY <1>1, <1>2 DEF NextJoined
<1> HIDE DEF b
<1>5. ASSUME b > 1 PROVE ~CutBy(c2, b - 1)
  <2>1. CASE lo <= hi
    <3>1. /\ b - 1 = hi /\ 6 * hi - 2 \in Int /\ 6 * hi - 1 \in Int
          /\ ~(6 * hi - 2 <= r) /\ ~(6 * hi - 1 <= r) /\ 6 * hi - 2 # r + n /\ 6 * hi - 1 # r + n
      BY <1>1, <1>4, <2>1
    <3>2. QED BY <1>3, <3>1 DEF CutBy
  <2>2. CASE hi < lo
    <3>1. /\ b = a /\ ~CutBy(c, a - 1)
      BY <1>2, <1>4, <1>5, <2>2
    <3>2. /\ 6 * (a - 1) - 2 \in Int /\ 6 * (a - 1) - 1 \in Int
          /\ 6 * (a - 1) - 2 # r + n /\ 6 * (a - 1) - 1 # r + n
      BY <1>2
    <3>3. QED BY <1>3, <3>1, <3>2 DEF CutBy
  <2>3. QED BY <1>1, <2>1, <2>2
<1>6. ASSUME NEW m \in b .. Sent, 6 * m - 2 <= r + n PROVE CutBy(c2, m)
  <2>1. CASE 6 * m - 2 <= r
    <3>1. m \in a .. Sent
      BY <1>1, <1>2, <1>4, <2>1
    <3>2. 6 * m - 2 \in Int /\ 6 * m - 1 \in Int
      BY <1>4
    <3>3. CutBy(c, m)
      BY <1>2, <2>1, <3>1
    <3>4. QED BY <1>3, <3>2, <3>3 DEF CutBy
  <2>2. CASE 6 * m - 2 > r
    <3>1. m = hi + 1
      BY <1>1, <1>4, <1>6, <2>2
    <3>2. 6 * m - 2 = r + n \/ 6 * m - 1 = r + n
      BY <1>1, <1>6, <3>1
    <3>3. 6 * m - 2 \in Int /\ 6 * m - 1 \in Int
      BY <1>4
    <3>4. QED BY <1>3, <3>2, <3>3 DEF CutBy
  <2>3. m \in Int
    BY <1>4
  <2>4. QED BY <1>1, <2>1, <2>2, <2>3
<1>7. TextOf(v) = ViewText(c2, 6 * b - 5, e)
  BY DEF b
<1>8. JoiningFrom(b, e, v, c2)
  BY <1>4, <1>5, <1>6, <1>7 DEF JoiningFrom
<1>9. QED BY <1>4, <1>8 DEF b

Handles(lines, h, h2) == h2 = h \o ParsedOf(TextsOf(lines))

JoinedTo(u, ls) == [ls EXCEPT ![1] = u \o @]
EndsWith(hi, e) == e = 6 * hi

HandledBy(c, r, h) == h = At(SeenAll(c), SafeSet(c, r))

(* What each of the three cases of _handleData keeps.                      *)
LEMMA BlankKeeps ==
  ASSUME NEW c, NEW c2, NEW r, NEW n, NEW e, NEW a, NEW u, Arrives(c, c2, r, n, e, a, u),
         BufferAt(c2, r, n), ~HasText(r, n), NEW h, HandledBy(c, r, h)
  PROVE  HandledBy(c2, e, h) /\ JoiningFrom(a, e, u, c2)
<1>1. /\ \A m \in a .. Sent : 6 * m - 2 <= r + n => 6 * m - 2 <= r
      /\ SafeSet(c2, e) = SafeSet(c, r)
  BY SafeStays
<1>2. /\ e = r + n /\ e \in Nat /\ r < e /\ e <= Bytes /\ c2 = c \cup {e}
      /\ r \in Nat /\ n \in Nat /\ n >= 1 /\ c \subseteq 1 .. r /\ a \in Nat
      /\ a \in 1 .. Sent + 1 /\ 6 * a - 6 <= r
      /\ (a > 1 => ~CutBy(c, a - 1))
      /\ \A m \in a .. Sent : 6 * m - 2 <= r => CutBy(c, m)
      /\ TextOf(u) = ViewText(c, 6 * a - 5, r)
  BY DEF Arrives, JoiningFrom
<1>3. HandledBy(c2, e, h)
  BY <1>1, <1>2, HandledStays DEF HandledBy
<1>4. \A i \in Int : (i \in c2 <=> i \in c \/ i = e) /\ (i \in c => i <= r)
  BY <1>2
<1>5. ASSUME a > 1 PROVE ~CutBy(c2, a - 1)
  <2>1. /\ 6 * (a - 1) - 2 \in Int /\ 6 * (a - 1) - 1 \in Int
        /\ 6 * (a - 1) - 2 # e /\ 6 * (a - 1) - 1 # e
    BY <1>2
  <2>2. QED BY <1>2, <1>4, <1>5, <2>1 DEF CutBy
<1>6. ASSUME NEW m \in a .. Sent, 6 * m - 2 <= e PROVE CutBy(c2, m)
  <2>1. CutBy(c, m)
    BY <1>1, <1>2, <1>6
  <2>2. QED BY <1>2, <2>1 DEF CutBy
<1>7. TextOf(u) = ViewText(c2, 6 * a - 5, e)
  <2>1. 6 * a - 5 \in Nat /\ 6 * a - 5 >= 1 /\ r <= Bytes /\ r + 1 \in Nat /\ r + 1 >= 1
    BY <1>2, BytesIs
  <2>2. ViewText(c2, 6 * a - 5, r) = TextOf(u)
    BY <1>2, <2>1, ViewStays
  <2>3. TextPlaces(c2, 6 * a - 5, e) = TextPlaces(c2, 6 * a - 5, r)
    <3>1. /\ TextPlaces(c2, 6 * a - 5, e) = {i \in 6 * a - 5 .. e : IsKept(c2, i)}
          /\ TextPlaces(c2, 6 * a - 5, r) = {i \in 6 * a - 5 .. r : IsKept(c2, i)}
      BY <1>2, <2>1, TextPlacesAre
    <3>2. \A i \in r + 1 .. r + n : ~IsKept(c2, i)
      BY NothingKept
    <3>3. \A i : i \in 6 * a - 5 .. e /\ IsKept(c2, i) <=> i \in 6 * a - 5 .. r /\ IsKept(c2, i)
      <4>1. \A i : i \in 6 * a - 5 .. e => i \in 6 * a - 5 .. r \/ i \in r + 1 .. r + n
        BY <1>2
      <4>2. \A i : i \in 6 * a - 5 .. r => i \in 6 * a - 5 .. e
        BY <1>2
      <4>3. QED BY <3>2, <4>1, <4>2
    <3>4. QED BY <3>1, <3>3
  <2>4. QED BY <2>2, <2>3 DEF ViewText
<1>8. 6 * a - 6 <= e
  BY <1>2
<1>9. QED BY <1>2, <1>3, <1>5, <1>6, <1>7, <1>8 DEF JoiningFrom

LEMMA FinishedKeeps ==
  ASSUME NEW c, NEW c2, NEW r, NEW n, NEW e, NEW a, NEW u, Arrives(c, c2, r, n, e, a, u),
         NEW lo, NEW hi, LineSpan(lo, hi, r, n), NEW ls, AreLines(ls, c2, lo, hi, r, n),
         EndsWith(hi, e), NEW h, HandledBy(c, r, h),
         NEW h2, Handles(JoinedTo(u, ls), h, h2)
  PROVE  HandledBy(c2, e, h2) /\ \E b \in Nat : JoiningFrom(b, e, <<>>, c2)
<1> DEFINE js == JoinedTo(u, ls)
           b == NextJoined(a, lo, hi)
<1>1. a <= lo
  BY SafeGrows
<1>2. AreJoined(js, c2, a, lo, hi, r, n)
  BY <1>1, JoinedAre DEF JoinedTo
<1>3. /\ At(SeenAll(c2), SafeSet(c2, e))
           = At(SeenAll(c), SafeSet(c, r)) \o At(SeenAll(c2), Ended(a, lo, hi))
  BY HandledGrow
<1>4. /\ e = r + n /\ e \in Nat /\ e <= Bytes
      /\ a \in Nat /\ a >= 1 /\ lo \in 1 .. Sent /\ hi \in 0 .. Sent /\ lo <= hi + 1
      /\ lo <= hi /\ e = 6 * hi
  BY DEF Arrives, JoiningFrom, LineSpan, EndsWith
<1> HIDE DEF js
<1>5. /\ js \in Seq(Seq(Chars)) /\ Len(js) = hi + 1 - lo
      /\ \A j \in 1 .. hi + 1 - lo : TextOf(js[j]) = ViewText(c2, JoinFrom(a, lo, j), 6 * (lo + j) - 8)
  <2>1. LineCount(lo, hi, r, n) = hi + 1 - lo
    BY <1>4 DEF LineCount
  <2>2. \A j \in 1 .. hi + 1 - lo : LineTo(lo, hi, r, n, j) = 6 * (lo + j) - 8
    BY <1>4 DEF LineTo
  <2>3. QED BY <1>2, <2>1, <2>2 DEF AreJoined
<1>6. ParsedOf(TextsOf(js)) = At(SeenAll(c2), Ended(a, lo, hi))
  <2> HIDE DEF js
  <2>1. AreEnded(js, c2, a, lo, hi)
    BY <1>1, <1>4, <1>5 DEF AreEnded
  <2>2. QED BY <2>1, EndedAreHandled
<1>7. HandledBy(c2, e, h2)
  <2>1. h2 = h \o ParsedOf(TextsOf(js))
    BY DEF Handles, js
  <2>2. QED BY <1>3, <1>6, <2>1 DEF HandledBy
<1>8. TextOf(<<>>) = ViewText(c2, 6 * b - 5, e)
  <2>1. 6 * b - 5 = e + 1 /\ e + 1 \in Nat /\ e + 1 >= 1 /\ e \in Int
    BY <1>4 DEF NextJoined
  <2>2. \A i \in e + 1 .. e : ~IsKept(c2, i)
    BY <1>4
  <2>3. ViewText(c2, e + 1, e) = <<>>
    BY <1>4, <2>1, <2>2, ViewTextNone
  <2>4. QED BY <2>1, <2>3, TextOfNone
<1>9. b \in Nat /\ JoiningFrom(b, e, <<>>, c2)
  BY <1>1, <1>8, JoiningMoves
<1>10. QED BY <1>7, <1>9

LEMMA UnfinishedKeeps ==
  ASSUME NEW c, NEW c2, NEW r, NEW n, NEW e, NEW a, NEW u, Arrives(c, c2, r, n, e, a, u),
         NEW lo, NEW hi, LineSpan(lo, hi, r, n), NEW ls, AreLines(ls, c2, lo, hi, r, n),
         ~EndsWith(hi, e), NEW h, HandledBy(c, r, h),
         NEW js, js = JoinedTo(u, ls),
         NEW h2, Handles(Front(js), h, h2)
  PROVE  /\ HandledBy(c2, e, h2) /\ Last(js) \in Seq(Chars)
         /\ \E b \in Nat : JoiningFrom(b, e, Last(js), c2)
<1> DEFINE f == Front(js)
           b == NextJoined(a, lo, hi)
           g == hi + 1 - lo
<1>1. a <= lo
  BY SafeGrows
<1>2. AreJoined(js, c2, a, lo, hi, r, n)
  BY <1>1, JoinedAre DEF JoinedTo
<1>3. /\ At(SeenAll(c2), SafeSet(c2, e))
           = At(SeenAll(c), SafeSet(c, r)) \o At(SeenAll(c2), Ended(a, lo, hi))
  BY HandledGrow
<1>4. /\ e = r + n /\ a \in Nat /\ a >= 1 /\ lo \in 1 .. Sent /\ hi \in 0 .. Sent /\ lo <= hi + 1
      /\ e # 6 * hi
  BY DEF Arrives, JoiningFrom, LineSpan, EndsWith
<1>5. /\ g \in Nat /\ js \in Seq(Seq(Chars)) /\ Len(js) = g + 1
      /\ \A j \in 1 .. g + 1 : TextOf(js[j]) = ViewText(c2, JoinFrom(a, lo, j), LineTo(lo, hi, r, n, j))
  <2>1. LineCount(lo, hi, r, n) = g + 1 /\ g \in Nat
    BY <1>4 DEF LineCount
  <2> HIDE DEF g
  <2>2. QED BY <1>2, <2>1 DEF AreJoined
<1>6. /\ f \in Seq(Seq(Chars)) /\ Len(f) = g /\ \A j \in 1 .. g : f[j] = js[j]
      /\ Last(js) = js[g + 1] /\ js[g + 1] \in Seq(Chars)
  <2> HIDE DEF g
  <2>1. f = SubSeq(js, 1, g)
    BY <1>5 DEF Front
  <2>2. 1 \in 1 .. g + 1 /\ g \in 1 - 1 .. g + 1 /\ g + 1 \in 1 .. g + 1
    BY <1>5
  <2>3. \A j \in 1 .. g : j \in 1 .. Len(js) /\ js[j] \in Seq(Chars)
    BY <1>5, ElementOfSeq
  <2> HIDE DEF f
  <2>4. f = [j \in 1 .. g |-> js[j]]
    BY <1>5, <2>1, <2>2
  <2>5. Len(f) = g /\ (\A j \in 1 .. g : f[j] = js[j]) /\ f \in Seq(Seq(Chars))
    BY <1>5, <2>3, <2>4
  <2>6. Last(js) = js[g + 1] /\ js[g + 1] \in Seq(Chars)
    BY <1>5, <2>2, ElementOfSeq DEF Last
  <2>7. QED BY <2>5, <2>6
<1>7. \A j \in 1 .. g : TextOf(f[j]) = ViewText(c2, JoinFrom(a, lo, j), 6 * (lo + j) - 8)
  <2>1. \A j \in 1 .. g : LineTo(lo, hi, r, n, j) = 6 * (lo + j) - 8 /\ j \in 1 .. g + 1
    BY <1>4 DEF LineTo
  <2> HIDE DEF g, f
  <2>2. QED BY <1>5, <1>6, <2>1
<1>8. ParsedOf(TextsOf(f)) = At(SeenAll(c2), Ended(a, lo, hi))
  <2> HIDE DEF f
  <2>1. AreEnded(f, c2, a, lo, hi)
    BY <1>1, <1>4, <1>6, <1>7 DEF AreEnded
  <2>2. QED BY <2>1, EndedAreHandled
<1>9. HandledBy(c2, e, h2)
  <2>1. h2 = h \o ParsedOf(TextsOf(f))
    BY DEF Handles
  <2>2. QED BY <1>3, <1>8, <2>1 DEF HandledBy
<1>10. TextOf(Last(js)) = ViewText(c2, 6 * b - 5, e)
  <2>1. /\ LineTo(lo, hi, r, n, g + 1) = e /\ JoinFrom(a, lo, g + 1) = 6 * b - 5
        /\ g + 1 \in 1 .. g + 1
    BY <1>4 DEF LineTo, JoinFrom, NextJoined
  <2> HIDE DEF g, b
  <2>2. QED BY <1>5, <1>6, <2>1
<1>11. b \in Nat /\ JoiningFrom(b, e, Last(js), c2)
  BY <1>1, <1>10, JoiningMoves
<1>12. QED BY <1>6, <1>9, <1>11

LEMMA FrameInitially == FrameInit => FrameInv
<1> SUFFICES ASSUME FrameInit PROVE FrameInv
  OBVIOUS
<1>1. received = 0 /\ unfinishedLine = <<>> /\ handled = <<>> /\ cuts = {}
  BY DEF FrameInit
<1>2. SafeSet({}, 0) = {}
  BY BytesIs DEF SafeSet
<1>3. At(SeenAll({}), SafeSet({}, 0)) = <<>>
  BY <1>2, AtNone
<1>4. TextOf(<<>>) = ViewText({}, 1, 0)
  <2>1. ViewText({}, 1, 0) = <<>>
    <3>1. /\ 1 \in Nat /\ 1 >= 1 /\ 0 \in Int /\ 0 <= Bytes /\ \A i \in 1 .. 0 : ~IsKept({}, i)
      BY BytesIs
    <3>2. QED BY <3>1, ViewTextNone
  <2>2. QED BY <2>1, TextOfNone
<1>5. JoiningFrom(1, 0, <<>>, {})
  <2>1. 1 \in 1 .. Sent + 1 /\ 6 * 1 - 6 <= 0 /\ ~(1 > 1) /\ 6 * 1 - 5 = 1
        /\ \A m \in 1 .. Sent : ~(6 * m - 2 <= 0)
    BY BytesIs
  <2>2. QED BY <1>4, <2>1 DEF JoiningFrom
<1>6. 0 \in 0 .. Bytes /\ <<>> \in Seq(Chars) /\ {} \subseteq 1 .. 0 /\ ~(0 > 0) /\ 1 \in Nat
  BY BytesIs
<1>7. FrameInvOf(0, <<>>, <<>>, {})
  BY <1>3, <1>5, <1>6 DEF FrameInvOf
<1>8. QED BY <1>1, <1>7 DEF FrameInv

LEMMA FrameStep == FrameInv /\ [FrameNext]_frameVars => FrameInv'
<1> SUFFICES ASSUME FrameInv, [FrameNext]_frameVars PROVE FrameInv'
  OBVIOUS
<1> DEFINE r == received
           u == unfinishedLine
           h == handled
           c == cuts
<1>1. /\ r \in 0 .. Bytes /\ u \in Seq(Chars) /\ c \subseteq 1 .. r /\ (r > 0 => r \in c)
      /\ HandledBy(c, r, h) /\ \E a \in Nat : JoiningFrom(a, r, u, c)
  BY DEF FrameInv, FrameInvOf, HandledBy
<1>2. PICK a \in Nat : JoiningFrom(a, r, u, c)
  BY <1>1
<1>3. CASE UNCHANGED frameVars
  BY <1>3 DEF frameVars, FrameInv
<1>4. ASSUME NEW n \in 1 .. Sent * FrameLength, HandleData(n) PROVE FrameInv'
  <2> DEFINE e == received'
             c2 == cuts'
             d == Decode(SubSeq(Stream, r + 1, r + n))
  <2>1. /\ r + n <= Len(Stream) /\ e = r + n /\ c2 = c \cup {e}
        /\ HandleBlank(d) \/ HandleFinished(d) \/ HandleUnfinished(d)
    BY <1>4 DEF HandleData
  <2>2. r + n <= Bytes /\ n \in Nat /\ n >= 1 /\ r \in Nat
    <3>1. Stream = [i \in 1 .. Bytes |-> Stream[i]]
      BY DEF Stream, Bytes
    <3>2. Len(Stream) = Bytes
      BY <3>1, BytesIs
    <3>3. n \in Nat /\ n >= 1 /\ r \in Nat
      BY <1>1, BytesIs DEF Bytes
    <3>4. QED BY <2>1, <3>2, <3>3
  <2> HIDE DEF e, c2, d
  <2>3. Arrives(c, c2, r, n, e, a, u)
    BY <1>1, <1>2, <2>1, <2>2 DEF Arrives
  <2>4. BufferAt(c2, r, n)
    BY <1>1, <2>1, <2>2 DEF BufferAt
  <2>5. DecodedAs(d, c2, r, n)
    BY <2>4, DecodeIs DEF d
  <2>6. e \in 0 .. Bytes /\ c2 \subseteq 1 .. e /\ e \in c2
    BY <1>1, <2>1, <2>2, BytesIs
  <2>7. SUFFICES /\ HandledBy(c2, e, handled') /\ unfinishedLine' \in Seq(Chars)
                 /\ \E b \in Nat : JoiningFrom(b, e, unfinishedLine', c2)
    <3> USE DEF e, c2
    <3>1. HandledBy(cuts', received', handled')
      BY <2>7
    <3>2. FrameInvOf(received', unfinishedLine', handled', cuts')
      BY <2>6, <2>7 DEF FrameInvOf, HandledBy
    <3>3. QED BY <3>2 DEF FrameInv
  <2>8. CASE ~HasText(r, n)
    <3>1. Lines(d) = <<>>
      BY <2>4, <2>5, <2>8, NoLines
    <3>2. unfinishedLine' = u /\ handled' = h
      BY <2>1, <3>1 DEF HandleBlank, HandleFinished, HandleUnfinished
    <3>3. HandledBy(c2, e, h) /\ JoiningFrom(a, e, u, c2)
      BY <1>1, <2>3, <2>4, <2>8, BlankKeeps
    <3>4. QED BY <1>1, <1>2, <3>2, <3>3
  <2>9. CASE HasText(r, n)
    <3>1. PICK lo, hi \in Nat : LineSpan(lo, hi, r, n) /\ AreLines(Lines(d), c2, lo, hi, r, n)
      BY <2>4, <2>5, <2>9, LinesAre
    <3>2. EndsLine(d) <=> EndsWith(hi, e)
      BY <2>1, <2>4, <2>5, <2>9, <3>1, EndsLineIs DEF EndsWith
    <3>3. Lines(d) # <<>>
      <4>1. LineCount(lo, hi, r, n) \in Nat /\ LineCount(lo, hi, r, n) >= 1
        BY <2>3, <3>1, SafeGrows, JoinedAre
      <4>2. Len(Lines(d)) # 0
        BY <3>1, <4>1 DEF AreLines
      <4>3. QED BY <4>2
    <3> DEFINE ls == Lines(d)
               js == JoinedTo(u, ls)
    <3>4. Joined(ls) = js
      BY DEF Joined, JoinedTo
    <3> HIDE DEF js
    <3>5. js = JoinedTo(u, ls)
      BY DEF js
    <3>6. CASE HandleFinished(d)
      <4>1. EndsWith(hi, e) /\ unfinishedLine' = <<>> /\ Handles(js, h, handled')
        BY <3>2, <3>4, <3>6 DEF HandleFinished, HandleLines, Handles, TextsOf, ParsedOf
      <4>2. HandledBy(c2, e, handled') /\ \E b \in Nat : JoiningFrom(b, e, <<>>, c2)
        BY <1>1, <2>3, <3>1, <3>5, <4>1, FinishedKeeps
      <4>3. QED BY <4>1, <4>2
    <3>7. CASE HandleUnfinished(d)
      <4>1. ~EndsWith(hi, e) /\ unfinishedLine' = Last(js) /\ Handles(Front(js), h, handled')
        BY <3>2, <3>4, <3>7 DEF HandleUnfinished, HandleLines, Handles, TextsOf, ParsedOf
      <4>2. /\ HandledBy(c2, e, handled') /\ Last(js) \in Seq(Chars)
            /\ \E b \in Nat : JoiningFrom(b, e, Last(js), c2)
        BY <1>1, <2>3, <3>1, <3>5, <4>1, UnfinishedKeeps
      <4>3. QED BY <4>1, <4>2
    <3>8. QED BY <2>1, <3>3, <3>6, <3>7 DEF HandleBlank
  <2>10. QED BY <2>8, <2>9
<1>5. QED BY <1>3, <1>4 DEF FrameNext

(* However buffers are cut, the core handles in order, once and at the     *)
(* latest with their last byte, all messages but those beside a terminator *)
(* that was cut off or apart, and as they were sent but for a character    *)
(* that was cut and a space that came as a buffer of its own: _handleData  *)
(* and _handleLine of IpcMessenger.ts.                                     *)
THEOREM UncutHandled == FrameSpec => []UncutMessagesAreHandled
<1>1. FrameInv => UncutMessagesAreHandled
  <2> SUFFICES ASSUME FrameInv PROVE UncutMessagesAreHandled
    OBVIOUS
  <2>1. handled = At(SeenAll(cuts), SafeSet(cuts, received))
    BY DEF FrameInv, FrameInvOf
  <2>2. QED BY <2>1, NamesAre DEF UncutMessagesAreHandled
<1>2. QED BY <1>1, FrameInitially, FrameStep, PTL DEF FrameSpec

=============================================================================
