-------------------------- MODULE ChatSessionProofs --------------------------
(***************************************************************************)
(* Type correctness of ChatSession, that an active session has a run, and  *)
(* that in a session whose runs are not disturbed the outputs of tools are *)
(* those of the calls they stand next to, and calls that were done or      *)
(* rejected stay so.                                                       *)
(***************************************************************************)
EXTENDS ChatSession, SequenceTheorems, TLAPS

(* A message as TypeOK has it: it has a call if it has the state of one,   *)
(* and answers a call if it is one of a tool.                              *)
Good ==
  {m \in Messages : /\ m.status # None => m.call # 0
                    /\ m.role = "tool" <=> m.of # 0}

Run == [pc : {"idle", "gather", "stream", "tool", "timer"}, index : Nat,
        call : CallIds, inner : BOOLEAN, text : BOOLEAN]

(* A run that executes a tool, or is to answer with its output, has a call. *)
ToolRunsHaveACall == \A r \in Runs : run[r].pc \in {"tool", "timer"} => run[r].call # 0

IInv ==
  /\ history \in Seq(Good)
  /\ isStreaming \in BOOLEAN /\ orderly \in BOOLEAN
  /\ run \in [Runs -> Run] /\ ToolRunsHaveACall
  /\ acts \in 0 .. MaxActs /\ called \in CallIds

-----------------------------------------------------------------------------
(* The reducers return histories of good messages.                         *)

LEMMA Literals ==
  /\ User \in Good /\ Answer \in Good /\ Placeholder \in Good
  /\ \A c \in CallIds \ {0} : /\ ToolCall(c) \in Good
                             /\ \A t \in BOOLEAN : ToolMessage(c, t) \in Good
<1>1. 0 \in CallIds
  BY ChatAssumption DEF CallIds
<1>2. User \in Messages /\ Answer \in Messages /\ Placeholder \in Messages
      /\ \A t \in BOOLEAN : Message("tool", t) \in Messages
  BY <1>1 DEF User, Answer, Placeholder, Messages, Message
<1>3. User \in Good /\ Answer \in Good /\ Placeholder \in Good
  BY <1>2 DEF Good, User, Answer, Placeholder, Message
<1>4. ASSUME NEW c \in CallIds \ {0} PROVE ToolCall(c) \in Good
  BY <1>2, <1>3 DEF ToolCall, Good, Messages, Statuses
<1>5. ASSUME NEW c \in CallIds \ {0}, NEW t \in BOOLEAN PROVE ToolMessage(c, t) \in Good
  <2>1. Message("tool", t).role = "tool" /\ Message("tool", t).status = None
    BY DEF Message
  <2> DEFINE m == Message("tool", t)
  <2>2. m \in Messages /\ m.role = "tool" /\ m.status = None
    BY <1>2, <2>1
  <2> HIDE DEF m
  <2>3. [m EXCEPT !.of = c] \in Good
    BY <2>2 DEF Good, Messages
  <2>4. QED BY <2>3 DEF ToolMessage, m
<1>6. QED BY <1>3, <1>4, <1>5

LEMMA LastGood ==
  ASSUME NEW h \in Seq(Good), h # <<>>
  PROVE  Len(h) \in 1 .. Len(h) /\ Last(h) \in Good /\ Last(h) = h[Len(h)]
<1>1. Len(h) \in Nat \ {0}
  BY EmptySeq
<1>2. QED BY <1>1, ElementOfSeq DEF Last

LEMMA SetLastGood ==
  ASSUME NEW h \in Seq(Good), h # <<>>, NEW field, NEW value,
         [Last(h) EXCEPT ![field] = value] \in Good
  PROVE  SetLast(h, field, value) \in Seq(Good)
<1>1. SetLast(h, field, value) = [h EXCEPT ![Len(h)] = [Last(h) EXCEPT ![field] = value]]
  BY DEF SetLast, Last
<1>2. QED BY <1>1, LastGood, ExceptSeq

LEMMA SetStatusGood ==
  ASSUME NEW h \in Seq(Good), NEW s \in Statuses
  PROVE  SetStatus(h, s) \in Seq(Good)
<1>1. CASE h = <<>>
  BY <1>1 DEF SetStatus, Current
<1>2. CASE h # <<>>
  <2>1. Last(h) \in Good
    BY <1>2, LastGood
  <2>2. Last(h).status # None => [Last(h) EXCEPT !["status"] = s] \in Good
    BY <2>1 DEF Good, Messages
  <2>3. QED BY <1>2, <2>2, SetLastGood DEF SetStatus, Current
<1>3. QED BY <1>1, <1>2

LEMMA ClearGood ==
  ASSUME NEW h \in Seq(Good)
  PROVE  ClearLastEmptyResponse(h) \in Seq(Good)
<1>1. Len(h) >= 2 => SubSeq(h, 1, Len(h) - 2) \in Seq(Good)
  BY SubSeqProperties, ElementOfSeq, LenProperties
<1>2. QED BY <1>1 DEF ClearLastEmptyResponse

LEMMA StreamTextGood ==
  ASSUME NEW h \in Seq(Good), NEW m \in Good
  PROVE  StreamText(h, m) \in Seq(Good)
<1>1. CASE h = <<>>
  BY <1>1 DEF StreamText
<1>2. CASE h # <<>> /\ Last(h).role # m.role
  BY <1>2, AppendProperties DEF StreamText
<1>3. CASE h # <<>> /\ Last(h).role = m.role /\ m.text = TRUE
  <2>1. [Last(h) EXCEPT !["text"] = TRUE] \in Good
    BY <1>3, LastGood DEF Good, Messages
  <2>2. QED BY <1>3, <2>1, SetLastGood DEF StreamText
<1>4. CASE h # <<>> /\ Last(h).role = m.role /\ m.text = FALSE
  BY <1>4 DEF StreamText
<1>5. m.text \in BOOLEAN
  BY DEF Good, Messages
<1>6. QED BY <1>1, <1>2, <1>3, <1>4, <1>5

LEMMA StreamCallGood ==
  ASSUME NEW h \in Seq(Good), NEW c \in CallIds \ {0}
  PROVE  StreamCall(h, c) \in Seq(Good)
<1>1. CASE h = <<>>
  BY <1>1 DEF StreamCall
<1>2. CASE h # <<>> /\ NewItemForCall(h)
  BY <1>2, Literals, AppendProperties DEF StreamCall
<1>3. CASE h # <<>> /\ ~NewItemForCall(h) /\ Last(h).call = 0
  <2>1. [Last(h) EXCEPT !["call"] = c] \in Good
    BY <1>3, LastGood DEF Good, Messages
  <2>2. QED BY <1>3, <2>1, SetLastGood DEF StreamCall
<1>4. CASE h # <<>> /\ ~NewItemForCall(h) /\ Last(h).call # 0
  BY <1>4 DEF StreamCall
<1>5. QED BY <1>1, <1>2, <1>3, <1>4

LEMMA SetMessageGood ==
  ASSUME NEW h \in Seq(Good), NEW i \in Nat, i <= Len(h)
  PROVE  SetMessageAtIndex(h, i) \in Seq(Good)
<1>1. CASE i = Len(h)
  BY <1>1, Literals, AppendProperties DEF SetMessageAtIndex
<1>2. CASE i < Len(h)
  <2>1. i + 1 \in 1 .. Len(h) /\ h[i + 1] \in Good
    BY <1>2, ElementOfSeq, LenProperties
  <2> DEFINE m == IF h[i + 1].status = None THEN User
                  ELSE [h[i + 1] EXCEPT !.role = "user", !.text = TRUE, !.of = 0]
  <2>2. m \in Good
    <3>1. [h[i + 1] EXCEPT !.role = "user", !.text = TRUE, !.of = 0] \in Good
      <4> DEFINE x == h[i + 1]
      <4>1. x \in Messages /\ (x.status # None => x.call # 0) /\ 0 \in CallIds
        BY <2>1, ChatAssumption DEF Good, CallIds
      <4> HIDE DEF x
      <4>2. [x EXCEPT !.role = "user", !.text = TRUE, !.of = 0] \in Messages
        BY <4>1 DEF Messages
      <4>3. [x EXCEPT !.role = "user", !.text = TRUE, !.of = 0] \in Good
        BY <4>1, <4>2 DEF Good, Messages
      <4>4. QED BY <4>3 DEF x
    <3>2. QED BY <3>1, Literals
  <2>3. SetMessageAtIndex(h, i) = [h EXCEPT ![i + 1] = m]
    BY <1>2 DEF SetMessageAtIndex
  <2> HIDE DEF m
  <2>4. QED BY <2>1, <2>2, <2>3, ExceptSeq
<1>3. QED BY <1>1, <1>2, LenProperties

(* The records that runs become.                                           *)
LEMMA RunRecords ==
  /\ IdleRun \in Run /\ Streaming \in Run /\ Streaming.pc = "stream"
  /\ \A i \in Nat :
       LET x == [IdleRun EXCEPT !.pc = "gather", !.index = i]
       IN  x \in Run /\ x.pc = "gather" /\ x.index = i
  /\ \A c \in CallIds :
       LET x == [IdleRun EXCEPT !.pc = "tool", !.call = c]
           z == [IdleRun EXCEPT !.pc = "tool", !.call = c, !.inner = TRUE]
       IN  /\ x \in Run /\ x.pc = "tool" /\ x.call = c
           /\ z \in Run /\ z.pc = "tool" /\ z.call = c /\ z.inner
<1>1. 0 \in CallIds
  BY ChatAssumption DEF CallIds
<1>2. IdleRun \in Run
  BY <1>1 DEF IdleRun, Run
<1>3. Streaming \in Run /\ Streaming.pc = "stream"
  BY <1>2 DEF Streaming, Run
<1>4. ASSUME NEW i \in Nat
      PROVE  LET x == [IdleRun EXCEPT !.pc = "gather", !.index = i]
             IN  x \in Run /\ x.pc = "gather" /\ x.index = i
  BY <1>2 DEF Run
<1>5. ASSUME NEW c \in CallIds
      PROVE  LET x == [IdleRun EXCEPT !.pc = "tool", !.call = c]
             IN  x \in Run /\ x.pc = "tool" /\ x.call = c
  BY <1>2 DEF Run
<1>6. ASSUME NEW c \in CallIds
      PROVE  LET x == [IdleRun EXCEPT !.pc = "tool", !.call = c, !.inner = TRUE]
             IN  x \in Run /\ x.pc = "tool" /\ x.call = c /\ x.inner
  BY <1>2 DEF Run
<1>7. QED BY <1>2, <1>3, <1>4, <1>5, <1>6

LEMMA TimerRecord ==
  ASSUME NEW c \in CallIds, NEW t \in BOOLEAN
  PROVE  LET x == [IdleRun EXCEPT !.pc = "timer", !.call = c, !.text = t]
         IN  x \in Run /\ x.pc = "timer" /\ x.call = c
<1>1. IdleRun \in Run
  BY RunRecords
<1>2. QED BY <1>1 DEF Run

-----------------------------------------------------------------------------
(* The inductive invariant, and that an active session has a run.          *)

(* A run that will make the session inactive.                              *)
Keeps(x) == \/ x.pc \in {"gather", "stream"}
            \/ x.pc = "tool" /\ x.inner

ActiveInv == IInv /\ (isStreaming => \E r \in Runs : Keeps(run[r]))

LEMMA InitInv == Init => ActiveInv
<1> SUFFICES ASSUME Init PROVE ActiveInv
  OBVIOUS
<1>1. history \in Seq(Good)
  BY EmptySeq DEF Init
<1>2. run \in [Runs -> Run] /\ ToolRunsHaveACall
  BY RunRecords DEF Init, ToolRunsHaveACall, IdleRun
<1>3. isStreaming = FALSE /\ orderly = TRUE
  BY DEF Init
<1>4. acts \in 0 .. MaxActs /\ called \in CallIds
  BY ChatAssumption DEF Init, CallIds
<1>5. IInv
  BY <1>1, <1>2, <1>3, <1>4, Zenon DEF IInv
<1>6. QED BY <1>3, <1>5 DEF ActiveInv

(* A run that was idle begins.                                             *)
LEMMA BeginInv ==
  ASSUME ActiveInv, NEW r \in Runs, NEW record \in Run, Begin(r, record),
         record.pc \in {"tool", "timer"} => record.call # 0,
         history' \in Seq(Good), isStreaming' \in BOOLEAN,
         isStreaming' => isStreaming \/ record.pc = "gather",
         acts' \in 0 .. MaxActs, called' = called
  PROVE  ActiveInv'
<1>1. run' \in [Runs -> Run] /\ run' = [run EXCEPT ![r] = record] /\ run[r].pc = "idle"
  BY DEF ActiveInv, IInv, Begin
<1>2. ToolRunsHaveACall'
  BY <1>1 DEF ActiveInv, IInv, ToolRunsHaveACall
<1>3. orderly' \in BOOLEAN
  BY DEF Begin
<1>4. ASSUME isStreaming' PROVE \E x \in Runs : Keeps(run'[x])
  <2>1. CASE record.pc = "gather"
    BY <1>1, <2>1 DEF ActiveInv, IInv, Keeps
  <2>2. CASE isStreaming
    <3>1. PICK x \in Runs : Keeps(run[x])
      BY <2>2 DEF ActiveInv
    <3>2. x # r
      BY <1>1, <3>1 DEF Keeps
    <3>3. run'[x] = run[x]
      BY <1>1, <3>2 DEF ActiveInv, IInv
    <3>4. QED BY <3>1, <3>3
  <2>3. QED BY <1>4, <2>1, <2>2
<1>5. QED BY <1>1, <1>2, <1>3, <1>4 DEF ActiveInv, IInv

(* A run goes on to a record that keeps the session active, or the session *)
(* is not active any more.                                                 *)
LEMMA GotoInv ==
  ASSUME ActiveInv, NEW r \in Runs, NEW record \in Run, Goto(r, record),
         record.pc \in {"tool", "timer"} => record.call # 0,
         history' \in Seq(Good), isStreaming' \in BOOLEAN, orderly' \in BOOLEAN,
         isStreaming' => \/ record.pc \in {"gather", "stream"}
                         \/ isStreaming /\ ~Keeps(run[r]),
         called' \in CallIds
  PROVE  ActiveInv'
<1>1. run' \in [Runs -> Run] /\ run' = [run EXCEPT ![r] = record] /\ acts' = acts
  BY DEF ActiveInv, IInv, Goto
<1>2. ToolRunsHaveACall'
  BY <1>1 DEF ActiveInv, IInv, ToolRunsHaveACall
<1>3. ASSUME isStreaming' PROVE \E x \in Runs : Keeps(run'[x])
  <2>1. CASE record.pc \in {"gather", "stream"}
    BY <1>1, <2>1 DEF ActiveInv, IInv, Keeps
  <2>2. CASE isStreaming /\ ~Keeps(run[r])
    <3>1. PICK x \in Runs : Keeps(run[x])
      BY <2>2 DEF ActiveInv
    <3>2. x # r
      BY <2>2, <3>1
    <3>3. run'[x] = run[x]
      BY <1>1, <3>2 DEF ActiveInv, IInv
    <3>4. QED BY <3>1, <3>3
  <2>3. QED BY <1>3, <2>1, <2>2
<1>4. QED BY <1>1, <1>2, <1>3 DEF ActiveInv, IInv

-----------------------------------------------------------------------------
LEMMA ActType == ASSUME IInv, Act PROVE acts' \in 0 .. MaxActs
  BY ChatAssumption DEF IInv, Act

LEMMA SendInv == ASSUME ActiveInv, NEW r \in Runs, Send(r) PROVE ActiveInv'
<1>1. <<Placeholder, Placeholder>> \in Seq(Good)
  BY Literals
<1>2. history' \in Seq(Good)
  BY <1>1, ConcatProperties DEF ActiveInv, IInv, Send
<1>3. Len(history) \in Nat
  BY LenProperties DEF ActiveInv, IInv
<1> DEFINE record == [IdleRun EXCEPT !.pc = "gather", !.index = Len(history)]
<1>4. record \in Run /\ record.pc = "gather"
  BY <1>3, RunRecords DEF IdleRun
<1>5. Begin(r, record) /\ isStreaming' = TRUE /\ called' = called /\ acts' \in 0 .. MaxActs
  BY ActType DEF Send, ActiveInv
<1> HIDE DEF record
<1>6. QED BY <1>2, <1>4, <1>5, BeginInv

LEMMA PrefixGood ==
  ASSUME NEW h \in Seq(Good), NEW n \in Int, n <= Len(h)
  PROVE  SubSeq(h, 1, n) \in Seq(Good)
  BY SubSeqProperties, ElementOfSeq, LenProperties

LEMMA SuffixGood ==
  ASSUME NEW h \in Seq(Good), NEW n \in Nat \ {0}
  PROVE  SubSeq(h, n, Len(h)) \in Seq(Good)
  BY SubSeqProperties, ElementOfSeq, LenProperties

LEMMA ResubmitInv ==
  ASSUME ActiveInv, NEW r \in Runs, NEW i \in DOMAIN history, Resubmit(r, i)
  PROVE  ActiveInv'
<1>1. i \in 1 .. Len(history) /\ history[i] \in Good /\ i - 1 \in Nat /\ Len(history) \in Nat
  BY LenProperties, ElementOfSeq DEF ActiveInv, IInv
<1>2. [history[i] EXCEPT !.text = FALSE] \in Good
  BY <1>1 DEF Good, Messages
<1>3. <<[history[i] EXCEPT !.text = FALSE], Placeholder>> \in Seq(Good)
  BY <1>2, Literals
<1>4. SubSeq(history, 1, i - 1) \in Seq(Good)
  BY <1>1, PrefixGood DEF ActiveInv, IInv
<1>5. history' \in Seq(Good)
  BY <1>3, <1>4, ConcatProperties DEF Resubmit
<1> DEFINE record == [IdleRun EXCEPT !.pc = "gather", !.index = i - 1]
<1>6. record \in Run /\ record.pc = "gather"
  BY <1>1, RunRecords DEF IdleRun
<1>7. Begin(r, record) /\ isStreaming' = TRUE /\ called' = called /\ acts' \in 0 .. MaxActs
  BY ActType DEF Resubmit, ActiveInv
<1> HIDE DEF record
<1>8. QED BY <1>5, <1>6, <1>7, BeginInv

LEMMA CancelInv == ASSUME ActiveInv, Cancel PROVE ActiveInv'
<1>1. history' \in Seq(Good)
  BY ClearGood DEF ActiveInv, IInv, Cancel
<1>2. orderly' \in BOOLEAN /\ isStreaming' = FALSE
  BY DEF Cancel
<1>3. QED BY <1>1, <1>2 DEF ActiveInv, IInv, ToolRunsHaveACall, Cancel

(* A call that can be accepted or rejected is that of the last message.    *)
LEMMA CurrentCall ==
  ASSUME NEW h \in Seq(Good), Current(h) # None
  PROVE  h # <<>> /\ Last(h).call \in CallIds \ {0}
<1>1. h # <<>> /\ Last(h).status # None
  BY DEF Current
<1>2. QED BY <1>1, LastGood DEF Good, Messages

LEMMA AcceptInv == ASSUME ActiveInv, NEW r \in Runs, Accept(r) PROVE ActiveInv'
<1>1. Last(history).call \in CallIds \ {0}
  BY ChatAssumption, CurrentCall DEF ActiveInv, IInv, Accept
<1> DEFINE record == [IdleRun EXCEPT !.pc = "tool", !.call = Last(history).call]
<1>2. record \in Run /\ record.pc = "tool" /\ record.call = Last(history).call
  BY <1>1, RunRecords DEF IdleRun
<1>3. history' \in Seq(Good)
  BY SetStatusGood DEF ActiveInv, IInv, Accept, Statuses
<1>4. Begin(r, record) /\ isStreaming' = isStreaming /\ called' = called /\ acts' = acts
  BY DEF Accept
<1> HIDE DEF record
<1>5. QED BY <1>1, <1>2, <1>3, <1>4, BeginInv DEF ActiveInv, IInv

LEMMA RejectInv == ASSUME ActiveInv, NEW r \in Runs, Reject(r) PROVE ActiveInv'
<1>1. Last(history).call \in CallIds \ {0}
  BY ChatAssumption, CurrentCall DEF ActiveInv, IInv, Reject
<1> DEFINE record == [IdleRun EXCEPT !.pc = "timer", !.call = Last(history).call, !.text = TRUE]
<1>2. record \in Run /\ record.pc = "timer" /\ record.call = Last(history).call
  BY <1>1, TimerRecord
<1>3. history' \in Seq(Good)
  BY SetStatusGood DEF ActiveInv, IInv, Reject, Statuses
<1>4. Begin(r, record) /\ isStreaming' = isStreaming /\ called' = called /\ acts' = acts
  BY DEF Reject
<1> HIDE DEF record
<1>5. QED BY <1>1, <1>2, <1>3, <1>4, BeginInv DEF ActiveInv, IInv

LEMMA DeleteMessageInv ==
  ASSUME ActiveInv, NEW i \in DOMAIN history, DeleteMessage(i) PROVE ActiveInv'
<1>1. i \in 1 .. Len(history) /\ Len(history) \in Nat
  BY LenProperties DEF ActiveInv, IInv
<1>2. CASE i = 1
  <2>1. history' \in Seq(Good)
    BY <1>1, <1>2, PrefixGood DEF DeleteMessage, ActiveInv, IInv
  <2>2. QED BY <2>1, ActType DEF DeleteMessage, ActiveInv, IInv, ToolRunsHaveACall
<1>3. CASE i # 1
  <2>1. SubSeq(history, 1, i - 2) \in Seq(Good)
    BY <1>1, <1>3, PrefixGood DEF ActiveInv, IInv
  <2>2. SubSeq(history, i + 1, Len(history)) \in Seq(Good)
    BY <1>1, <1>3, SuffixGood DEF ActiveInv, IInv
  <2>3. history' \in Seq(Good)
    BY <1>3, <2>1, <2>2, ConcatProperties DEF DeleteMessage
  <2>4. QED BY <2>3, ActType DEF DeleteMessage, ActiveInv, IInv, ToolRunsHaveACall
<1>4. QED BY <1>2, <1>3


LEMMA NewSessionInv == ASSUME ActiveInv, NewSession PROVE ActiveInv'
<1>1. history' \in Seq(Good)
  <2>1. <<>> \in Seq(Good) /\ <<User, Answer>> \in Seq(Good) /\ <<User>> \in Seq(Good)
    BY Literals
  <2>2. QED BY <2>1 DEF NewSession
<1>2. run' \in [Runs -> Run] /\ ToolRunsHaveACall'
  BY DEF NewSession, ActiveInv, IInv, ToolRunsHaveACall
<1>3. orderly' \in BOOLEAN /\ isStreaming' = FALSE
  BY DEF NewSession
<1>4. acts' \in 0 .. MaxActs /\ called' \in CallIds
  BY ActType DEF ActiveInv, IInv, NewSession
<1>5. IInv'
  BY <1>1, <1>2, <1>3, <1>4, Zenon DEF IInv
<1>6. QED BY <1>3, <1>5 DEF ActiveInv

-----------------------------------------------------------------------------
(* The steps of a run.                                                     *)

LEMMA RunType ==
  ASSUME IInv, NEW r \in Runs
  PROVE  run[r] \in Run /\ run[r].index \in Nat /\ run[r].call \in CallIds /\ run[r].text \in BOOLEAN
<1>1. run[r] \in Run
  BY DEF IInv
<1>2. QED BY <1>1 DEF Run

LEMMA StreamingRun == Streaming \in Run /\ Streaming.pc = "stream"
  BY RunRecords

LEMMA IdleRunPc == IdleRun \in Run /\ IdleRun.pc = "idle"
  BY RunRecords DEF IdleRun

LEMMA GatheredInv == ASSUME ActiveInv, NEW r \in Runs, Gathered(r) PROVE ActiveInv'
<1>1. history' \in Seq(Good)
  BY SetMessageGood, RunType DEF ActiveInv, IInv, Gathered
<1>2. Goto(r, Streaming) /\ UNCHANGED <<isStreaming, called, orderly>>
  BY DEF Gathered
<1>3. QED BY <1>1, <1>2, StreamingRun, GotoInv DEF ActiveInv, IInv

LEMMA EndInv ==
  ASSUME ActiveInv, NEW r \in Runs, End(r), history' \in Seq(Good), orderly' \in BOOLEAN,
         called' = called
  PROVE  ActiveInv'
<1>1. Goto(r, IdleRun) /\ isStreaming' = FALSE /\ called' \in CallIds
  BY DEF End, ActiveInv, IInv
<1>2. QED BY <1>1, IdleRunPc, GotoInv

LEMMA GatherFailsInv == ASSUME ActiveInv, NEW r \in Runs, GatherFails(r) PROVE ActiveInv'
  BY EndInv DEF GatherFails, ActiveInv, IInv

LEMMA StreamFailsInv == ASSUME ActiveInv, NEW r \in Runs, StreamFails(r) PROVE ActiveInv'
<1>1. history' \in Seq(Good)
  BY ClearGood DEF ActiveInv, IInv, StreamFails
<1>2. orderly' \in BOOLEAN
  BY DEF StreamFails
<1>3. QED BY <1>1, <1>2, EndInv DEF StreamFails

LEMMA TextUpdateInv == ASSUME ActiveInv, NEW r \in Runs, TextUpdate(r) PROVE ActiveInv'
<1>1. history' \in Seq(Good)
  BY Literals, StreamTextGood DEF ActiveInv, IInv, TextUpdate, Update
<1>2. UNCHANGED <<run, acts, isStreaming, called, orderly>>
  BY DEF TextUpdate, Update
<1>3. QED BY <1>1, <1>2 DEF ActiveInv, IInv, ToolRunsHaveACall

LEMMA CallUpdateInv == ASSUME ActiveInv, NEW r \in Runs, CallUpdate(r) PROVE ActiveInv'
<1> DEFINE c == IF run[r].call = 0 THEN called + 1 ELSE run[r].call
           record == [run[r] EXCEPT !.call = c]
<1>1. run[r] \in Run /\ run[r].call \in CallIds
      /\ called \in 0 .. Calls /\ run[r].pc = "stream"
  BY RunType DEF ActiveInv, IInv, CallUpdate, CallIds
<1>2. c \in CallIds \ {0} /\ called' \in CallIds
  BY <1>1, ChatAssumption DEF CallUpdate, CallIds
<1>3. Update(r, StreamCall(history, c)) /\ Goto(r, record)
  BY DEF CallUpdate
<1> HIDE DEF c
<1>4. record \in Run /\ record.pc = "stream"
  BY <1>1, <1>2 DEF Run
<1>5. history' \in Seq(Good) /\ isStreaming' = isStreaming /\ orderly' = orderly
  BY <1>2, <1>3, StreamCallGood DEF ActiveInv, IInv, Update
<1> HIDE DEF record
<1>6. QED BY <1>2, <1>3, <1>4, <1>5, GotoInv DEF ActiveInv, IInv

LEMMA StreamEndsInv == ASSUME ActiveInv, NEW r \in Runs, StreamEnds(r) PROVE ActiveInv'
<1>1. \A x \in Runs : run[x].pc \in {"tool", "timer"} => run[x].call # 0
  BY DEF ActiveInv, IInv, ToolRunsHaveACall
<1>2. acts' \in 0 .. MaxActs /\ called' \in CallIds /\ orderly' \in BOOLEAN
  BY DEF ActiveInv, IInv, StreamEnds, Goto, End
<1>3. CASE /\ Current(history) # None
           /\ history' = SetStatus(history, "calling")
           /\ Goto(r, [IdleRun EXCEPT !.pc = "tool", !.call = Last(history).call,
                                      !.inner = TRUE])
           /\ UNCHANGED isStreaming
  <2>1. Last(history).call \in CallIds \ {0}
    BY <1>3, CurrentCall DEF ActiveInv, IInv
  <2> DEFINE record == [IdleRun EXCEPT !.pc = "tool", !.call = Last(history).call,
                                       !.inner = TRUE]
  <2>2. record \in Run
    BY <2>1, RunRecords
  <2>3. record.pc = "tool" /\ record.call = Last(history).call
    BY <2>1, RunRecords
  <2>4. record.inner
    BY RunRecords, <2>1
  <2>5. run \in [Runs -> Run] /\ run' = [run EXCEPT ![r] = record]
    BY <1>3 DEF Goto, ActiveInv, IInv
  <2> HIDE DEF record
  <2>6. run' \in [Runs -> Run] /\ ToolRunsHaveACall'
    BY <1>1, <2>1, <2>2, <2>3, <2>5 DEF ToolRunsHaveACall
  <2>7. Keeps(run'[r])
    BY <2>3, <2>4, <2>5 DEF Keeps
  <2>8. history' \in Seq(Good)
    BY <1>3, SetStatusGood DEF ActiveInv, IInv, Statuses
  <2>9. isStreaming' \in BOOLEAN
    BY <1>3 DEF ActiveInv, IInv
  <2>10. IInv'
    BY <1>2, <2>6, <2>8, <2>9, Zenon DEF IInv
  <2>11. QED BY <2>7, <2>10 DEF ActiveInv
<1>4. CASE history' = SetStatus(history, "generated") /\ End(r)
  <2>1. history' \in Seq(Good)
    BY <1>4, SetStatusGood DEF ActiveInv, IInv, Statuses
  <2>2. QED BY <1>2, <1>4, <2>1, EndInv DEF StreamEnds
<1>5. QED BY <1>3, <1>4 DEF StreamEnds

(* callTool leaves its thunk, and what streams with it.                    *)
LEMMA LeaveInv ==
  ASSUME ActiveInv, NEW r \in Runs, run[r].pc = "tool", Leave(r)
  PROVE  isStreaming' \in BOOLEAN /\ (isStreaming' => isStreaming /\ ~Keeps(run[r]))
<1>1. run[r].pc \notin {"gather", "stream"}
  OBVIOUS
<1>2. run[r].inner \in BOOLEAN
  BY RunType DEF ActiveInv, Run
<1>3. isStreaming' \in BOOLEAN
  BY DEF Leave
<1>4. isStreaming' => isStreaming /\ ~run[r].inner
  BY Zenon DEF Leave
<1>5. QED BY <1>1, <1>3, <1>4, Zenon DEF Keeps

LEMMA ToolReturnsInv == ASSUME ActiveInv, NEW r \in Runs, ToolReturns(r) PROVE ActiveInv'
<1>1. run[r].call \in CallIds \ {0}
  BY RunType DEF ActiveInv, IInv, ToolReturns, ToolRunsHaveACall
<1>2. history' \in Seq(Good)
  <2>1. CASE Current(history) = None
    BY <2>1 DEF ActiveInv, IInv, ToolReturns
  <2>2. CASE Current(history) # None
    <3>1. history # <<>> /\ Last(history) \in Good /\ Last(history).call \in CallIds \ {0}
      BY <2>2, CurrentCall, LastGood DEF ActiveInv, IInv
    <3> DEFINE h == SetLast(history, "out", run[r].call)
    <3>2. [Last(history) EXCEPT !["out"] = run[r].call] \in Good
      BY <1>1, <3>1 DEF Good, Messages
    <3>3. h \in Seq(Good)
      BY <3>1, <3>2, SetLastGood DEF ActiveInv, IInv
    <3>4. h # <<>> /\ Last(h) = [Last(history) EXCEPT !["out"] = run[r].call]
      <4>1. h = [history EXCEPT ![Len(history)] = [Last(history) EXCEPT !["out"] = run[r].call]]
        BY DEF SetLast, Last
      <4>2. Len(history) \in 1 .. Len(history)
        BY <3>1, LastGood DEF ActiveInv, IInv
      <4> HIDE DEF h
      <4>3. QED BY <3>2, <4>1, <4>2, <3>3, ExceptSeq, LastGood, EmptySeq DEF ActiveInv, IInv, Last
    <3> HIDE DEF h
    <3>5. [Last(h) EXCEPT !["status"] = "done"] \in Good
      <4>1. Last(h) \in Good /\ Last(h).call # 0
        BY <3>1, <3>2, <3>4 DEF Good, Messages
      <4>2. QED BY <4>1 DEF Good, Messages, Statuses
    <3>6. SetLast(h, "status", "done") \in Seq(Good)
      BY <3>3, <3>4, <3>5, SetLastGood
    <3>7. QED BY <2>2, <3>6 DEF ToolReturns, h
  <2>3. QED BY <2>1, <2>2
<1>3. PICK t \in BOOLEAN :
        Goto(r, [IdleRun EXCEPT !.pc = "timer", !.call = run[r].call, !.text = t])
  BY DEF ToolReturns
<1> DEFINE record == [IdleRun EXCEPT !.pc = "timer", !.call = run[r].call, !.text = t]
<1>4. /\ record \in Run /\ record.pc = "timer" /\ record.call = run[r].call /\ Goto(r, record)
      /\ UNCHANGED <<called, orderly>> /\ run[r].pc = "tool" /\ Leave(r)
  BY <1>1, <1>3, TimerRecord DEF ToolReturns
<1> HIDE DEF record
<1>5. QED BY <1>1, <1>2, <1>4, LeaveInv, GotoInv DEF ActiveInv, IInv

LEMMA ToolFailsInv == ASSUME ActiveInv, NEW r \in Runs, ToolFails(r) PROVE ActiveInv'
<1>1. Goto(r, IdleRun) /\ UNCHANGED <<history, called, orderly>>
      /\ run[r].pc = "tool" /\ Leave(r)
  BY DEF ToolFails
<1>2. QED BY <1>1, IdleRunPc, LeaveInv, GotoInv DEF ActiveInv, IInv

LEMMA AfterToolCallInv == ASSUME ActiveInv, NEW r \in Runs, AfterToolCall(r) PROVE ActiveInv'
<1>1. run[r].call \in CallIds \ {0}
  BY RunType DEF ActiveInv, IInv, AfterToolCall, ToolRunsHaveACall
<1>2. history' \in Seq(Good)
  BY <1>1, RunType, Literals, StreamTextGood DEF ActiveInv, IInv, AfterToolCall
<1>3. Goto(r, Streaming) /\ isStreaming' = TRUE /\ UNCHANGED <<called, orderly>>
  BY DEF AfterToolCall
<1>4. QED BY <1>2, <1>3, StreamingRun, GotoInv DEF ActiveInv, IInv

-----------------------------------------------------------------------------
LEMMA NextInv == ActiveInv /\ [Next]_vars => ActiveInv'
<1> SUFFICES ASSUME ActiveInv, [Next]_vars PROVE ActiveInv'
  OBVIOUS
<1>1. CASE UserStep
  BY <1>1, SendInv, AcceptInv, RejectInv, ResubmitInv, DeleteMessageInv, CancelInv,
     NewSessionInv DEF UserStep
<1>2. ASSUME NEW r \in Runs, RunStep(r) PROVE ActiveInv'
  BY <1>2, GatheredInv, GatherFailsInv, TextUpdateInv, CallUpdateInv, StreamEndsInv,
     StreamFailsInv, ToolReturnsInv, ToolFailsInv, AfterToolCallInv
  DEF RunStep
<1>3. CASE UNCHANGED vars
  BY <1>3 DEF vars, ActiveInv, IInv, ToolRunsHaveACall, Keeps
<1>4. QED BY <1>1, <1>2, <1>3 DEF Next

LEMMA SpecInv == Spec => []ActiveInv
  BY InitInv, NextInv, PTL DEF Spec

(* Every reachable state of the chat session is well typed; in particular  *)
(* a message that shows the state of a tool call has one.                  *)
THEOREM ChatTypeCorrect == Spec => []TypeOK
<1>1. ActiveInv => TypeOK
  <2> SUFFICES ASSUME ActiveInv PROVE TypeOK
    OBVIOUS
  <2>1. \A i \in DOMAIN history : history[i] \in Good
    BY ElementOfSeq, LenProperties DEF ActiveInv, IInv
  <2>2. history \in Seq(Messages)
    BY SeqMonotonic DEF ActiveInv, IInv, Good
  <2>3. \A i \in DOMAIN history :
          /\ history[i].status # None => history[i].call # 0
          /\ history[i].role = "tool" <=> history[i].of # 0
    BY <2>1 DEF Good
  <2>4. QED BY <2>2, <2>3, Zenon DEF ActiveInv, IInv, TypeOK, Run
<1>2. QED BY <1>1, SpecInv, PTL

(* However messages, cancellations, errors, tools and new sessions         *)
(* interleave, and however many thunks are under way, a session shown as   *)
(* active has one that will make it inactive (isStreaming, and the finally *)
(* of handleErrors).                                                       *)
THEOREM ActiveSessionHasARun == Spec => []ActiveHasARun
<1>1. ActiveInv => ActiveHasARun
  BY DEF ActiveInv, ActiveHasARun, Keeps
<1>2. QED BY <1>1, SpecInv, PTL

-----------------------------------------------------------------------------
(* The outputs of tools.                                                   *)

(* What every message of such a history satisfies, next to its neighbour.  *)
OwnCall(m) == /\ m.out \in {0, m.call}
              /\ m.status # None => m.role = "assistant"

Attributed(h) ==
  \A i \in 1 .. Len(h) :
    /\ OwnCall(h[i])
    /\ h[i].role = "tool" => i > 1 /\ h[i - 1].call = h[i].of

(* Where a run finds what it has left in the history: the two messages     *)
(* that wait for the context, unless they have been cancelled, or the call *)
(* that it executes or answers.                                            *)
Placed(x, h, active) ==
  /\ x.pc = "gather" =>
       \/ /\ active = TRUE /\ Len(h) = x.index + 2
          /\ h[x.index + 1].status = None /\ h[x.index + 1].role # "tool"
          /\ Last(h) = Placeholder
       \/ active = FALSE /\ Len(h) = x.index
  /\ x.pc \in {"tool", "timer"} => Current(h) # None /\ Last(h).call = x.call

OrderInv ==
  orderly => /\ \A x, y \in Runs : run[x].pc # "idle" /\ run[y].pc # "idle" => x = y
             /\ Attributed(history)
             /\ \A x \in Runs : Placed(run[x], history, isStreaming)

-----------------------------------------------------------------------------
(* Three ways to change a history, and the reducers that are made of them. *)

LEMMA PrefixAttributed ==
  ASSUME NEW h \in Seq(Good), NEW n \in Int, n <= Len(h), Attributed(h)
  PROVE  Attributed(SubSeq(h, 1, n)) /\ (n >= 0 => Len(SubSeq(h, 1, n)) = n)
<1>1. Len(h) \in Nat
  BY LenProperties
<1>2. /\ Len(SubSeq(h, 1, n)) = IF 1 <= n THEN n ELSE 0
      /\ \A i \in 1 .. n : SubSeq(h, 1, n)[i] = h[i]
  BY <1>1, SubSeqProperties, ElementOfSeq
<1>3. QED BY <1>1, <1>2 DEF Attributed

LEMMA AppendAttributed ==
  ASSUME NEW h \in Seq(Good), NEW m \in Good, Attributed(h), OwnCall(m),
         m.role = "tool" => h # <<>> /\ Last(h).call = m.of
  PROVE  Attributed(Append(h, m)) /\ Last(Append(h, m)) = m /\ Append(h, m) # <<>>
<1>1. Len(h) \in Nat /\ Len(Append(h, m)) = Len(h) + 1 /\ Append(h, m) \in Seq(Good)
  BY LenProperties, AppendProperties
<1>2. /\ \A i \in 1 .. Len(h) : Append(h, m)[i] = h[i]
      /\ Append(h, m)[Len(h) + 1] = m
  BY AppendProperties
<1>3. h # <<>> => Len(h) \in 1 .. Len(h) /\ Last(h) = h[Len(h)]
  BY LastGood
<1>4. Attributed(Append(h, m))
  BY <1>1, <1>2, <1>3 DEF Attributed
<1>5. QED BY <1>1, <1>2, <1>4, EmptySeq DEF Last

LEMMA SetAttributed ==
  ASSUME NEW h \in Seq(Good), NEW k \in 1 .. Len(h), NEW m \in Good, Attributed(h), OwnCall(m),
         m.role = "tool" => h[k].role = "tool" /\ h[k].of = m.of,
         k < Len(h) => h[k + 1].role # "tool" \/ m.call = h[k].call
  PROVE  Attributed([h EXCEPT ![k] = m])
<1>1. Len(h) \in Nat
  BY LenProperties
<1>2. /\ Len([h EXCEPT ![k] = m]) = Len(h)
      /\ \A j \in 1 .. Len(h) : [h EXCEPT ![k] = m][j] = IF j = k THEN m ELSE h[j]
  BY ExceptSeq
<1>3. QED BY <1>1, <1>2 DEF Attributed

(* A change of the last message that keeps its role, and its call if it    *)
(* has one.                                                                *)
LEMMA LastAttributed ==
  ASSUME NEW h \in Seq(Good), h # <<>>, NEW m \in Good, Attributed(h), OwnCall(m),
         m.role = Last(h).role, m.of = Last(h).of
  PROVE  /\ [h EXCEPT ![Len(h)] = m] \in Seq(Good)
         /\ Attributed([h EXCEPT ![Len(h)] = m])
         /\ [h EXCEPT ![Len(h)] = m] # <<>> /\ Last([h EXCEPT ![Len(h)] = m]) = m
         /\ Len([h EXCEPT ![Len(h)] = m]) = Len(h)
<1>1. Len(h) \in 1 .. Len(h) /\ Last(h) = h[Len(h)] /\ Len(h) \in Nat
  BY LastGood, LenProperties
<1>2. Attributed([h EXCEPT ![Len(h)] = m])
  BY <1>1, SetAttributed
<1>3. /\ [h EXCEPT ![Len(h)] = m] \in Seq(Good)
      /\ Len([h EXCEPT ![Len(h)] = m]) = Len(h)
      /\ [h EXCEPT ![Len(h)] = m][Len(h)] = m
  BY <1>1, ExceptSeq
<1>4. QED BY <1>1, <1>2, <1>3, EmptySeq DEF Last

LEMMA SetLastIs ==
  ASSUME NEW h, NEW field, NEW value
  PROVE  SetLast(h, field, value) = [h EXCEPT ![Len(h)] = [Last(h) EXCEPT ![field] = value]]
  BY DEF SetLast, Last

LEMMA LastOwnCall ==
  ASSUME NEW h \in Seq(Good), h # <<>>, Attributed(h)
  PROVE  Last(h) \in Good /\ OwnCall(Last(h))
  BY LastGood DEF Attributed

LEMMA SetStatusAttributed ==
  ASSUME NEW h \in Seq(Good), NEW s \in Statuses, Attributed(h)
  PROVE  /\ Attributed(SetStatus(h, s))
         /\ Current(h) # None => /\ Current(SetStatus(h, s)) = s
                                 /\ Last(SetStatus(h, s)).call = Last(h).call
<1>1. CASE Current(h) = None
  BY <1>1 DEF SetStatus
<1>2. CASE Current(h) # None
  <2> DEFINE m == [Last(h) EXCEPT !["status"] = s]
  <2>1. h # <<>> /\ Last(h).status # None
    BY <1>2 DEF Current
  <2>2. Last(h) \in Good /\ OwnCall(Last(h))
    BY <2>1, LastOwnCall
  <2>3. m \in Good /\ OwnCall(m) /\ m.role = Last(h).role /\ m.of = Last(h).of
        /\ m.status = s /\ m.call = Last(h).call
    BY <2>1, <2>2 DEF Good, Messages, OwnCall
  <2>4. SetStatus(h, s) = [h EXCEPT ![Len(h)] = m]
    BY <1>2, SetLastIs DEF SetStatus
  <2> HIDE DEF m
  <2>5. QED BY <2>1, <2>3, <2>4, LastAttributed DEF Current
<1>3. QED BY <1>1, <1>2

LEMMA StreamTextAttributed ==
  ASSUME NEW h \in Seq(Good), NEW m \in Good, Attributed(h), OwnCall(m),
         m.role = "tool" => h # <<>> /\ Last(h).role = "assistant" /\ Last(h).call = m.of
  PROVE  Attributed(StreamText(h, m))
<1>1. CASE h = <<>>
  BY <1>1 DEF StreamText
<1>2. CASE h # <<>> /\ Last(h).role # m.role
  BY <1>2, AppendAttributed DEF StreamText
<1>3. CASE h # <<>> /\ Last(h).role = m.role /\ m.text = TRUE
  <2> DEFINE n == [Last(h) EXCEPT !["text"] = TRUE]
  <2>1. Last(h) \in Good /\ OwnCall(Last(h))
    BY <1>3, LastOwnCall
  <2>2. n \in Good /\ OwnCall(n) /\ n.role = Last(h).role /\ n.of = Last(h).of
    BY <2>1 DEF Good, Messages, OwnCall
  <2>3. StreamText(h, m) = [h EXCEPT ![Len(h)] = n]
    BY <1>3, SetLastIs DEF StreamText
  <2> HIDE DEF n
  <2>4. QED BY <1>3, <2>2, <2>3, LastAttributed
<1>4. CASE h # <<>> /\ Last(h).role = m.role /\ m.text = FALSE
  BY <1>4 DEF StreamText
<1>5. m.text \in BOOLEAN
  BY DEF Good, Messages
<1>6. QED BY <1>1, <1>2, <1>3, <1>4, <1>5

LEMMA StreamCallAttributed ==
  ASSUME NEW h \in Seq(Good), NEW c \in CallIds \ {0}, Attributed(h)
  PROVE  Attributed(StreamCall(h, c))
<1>1. CASE h = <<>>
  BY <1>1 DEF StreamCall
<1>2. CASE h # <<>> /\ NewItemForCall(h)
  <2>1. ToolCall(c) \in Good
    BY Literals
  <2>2. ToolCall(c).out = 0 /\ ToolCall(c).role = "assistant"
    BY DEF ToolCall, Placeholder, Message
  <2>3. QED BY <1>2, <2>1, <2>2, AppendAttributed DEF StreamCall, OwnCall
<1>3. CASE h # <<>> /\ ~NewItemForCall(h) /\ Last(h).call = 0
  <2> DEFINE n == [Last(h) EXCEPT !["call"] = c]
  <2>1. Last(h) \in Good /\ OwnCall(Last(h))
    BY <1>3, LastOwnCall
  <2>2. n \in Good /\ OwnCall(n) /\ n.role = Last(h).role /\ n.of = Last(h).of
    BY <1>3, <2>1 DEF Good, Messages, OwnCall
  <2>3. StreamCall(h, c) = [h EXCEPT ![Len(h)] = n]
    BY <1>3, SetLastIs DEF StreamCall
  <2> HIDE DEF n
  <2>4. QED BY <1>3, <2>2, <2>3, LastAttributed
<1>4. CASE h # <<>> /\ ~NewItemForCall(h) /\ Last(h).call # 0
  BY <1>4 DEF StreamCall
<1>5. QED BY <1>1, <1>2, <1>3, <1>4

LEMMA ClearAttributed ==
  ASSUME NEW h \in Seq(Good), Attributed(h)
  PROVE  /\ Attributed(ClearLastEmptyResponse(h))
         /\ Len(h) >= 2 /\ ~Last(h).text => Len(ClearLastEmptyResponse(h)) = Len(h) - 2
<1>1. Len(h) \in Nat
  BY LenProperties
<1>2. ASSUME Len(h) >= 2
      PROVE  /\ Attributed(SubSeq(h, 1, Len(h) - 2))
             /\ Len(SubSeq(h, 1, Len(h) - 2)) = Len(h) - 2
  <2>1. Len(h) - 2 \in Int /\ Len(h) - 2 <= Len(h) /\ Len(h) - 2 >= 0
    BY <1>1, <1>2
  <2>2. QED BY <2>1, PrefixAttributed
<1>3. CASE Len(h) >= 2 /\ ~Last(h).text
  <2>1. ClearLastEmptyResponse(h) = SubSeq(h, 1, Len(h) - 2)
    BY <1>3, Zenon DEF ClearLastEmptyResponse
  <2>2. QED BY <1>2, <1>3, <2>1
<1>4. CASE ~(Len(h) >= 2 /\ ~Last(h).text)
  <2>1. ClearLastEmptyResponse(h) = h
    BY <1>4, Zenon DEF ClearLastEmptyResponse
  <2>2. QED BY <1>4, <2>1, Zenon
<1>5. QED BY <1>3, <1>4

-----------------------------------------------------------------------------
(* The invariant, step by step.                                            *)

LEMMA InitOrder == Init => OrderInv
<1> SUFFICES ASSUME Init PROVE OrderInv
  OBVIOUS
<1>1. \A x \in Runs : run[x] = IdleRun /\ IdleRun.pc = "idle"
  BY IdleRunPc DEF Init
<1>2. Attributed(history)
  BY EmptySeq DEF Init, Attributed
<1>3. \A x \in Runs : Placed(run[x], history, isStreaming)
  BY <1>1 DEF Placed
<1>4. QED BY <1>1, <1>2, <1>3 DEF OrderInv

(* Steps of a run that begins or goes on: no other is under way.           *)
LEMMA BeginOrder ==
  ASSUME ActiveInv, OrderInv, NEW r \in Runs, NEW record \in Run, Begin(r, record),
         orderly /\ orderly' => /\ Attributed(history')
                               /\ Placed(record, history', isStreaming')
  PROVE  OrderInv'
<1> SUFFICES ASSUME orderly' PROVE OrderInv'
  BY DEF OrderInv
<1>1. orderly /\ Busy = {}
  BY DEF Begin
<1>2. \A x \in Runs : run[x].pc = "idle"
  BY <1>1 DEF Busy
<1>3. \A x \in Runs : run'[x] = IF x = r THEN record ELSE run[x]
  BY DEF Begin, ActiveInv, IInv
<1>4. \A x \in Runs : Placed(run'[x], history', isStreaming')
  BY <1>1, <1>2, <1>3 DEF Placed
<1>5. QED BY <1>1, <1>2, <1>3, <1>4 DEF OrderInv

LEMMA MoveOrder ==
  ASSUME ActiveInv, OrderInv, NEW r \in Runs, NEW record, run[r].pc # "idle",
         \A x \in Runs : run'[x].pc = IF x = r THEN record.pc ELSE run[x].pc,
         run'[r] = record,
         orderly' => /\ orderly /\ Attributed(history')
                     /\ Placed(record, history', isStreaming')
  PROVE  OrderInv'
<1> SUFFICES ASSUME orderly' PROVE OrderInv'
  BY DEF OrderInv
<1>1. \A x \in Runs : x # r => run[x].pc = "idle"
  BY DEF OrderInv
<1>2. \A x \in Runs : Placed(run'[x], history', isStreaming')
  BY <1>1 DEF Placed
<1>3. QED BY <1>1, <1>2 DEF OrderInv

LEMMA GotoOrder ==
  ASSUME ActiveInv, OrderInv, NEW r \in Runs, NEW record, run[r].pc # "idle", Goto(r, record),
         orderly' => /\ orderly /\ Attributed(history')
                     /\ Placed(record, history', isStreaming')
  PROVE  OrderInv'
<1>1. \A x \in Runs : run'[x] = IF x = r THEN record ELSE run[x]
  BY DEF Goto, ActiveInv, IInv
<1>2. \A x \in Runs : run'[x].pc = IF x = r THEN record.pc ELSE run[x].pc
  BY <1>1
<1>3. QED BY <1>1, <1>2, MoveOrder

LEMMA Now ==
  ASSUME ActiveInv, OrderInv, orderly
  PROVE  history \in Seq(Good) /\ Attributed(history)
         /\ \A x \in Runs : Placed(run[x], history, isStreaming)
  BY DEF ActiveInv, IInv, OrderInv

LEMMA NewMessages ==
  /\ OwnCall(User) /\ User.role = "user" /\ User.status = None /\ User.call = 0
  /\ OwnCall(Answer) /\ Answer.role = "assistant" /\ Answer.status = None
  /\ OwnCall(Placeholder) /\ Placeholder.role = "assistant" /\ Placeholder.status = None
  /\ \A c, t : LET m == ToolMessage(c, t) IN OwnCall(m) /\ m.role = "tool" /\ m.of = c
<1>1. /\ OwnCall(User) /\ User.role = "user" /\ User.status = None /\ User.call = 0
      /\ OwnCall(Answer) /\ Answer.role = "assistant" /\ Answer.status = None
      /\ OwnCall(Placeholder) /\ Placeholder.role = "assistant" /\ Placeholder.status = None
  BY DEF OwnCall, User, Answer, Placeholder, Message
<1>2. \A c, t : LET m == ToolMessage(c, t) IN OwnCall(m) /\ m.role = "tool" /\ m.of = c
  BY DEF OwnCall, ToolMessage, Message
<1>3. QED BY <1>1, <1>2

(* A message that waits for its context, and the place of its answer.      *)
LEMMA TwoMore ==
  ASSUME NEW h \in Seq(Good), Attributed(h), NEW m \in Good, OwnCall(m), m.role # "tool",
         m.status = None
  PROVE  LET new == h \o <<m, Placeholder>>
         IN  /\ Attributed(new) /\ Len(new) = Len(h) + 2
             /\ new[Len(h) + 1].status = None /\ new[Len(h) + 1].role # "tool"
             /\ Last(new) = Placeholder
<1> DEFINE new == h \o <<m, Placeholder>>
<1>1. <<m, Placeholder>> \in Seq(Good) /\ Len(h) \in Nat
  BY Literals, LenProperties
<1>2. /\ Len(new) = Len(h) + 2
      /\ \A i \in 1 .. Len(h) : new[i] = h[i]
      /\ new[Len(h) + 1] = m /\ new[Len(h) + 2] = Placeholder
  BY <1>1, ConcatProperties
<1> HIDE DEF new
<1>3. Attributed(new)
  BY <1>1, <1>2, NewMessages DEF Attributed
<1>4. QED BY <1>2, <1>3 DEF Last, new

LEMMA SendOrder == ASSUME ActiveInv, OrderInv, NEW r \in Runs, Send(r) PROVE OrderInv'
<1> DEFINE record == [IdleRun EXCEPT !.pc = "gather", !.index = Len(history)]
<1>1. Len(history) \in Nat
  BY LenProperties DEF ActiveInv, IInv
<1>2. record \in Run /\ record.pc = "gather" /\ record.index = Len(history)
  BY <1>1, RunRecords DEF IdleRun
<1>3. Begin(r, record) /\ isStreaming' = TRUE /\ history' = history \o <<Placeholder, Placeholder>>
  BY DEF Send
<1> HIDE DEF record
<1>4. ASSUME orderly PROVE Attributed(history') /\ Placed(record, history', isStreaming')
  BY <1>2, <1>3, <1>4, Now, Literals, NewMessages, TwoMore DEF Placed
<1>5. QED BY <1>2, <1>3, <1>4, BeginOrder

LEMMA ResubmitOrder ==
  ASSUME ActiveInv, OrderInv, NEW r \in Runs, NEW i \in DOMAIN history, Resubmit(r, i)
  PROVE  OrderInv'
<1> DEFINE record == [IdleRun EXCEPT !.pc = "gather", !.index = i - 1]
           m == [history[i] EXCEPT !.text = FALSE]
           h == SubSeq(history, 1, i - 1)
<1>1. i \in 1 .. Len(history) /\ history[i] \in Good /\ i - 1 \in Nat /\ Len(history) \in Nat
  BY LenProperties, ElementOfSeq DEF ActiveInv, IInv
<1>2. record \in Run /\ record.pc = "gather" /\ record.index = i - 1
  BY <1>1, RunRecords DEF IdleRun
<1>3. /\ Begin(r, record) /\ isStreaming' = TRUE /\ history' = h \o <<m, Placeholder>>
      /\ history[i].role = "user"
  BY DEF Resubmit
<1> HIDE DEF record
<1>4. ASSUME orderly PROVE Attributed(history') /\ Placed(record, history', isStreaming')
  <2>1. OwnCall(history[i])
    BY <1>1, <1>4, Now DEF Attributed
  <2>2. m \in Good /\ OwnCall(m) /\ m.role # "tool" /\ m.status = None
    BY <1>1, <1>3, <2>1 DEF Good, Messages, OwnCall
  <2>3. h \in Seq(Good) /\ Attributed(h) /\ Len(h) = i - 1
    BY <1>1, <1>4, Now, PrefixGood, PrefixAttributed
  <2> HIDE DEF m, h
  <2>4. QED BY <1>2, <1>3, <2>2, <2>3, TwoMore DEF Placed
<1>5. QED BY <1>2, <1>3, <1>4, BeginOrder

(* Only a run that gathers context can be under way.                       *)
LEMMA CancelOrder == ASSUME ActiveInv, OrderInv, Cancel PROVE OrderInv'
<1> SUFFICES ASSUME orderly' PROVE OrderInv'
  BY DEF OrderInv
<1>1. /\ orderly /\ Current(history) = None /\ isStreaming = TRUE /\ isStreaming' = FALSE
      /\ history' = ClearLastEmptyResponse(history) /\ run' = run
  BY DEF Cancel, ActiveInv, IInv
<1>2. Attributed(history')
  BY <1>1, Now, ClearAttributed
<1>3. ASSUME NEW x \in Runs PROVE Placed(run[x], history', isStreaming')
  <2>1. Placed(run[x], history, isStreaming)
    BY <1>1, Now
  <2>2. CASE run[x].pc = "gather"
    <3>1. Len(history) = run[x].index + 2 /\ Last(history) = Placeholder /\ run[x].index \in Nat
      BY <1>1, <2>1, <2>2, RunType DEF Placed, ActiveInv
    <3>2. ~Placeholder.text
      BY DEF Placeholder, Message
    <3>3. Len(history') = run[x].index
      BY <1>1, <3>1, <3>2, Now, ClearAttributed
    <3>4. QED BY <1>1, <2>2, <3>3 DEF Placed
  <2>3. CASE run[x].pc # "gather"
    BY <1>1, <2>1, <2>3 DEF Placed
  <2>4. QED BY <2>2, <2>3
<1>4. QED BY <1>1, <1>2, <1>3 DEF OrderInv

(* The call of the last message is accepted or rejected.                   *)
LEMMA AnswerCallOrder ==
  ASSUME ActiveInv, OrderInv, NEW r \in Runs, NEW s \in Statuses,
         NEW record \in Run, record.pc \in {"tool", "timer"},
         record.call = Last(history).call,
         Current(history) = "generated", Begin(r, record), history' = SetStatus(history, s)
  PROVE  OrderInv'
<1>1. Current(history) # None /\ s # None
  BY ChatAssumption DEF Statuses
<1>2. ASSUME orderly PROVE Attributed(history') /\ Placed(record, history', isStreaming')
  BY <1>1, <1>2, Now, SetStatusAttributed DEF Placed
<1>3. QED BY <1>2, BeginOrder

LEMMA AcceptOrder == ASSUME ActiveInv, OrderInv, NEW r \in Runs, Accept(r) PROVE OrderInv'
<1> DEFINE record == [IdleRun EXCEPT !.pc = "tool", !.call = Last(history).call]
<1>1. /\ Current(history) = "generated" /\ Current(history) # None
      /\ Begin(r, record) /\ history' = SetStatus(history, "calling")
  BY ChatAssumption DEF Accept
<1>2. Last(history).call \in CallIds
  BY <1>1, CurrentCall DEF ActiveInv, IInv
<1>3. record \in Run /\ record.pc = "tool" /\ record.call = Last(history).call
  BY <1>2, RunRecords
<1> HIDE DEF record
<1>4. QED BY <1>1, <1>3, AnswerCallOrder DEF Statuses

LEMMA RejectOrder == ASSUME ActiveInv, OrderInv, NEW r \in Runs, Reject(r) PROVE OrderInv'
<1> DEFINE record == [IdleRun EXCEPT !.pc = "timer", !.call = Last(history).call, !.text = TRUE]
<1>1. /\ Current(history) = "generated" /\ Current(history) # None
      /\ Begin(r, record) /\ history' = SetStatus(history, "canceled")
  BY ChatAssumption DEF Reject
<1>2. Last(history).call \in CallIds
  BY <1>1, CurrentCall DEF ActiveInv, IInv
<1>3. record \in Run /\ record.pc = "timer" /\ record.call = Last(history).call
  BY <1>2, TimerRecord
<1> HIDE DEF record
<1>4. QED BY <1>1, <1>3, AnswerCallOrder DEF Statuses

LEMMA NewSessionOrder == ASSUME ActiveInv, OrderInv, NewSession PROVE OrderInv'
<1> SUFFICES ASSUME orderly' PROVE OrderInv'
  BY DEF OrderInv
<1>1. Busy = {} /\ run' = run
  BY DEF NewSession
<1>2. \A x \in Runs : run'[x].pc = "idle"
  BY <1>1 DEF Busy
<1>3. Attributed(<<>>) /\ Attributed(<<User, Answer>>) /\ Attributed(<<User>>)
  BY NewMessages DEF Attributed
<1>4. Attributed(history')
  BY <1>3 DEF NewSession
<1>5. QED BY <1>2, <1>4 DEF OrderInv, Placed

(* The message has its context, and becomes one of the user.               *)
LEMMA GatheredOrder == ASSUME ActiveInv, OrderInv, NEW r \in Runs, Gathered(r) PROVE OrderInv'
<1>1. /\ run[r].pc = "gather" /\ Goto(r, Streaming) /\ orderly' = orderly
      /\ history' = SetMessageAtIndex(history, run[r].index) /\ run[r].index \in Nat
  BY RunType DEF Gathered, ActiveInv
<1>2. ASSUME orderly PROVE Attributed(history')
  <2>1. history \in Seq(Good) /\ Attributed(history) /\ Placed(run[r], history, isStreaming)
    BY <1>2, Now
  <2>2. CASE Len(history) = run[r].index
    BY <1>1, <2>1, <2>2, Literals, NewMessages, AppendAttributed DEF SetMessageAtIndex
  <2>3. CASE /\ Len(history) = run[r].index + 2
             /\ history[run[r].index + 1].status = None /\ Last(history) = Placeholder
    <3> DEFINE k == run[r].index + 1
    <3>1. k \in 1 .. Len(history) /\ k + 1 = Len(history) /\ run[r].index # Len(history)
      BY <1>1, <2>3
    <3>2. history' = [history EXCEPT ![k] = User]
      BY <1>1, <2>3, <3>1 DEF SetMessageAtIndex
    <3>3. history[k + 1].role = "assistant"
      BY <2>3, <3>1, NewMessages DEF Last
    <3> HIDE DEF k
    <3>4. QED BY <2>1, <3>1, <3>2, <3>3, Literals, NewMessages, SetAttributed
  <2>4. QED BY <1>1, <2>1, <2>2, <2>3 DEF Placed
<1>3. Placed(Streaming, history', isStreaming')
  BY StreamingRun DEF Placed
<1>4. QED BY <1>1, <1>2, <1>3, GotoOrder

LEMMA GatherFailsOrder ==
  ASSUME ActiveInv, OrderInv, NEW r \in Runs, GatherFails(r) PROVE OrderInv'
<1>1. /\ run[r].pc = "gather" /\ Goto(r, IdleRun) /\ orderly' = orderly /\ history' = history
  BY DEF GatherFails, End
<1>2. Placed(IdleRun, history', isStreaming')
  BY IdleRunPc DEF Placed
<1>3. QED BY <1>1, <1>2, Now, GotoOrder

LEMMA StreamFailsOrder ==
  ASSUME ActiveInv, OrderInv, NEW r \in Runs, StreamFails(r) PROVE OrderInv'
<1>1. /\ run[r].pc = "stream" /\ Goto(r, IdleRun) /\ (orderly' => orderly)
      /\ history' = ClearLastEmptyResponse(history)
  BY DEF StreamFails, End
<1>2. Placed(IdleRun, history', isStreaming')
  BY IdleRunPc DEF Placed
<1>3. QED BY <1>1, <1>2, Now, ClearAttributed, GotoOrder

LEMMA TextUpdateOrder ==
  ASSUME ActiveInv, OrderInv, NEW r \in Runs, TextUpdate(r) PROVE OrderInv'
<1>1. run[r].pc = "stream" /\ run' = run /\ orderly' = orderly
  BY DEF TextUpdate, Update
<1>2. PICK m \in {Answer, Placeholder} : history' = StreamText(history, m)
  BY DEF TextUpdate, Update
<1>3. m \in Good /\ OwnCall(m) /\ m.role = "assistant"
  BY Literals, NewMessages
<1>4. ASSUME orderly PROVE Attributed(history')
  BY <1>2, <1>3, <1>4, Now, StreamTextAttributed
<1>5. Placed(run[r], history', isStreaming')
  BY <1>1 DEF Placed
<1>6. \A x \in Runs : run'[x].pc = IF x = r THEN run[r].pc ELSE run[x].pc
  BY <1>1
<1>7. QED BY <1>1, <1>4, <1>5, <1>6, MoveOrder

LEMMA CallUpdateOrder ==
  ASSUME ActiveInv, OrderInv, NEW r \in Runs, CallUpdate(r) PROVE OrderInv'
<1> DEFINE c == IF run[r].call = 0 THEN called + 1 ELSE run[r].call
           record == [run[r] EXCEPT !.call = c]
<1>1. run[r] \in Run /\ run[r].call \in CallIds
      /\ called \in 0 .. Calls /\ run[r].pc = "stream"
  BY RunType DEF ActiveInv, IInv, CallUpdate, CallIds
<1>2. c \in CallIds \ {0}
  BY <1>1, ChatAssumption DEF CallUpdate, CallIds
<1>3. Goto(r, record) /\ orderly' = orderly /\ history' = StreamCall(history, c)
  BY DEF CallUpdate, Update
<1> HIDE DEF c
<1>4. record.pc = "stream"
  BY <1>1, <1>2 DEF Run
<1> HIDE DEF record
<1>5. ASSUME orderly PROVE Attributed(history')
  BY <1>2, <1>3, <1>5, Now, StreamCallAttributed
<1>6. Placed(record, history', isStreaming')
  BY <1>4 DEF Placed
<1>7. QED BY <1>1, <1>3, <1>5, <1>6, GotoOrder

LEMMA StreamEndsOrder == ASSUME ActiveInv, OrderInv, NEW r \in Runs, StreamEnds(r) PROVE OrderInv'
<1>1. orderly' = orderly /\ run[r].pc = "stream"
  BY DEF StreamEnds
<1>2. CASE /\ Current(history) # None
           /\ history' = SetStatus(history, "calling")
           /\ Goto(r, [IdleRun EXCEPT !.pc = "tool", !.call = Last(history).call,
                                      !.inner = TRUE])
           /\ UNCHANGED isStreaming
  <2> DEFINE record == [IdleRun EXCEPT !.pc = "tool", !.call = Last(history).call,
                                       !.inner = TRUE]
  <2>1. Last(history).call \in CallIds
    BY <1>2, CurrentCall DEF ActiveInv, IInv
  <2>2. record.pc = "tool" /\ record.call = Last(history).call
    BY <2>1, RunRecords
  <2>3. Goto(r, record)
    BY <1>2
  <2> HIDE DEF record
  <2>4. "calling" \in Statuses /\ "calling" # None
    BY ChatAssumption DEF Statuses
  <2>5. ASSUME orderly PROVE Attributed(history') /\ Placed(record, history', isStreaming')
    BY <1>2, <2>2, <2>4, <2>5, Now, SetStatusAttributed DEF Placed
  <2>6. QED BY <1>1, <2>3, <2>5, GotoOrder
<1>3. CASE history' = SetStatus(history, "generated") /\ End(r)
  <2>1. ASSUME orderly PROVE Attributed(history')
    BY <1>3, <2>1, Now, SetStatusAttributed DEF Statuses
  <2>2. Placed(IdleRun, history', isStreaming')
    BY IdleRunPc DEF Placed
  <2>3. QED BY <1>1, <1>3, <2>1, <2>2, GotoOrder DEF End
<1>4. QED BY <1>2, <1>3 DEF StreamEnds

(* The call that the run executes is still the last message.               *)
LEMMA ToolReturnsOrder ==
  ASSUME ActiveInv, OrderInv, NEW r \in Runs, ToolReturns(r) PROVE OrderInv'
<1>1. run[r].call \in CallIds \ {0} /\ run[r].pc = "tool" /\ orderly' = orderly
  BY RunType DEF ActiveInv, IInv, ToolReturns, ToolRunsHaveACall
<1>2. PICK record : record.pc = "timer" /\ record.call = run[r].call /\ Goto(r, record)
  BY <1>1, TimerRecord DEF ToolReturns
<1>4. ASSUME orderly PROVE Attributed(history') /\ Placed(record, history', isStreaming')
  <2>1. /\ history \in Seq(Good) /\ Attributed(history)
        /\ Current(history) # None /\ Last(history).call = run[r].call
    BY <1>1, <1>4, Now DEF Placed
  <2>2. /\ history # <<>> /\ Last(history) \in Good /\ OwnCall(Last(history))
        /\ Last(history).status # None
    BY <2>1, CurrentCall, LastOwnCall DEF Current
  <2> DEFINE m == [Last(history) EXCEPT !["out"] = run[r].call]
             h == [history EXCEPT ![Len(history)] = m]
             n == [m EXCEPT !["status"] = "done"]
  <2>3. m \in Good /\ OwnCall(m) /\ m.role = Last(history).role /\ m.of = Last(history).of
        /\ m.call = run[r].call /\ m.status # None
    BY <1>1, <2>1, <2>2 DEF Good, Messages, OwnCall
  <2> HIDE DEF m
  <2>4. n \in Good /\ OwnCall(n) /\ n.role = m.role /\ n.of = m.of
        /\ n.call = run[r].call /\ n.status = "done"
    BY <2>3 DEF Good, Messages, Statuses, OwnCall
  <2>5. h \in Seq(Good) /\ Attributed(h) /\ h # <<>> /\ Last(h) = m
    BY <2>1, <2>2, <2>3, LastAttributed
  <2>6. history' = [h EXCEPT ![Len(h)] = n]
    <3>1. SetLast(history, "out", run[r].call) = h
      BY SetLastIs DEF m
    <3>2. SetLast(h, "status", "done") = [h EXCEPT ![Len(h)] = n]
      BY <2>5, SetLastIs
    <3>3. QED BY <2>1, <3>1, <3>2 DEF ToolReturns
  <2> HIDE DEF h, n
  <2>7. Attributed(history') /\ history' # <<>> /\ Last(history') = n
    BY <2>4, <2>5, <2>6, LastAttributed
  <2>8. Current(history') # None /\ Last(history').call = run[r].call
    BY <2>4, <2>7, ChatAssumption DEF Current
  <2>9. QED BY <1>2, <2>7, <2>8 DEF Placed
<1>5. QED BY <1>1, <1>2, <1>4, GotoOrder

LEMMA ToolFailsOrder == ASSUME ActiveInv, OrderInv, NEW r \in Runs, ToolFails(r) PROVE OrderInv'
<1>1. /\ run[r].pc = "tool" /\ Goto(r, IdleRun) /\ orderly' = orderly /\ history' = history
  BY DEF ToolFails
<1>2. Placed(IdleRun, history', isStreaming')
  BY IdleRunPc DEF Placed
<1>3. QED BY <1>1, <1>2, Now, GotoOrder

(* The message of the tool comes after the call that the run answers.      *)
LEMMA AfterToolCallOrder ==
  ASSUME ActiveInv, OrderInv, NEW r \in Runs, AfterToolCall(r) PROVE OrderInv'
<1>1. /\ run[r].pc = "timer" /\ Goto(r, Streaming) /\ orderly' = orderly
      /\ history' = StreamText(history, ToolMessage(run[r].call, run[r].text))
  BY DEF AfterToolCall
<1>2. ToolMessage(run[r].call, run[r].text) \in Good
  BY <1>1, RunType, Literals DEF ActiveInv, IInv, ToolRunsHaveACall
<1>3. ASSUME orderly PROVE Attributed(history')
  <2>1. /\ history \in Seq(Good) /\ Attributed(history)
        /\ Current(history) # None /\ Last(history).call = run[r].call
    BY <1>1, <1>3, Now DEF Placed
  <2>2. history # <<>> /\ Last(history).role = "assistant"
    BY <2>1, CurrentCall, LastOwnCall DEF Current, OwnCall
  <2>3. QED BY <1>1, <1>2, <2>1, <2>2, NewMessages, StreamTextAttributed
<1>4. Placed(Streaming, history', isStreaming')
  BY StreamingRun DEF Placed
<1>5. QED BY <1>1, <1>3, <1>4, GotoOrder

-----------------------------------------------------------------------------
LEMMA NextOrder == ActiveInv /\ OrderInv /\ [Next]_vars => OrderInv'
<1> SUFFICES ASSUME ActiveInv, OrderInv, [Next]_vars PROVE OrderInv'
  OBVIOUS
<1>1. ASSUME NEW i \in DOMAIN history, DeleteMessage(i) PROVE OrderInv'
  BY <1>1 DEF DeleteMessage, OrderInv
<1>2. CASE UserStep
  BY <1>1, <1>2, SendOrder, AcceptOrder, RejectOrder, ResubmitOrder, CancelOrder,
     NewSessionOrder DEF UserStep
<1>3. ASSUME NEW r \in Runs, RunStep(r) PROVE OrderInv'
  BY <1>3, GatheredOrder, GatherFailsOrder, TextUpdateOrder, CallUpdateOrder, StreamEndsOrder,
     StreamFailsOrder, ToolReturnsOrder, ToolFailsOrder, AfterToolCallOrder
  DEF RunStep
<1>4. CASE UNCHANGED vars
  BY <1>4 DEF vars, OrderInv
<1>5. QED BY <1>2, <1>3, <1>4 DEF Next

(* As long as thunks do not overlap and none is disturbed, the message of  *)
(* a tool comes right after the call it answers, and a call has the output *)
(* of its own execution (streamUpdate, setToolCallOutput, callTool and     *)
(* streamResponseAfterToolCall), for any number of thunks and messages.    *)
THEOREM ToolOutputsAttributed == Spec => []ToolAnswersItsCall
<1>1. ActiveInv /\ OrderInv => ToolAnswersItsCall
  <2> SUFFICES ASSUME ActiveInv, OrderInv, orderly, NEW i \in DOMAIN history
               PROVE  /\ history[i].out \in {0, history[i].call}
                      /\ history[i].role = "tool" => i > 1 /\ history[i - 1].call = history[i].of
    BY DEF ToolAnswersItsCall
  <2>1. i \in 1 .. Len(history)
    BY LenProperties DEF ActiveInv, IInv
  <2>2. QED BY <2>1, Now DEF Attributed, OwnCall
<1>2. QED BY <1>1, InitOrder, NextOrder, SpecInv, PTL DEF Spec

-----------------------------------------------------------------------------
(* Calls that were done or rejected.                                       *)

(* Such a call has been answered, or a run is about to answer it.          *)
Settled(h) == \A i \in 1 .. Len(h) - 1 : Closed(h[i]) => h[i + 1].role = "tool"

Open(h) == h # <<>> => ~Closed(Last(h))


Kept(h, g) ==
  \A i \in 1 .. Len(h) :
    i <= Len(g) /\ Closed(h[i]) /\ g[i].call = h[i].call => g[i].status = h[i].status

ClosedInv ==
  orderly => /\ Settled(history)
             /\ \A x \in Runs : run[x].pc = "tool" => Last(history).status = "calling"
             /\ Open(history) \/ \E x \in Runs : run[x].pc = "timer"

-----------------------------------------------------------------------------
(* What the reducers keep.                                                 *)

LEMMA ClosedCall == ASSUME NEW m \in Good, Closed(m) PROVE m.call # 0 /\ m.status # None
  BY ChatAssumption DEF Good, Closed

LEMMA OpenStatuses ==
  /\ ~Closed(User) /\ ~Closed(Answer) /\ ~Closed(Placeholder)
  /\ User.call = 0 /\ Answer.call = 0 /\ Placeholder.call = 0
  /\ \A c : ~Closed(ToolCall(c)) /\ \A t : ~Closed(ToolMessage(c, t))
<1>1. /\ ~Closed(User) /\ ~Closed(Answer) /\ ~Closed(Placeholder)
      /\ User.call = 0 /\ Answer.call = 0 /\ Placeholder.call = 0
  BY ChatAssumption DEF Closed, User, Answer, Placeholder, Message
<1>2. ASSUME NEW c PROVE ~Closed(ToolCall(c))
  <2>1. ToolCall(c).status = "generating"
    BY DEF ToolCall, Placeholder, Message
  <2>2. QED BY <2>1 DEF Closed
<1>3. ASSUME NEW c, NEW t PROVE ~Closed(ToolMessage(c, t))
  <2>1. ToolMessage(c, t).status = None
    BY DEF ToolMessage, Message
  <2>2. QED BY <2>1, ChatAssumption DEF Closed
<1>4. QED BY <1>1, <1>2, <1>3

LEMMA AppendIs ==
  ASSUME NEW h \in Seq(Good), NEW m \in Good
  PROVE  Append(h, m) # <<>> /\ Last(Append(h, m)) = m
<1>1. Len(h) \in Nat /\ Len(Append(h, m)) = Len(h) + 1 /\ Append(h, m)[Len(h) + 1] = m
  BY LenProperties, AppendProperties
<1>2. QED BY <1>1, EmptySeq DEF Last

LEMMA ExceptLast ==
  ASSUME NEW h \in Seq(Good), h # <<>>, NEW m \in Good
  PROVE  LET g == [h EXCEPT ![Len(h)] = m] IN
         /\ g \in Seq(Good) /\ g # <<>> /\ Last(g) = m /\ Len(g) = Len(h)
         /\ \A i \in 1 .. Len(h) - 1 : g[i] = h[i]
<1>1. Len(h) \in 1 .. Len(h) /\ Len(h) \in Nat
  BY LastGood, LenProperties
<1>2. QED BY <1>1, ExceptSeq, EmptySeq DEF Last

(* The end is open before a message that is not that of a tool.            *)
LEMMA OpenPrefix ==
  ASSUME NEW h \in Seq(Good), NEW n \in 0 .. Len(h) - 1, Settled(h), h[n + 1].role # "tool"
  PROVE  Open(SubSeq(h, 1, n))
<1> DEFINE g == SubSeq(h, 1, n)
<1>1. Len(h) \in Nat /\ Len(g) = n /\ \A i \in 1 .. n : g[i] = h[i]
  <2>1. Len(h) \in Nat
    BY LenProperties
  <2>2. QED BY <2>1, SubSeqProperties, ElementOfSeq
<1>2. g \in Seq(Good)
  BY <1>1, PrefixGood
<1> HIDE DEF g
<1>3. ~Closed(h[n]) \/ n = 0
  BY <1>1 DEF Settled
<1>4. QED BY <1>1, <1>2, <1>3, LastGood, EmptySeq DEF Open, g

(* The end of a history that is cut at n.                                  *)
LEMMA PrefixSettled ==
  ASSUME NEW h \in Seq(Good), NEW n \in 0 .. Len(h), Settled(h)
  PROVE  Settled(SubSeq(h, 1, n)) /\ Kept(h, SubSeq(h, 1, n))
<1> DEFINE g == SubSeq(h, 1, n)
<1>1. Len(h) \in Nat /\ Len(g) = n /\ \A i \in 1 .. n : g[i] = h[i]
  <2>1. Len(h) \in Nat
    BY LenProperties
  <2>2. QED BY <2>1, SubSeqProperties, ElementOfSeq
<1> HIDE DEF g
<1>2. Settled(g)
  BY <1>1 DEF Settled
<1>3. Kept(h, g)
  BY <1>1 DEF Kept
<1>4. QED BY <1>2, <1>3 DEF g

LEMMA AppendSettled ==
  ASSUME NEW h \in Seq(Good), NEW m \in Good, Settled(h), Open(h) \/ m.role = "tool"
  PROVE  Settled(Append(h, m)) /\ Kept(h, Append(h, m))
<1> DEFINE g == Append(h, m)
<1>1. Len(h) \in Nat /\ Len(g) = Len(h) + 1 /\ g[Len(h) + 1] = m
      /\ \A i \in 1 .. Len(h) : g[i] = h[i]
  BY LenProperties, AppendProperties
<1>2. h # <<>> => Last(h) = h[Len(h)]
  BY LastGood
<1> HIDE DEF g
<1>3. Settled(g)
  <2> SUFFICES ASSUME NEW i \in 1 .. Len(h), Closed(h[i]) PROVE g[i + 1].role = "tool"
    BY <1>1 DEF Settled
  <2>1. CASE i = Len(h)
    BY <1>1, <1>2, <2>1, EmptySeq DEF Open
  <2>2. CASE i < Len(h)
    BY <1>1, <2>2 DEF Settled
  <2>3. QED BY <1>1, <2>1, <2>2
<1>4. Kept(h, g)
  BY <1>1 DEF Kept
<1>5. QED BY <1>3, <1>4 DEF g

(* A change of the last message, whose status changes only if it is open.  *)
LEMMA LastSettled ==
  ASSUME NEW h \in Seq(Good), NEW g \in Seq(Good), h # <<>>, Settled(h),
         Len(g) = Len(h), \A i \in 1 .. Len(h) - 1 : g[i] = h[i],
         Last(g).role = Last(h).role,
         Closed(Last(h)) => Last(g).status = Last(h).status
  PROVE  Settled(g) /\ Kept(h, g)
<1>1. Len(h) \in Nat /\ Len(h) \in 1 .. Len(h) /\ Last(h) = h[Len(h)] /\ Last(g) = g[Len(h)]
  BY LenProperties, LastGood DEF Last
<1>2. \A i \in 1 .. Len(h) : (i = Len(h) \/ g[i] = h[i]) /\ g[i].role = h[i].role
  BY <1>1
<1>3. Settled(g)
  BY <1>1, <1>2 DEF Settled
<1>4. Kept(h, g)
  BY <1>1, <1>2 DEF Kept
<1>5. QED BY <1>3, <1>4

LEMMA TwoMoreIs ==
  ASSUME NEW h \in Seq(Good), NEW m \in Good
  PROVE  LET g == h \o <<m, Placeholder>> IN
         /\ Len(g) = Len(h) + 2 /\ \A i \in 1 .. Len(h) : g[i] = h[i]
         /\ g[Len(h) + 1] = m /\ g[Len(h) + 2] = Placeholder
<1>1. <<m, Placeholder>> \in Seq(Good) /\ Len(h) \in Nat
  BY Literals, LenProperties
<1>2. QED BY <1>1, ConcatProperties

(* The two messages that wait for the context leave the end open.          *)
LEMMA TwoMoreSettled ==
  ASSUME NEW h \in Seq(Good), NEW m \in Good, Settled(h), Open(h), ~Closed(m)
  PROVE  Settled(h \o <<m, Placeholder>>)
<1> DEFINE g == h \o <<m, Placeholder>>
<1>1. Len(h) \in Nat
  BY LenProperties
<1>2. /\ Len(g) = Len(h) + 2
      /\ \A i \in 1 .. Len(h) : g[i] = h[i]
      /\ g[Len(h) + 1] = m /\ g[Len(h) + 2] = Placeholder
  BY TwoMoreIs
<1>3. h # <<>> => Last(h) = h[Len(h)]
  BY LastGood
<1> HIDE DEF g
<1>4. Settled(g)
  <2> SUFFICES ASSUME NEW i \in 1 .. Len(h) + 1, Closed(g[i]) PROVE g[i + 1].role = "tool"
    BY <1>1, <1>2 DEF Settled
  <2>1. i < Len(h)
    BY <1>1, <1>2, <1>3, EmptySeq DEF Open
  <2>2. QED BY <1>1, <1>2, <2>1 DEF Settled
<1>5. QED BY <1>4 DEF g

(* The reducers, made of these changes.                                    *)
LEMMA StreamTextSettled ==
  ASSUME NEW h \in Seq(Good), NEW m \in Good, Settled(h), ~Closed(m),
         Open(h) \/ (m.role = "tool" /\ h # <<>> /\ Last(h).role # "tool")
  PROVE  LET g == StreamText(h, m) IN Settled(g) /\ Kept(h, g) /\ Open(g)
<1>1. CASE h = <<>>
  BY <1>1 DEF StreamText, Kept, Open
<1>2. CASE h # <<>> /\ Last(h).role # m.role
  BY <1>2, AppendSettled, AppendIs DEF StreamText, Open
<1>3. CASE h # <<>> /\ Last(h).role = m.role /\ m.text = TRUE
  <2> DEFINE n == [Last(h) EXCEPT !["text"] = TRUE]
             g == [h EXCEPT ![Len(h)] = n]
  <2>1. Last(h) \in Good
    BY <1>3, LastGood
  <2>2. n \in Good /\ n.role = Last(h).role /\ n.status = Last(h).status /\ n.text = TRUE
    BY <2>1 DEF Good, Messages
  <2>3. StreamText(h, m) = g
    BY <1>3, SetLastIs DEF StreamText
  <2> HIDE DEF n
  <2>4. g \in Seq(Good) /\ g # <<>> /\ Last(g) = n /\ Len(g) = Len(h)
        /\ \A i \in 1 .. Len(h) - 1 : g[i] = h[i]
    BY <1>3, <2>2, ExceptLast
  <2> HIDE DEF g
  <2>5. Settled(g) /\ Kept(h, g)
    BY <1>3, <2>2, <2>4, LastSettled
  <2>6. Open(g)
    BY <1>3, <2>2, <2>4 DEF Open, Closed
  <2>7. QED BY <2>3, <2>5, <2>6
<1>4. CASE h # <<>> /\ Last(h).role = m.role /\ m.text = FALSE
  <2>1. StreamText(h, m) = h
    BY <1>4 DEF StreamText
  <2>2. QED BY <1>4, <2>1 DEF Kept
<1>5. m.text \in BOOLEAN
  BY DEF Good, Messages
<1>6. QED BY <1>1, <1>2, <1>3, <1>4, <1>5

LEMMA StreamCallSettled ==
  ASSUME NEW h \in Seq(Good), NEW c \in CallIds \ {0}, Settled(h), Open(h)
  PROVE  LET g == StreamCall(h, c) IN Settled(g) /\ Kept(h, g) /\ Open(g)
<1>1. Kept(h, h)
  BY DEF Kept
<1>2. CASE h # <<>> /\ NewItemForCall(h)
  <2>1. ToolCall(c) \in Good
    BY Literals
  <2>2. QED BY <1>2, <2>1, OpenStatuses, AppendSettled, AppendIs DEF StreamCall, Open
<1>3. CASE h # <<>> /\ ~NewItemForCall(h) /\ Last(h).call = 0
  <2> DEFINE n == [Last(h) EXCEPT !["call"] = c]
             g == [h EXCEPT ![Len(h)] = n]
  <2>1. Last(h) \in Good
    BY <1>3, LastGood
  <2>2. n \in Good /\ n.role = Last(h).role /\ n.status = Last(h).status
    BY <1>3, <2>1 DEF Good, Messages
  <2>3. StreamCall(h, c) = g
    BY <1>3, SetLastIs DEF StreamCall
  <2> HIDE DEF n
  <2>4. g \in Seq(Good) /\ g # <<>> /\ Last(g) = n /\ Len(g) = Len(h)
        /\ \A i \in 1 .. Len(h) - 1 : g[i] = h[i]
    BY <1>3, <2>2, ExceptLast
  <2> HIDE DEF g
  <2>5. Settled(g) /\ Kept(h, g)
    BY <1>3, <2>2, <2>4, LastSettled
  <2>6. Open(g)
    BY <1>3, <2>2, <2>4 DEF Open, Closed
  <2>7. QED BY <2>3, <2>5, <2>6
<1>4. CASE h = <<>> \/ (~NewItemForCall(h) /\ Last(h).call # 0)
  <2>1. StreamCall(h, c) = h
    BY <1>4 DEF StreamCall
  <2>2. QED BY <1>1, <2>1
<1>5. QED BY <1>2, <1>3, <1>4

LEMMA SetStatusSettled ==
  ASSUME NEW h \in Seq(Good), NEW s \in Statuses, Settled(h), Open(h)
  PROVE  LET g == SetStatus(h, s) IN
         /\ Settled(g) /\ Kept(h, g)
         /\ Current(h) # None => g # <<>> /\ Last(g).status = s
         /\ s \notin {"done", "canceled"} => Open(g)
<1>1. CASE Current(h) = None
  <2>1. SetStatus(h, s) = h
    BY <1>1 DEF SetStatus
  <2>2. QED BY <1>1, <2>1 DEF Kept
<1>2. CASE Current(h) # None
  <2> DEFINE n == [Last(h) EXCEPT !["status"] = s]
             g == [h EXCEPT ![Len(h)] = n]
  <2>1. h # <<>> /\ Last(h).status # None /\ Last(h) \in Good
    BY <1>2, LastGood DEF Current
  <2>2. n \in Good /\ n.role = Last(h).role /\ n.status = s
    BY <2>1 DEF Good, Messages
  <2>3. SetStatus(h, s) = g
    BY <1>2, SetLastIs DEF SetStatus
  <2> HIDE DEF n
  <2>4. g \in Seq(Good) /\ g # <<>> /\ Last(g) = n /\ Len(g) = Len(h)
        /\ \A i \in 1 .. Len(h) - 1 : g[i] = h[i]
    BY <2>1, <2>2, ExceptLast
  <2> HIDE DEF g
  <2>5. s # None
    BY ChatAssumption DEF Statuses
  <2>6. Settled(g) /\ Kept(h, g)
    BY <2>1, <2>2, <2>4, <2>5, LastSettled DEF Open
  <2>7. s \notin {"done", "canceled"} => Open(g)
    BY <2>2, <2>4 DEF Open, Closed
  <2>8. QED BY <2>2, <2>3, <2>4, <2>6, <2>7
<1>3. QED BY <1>1, <1>2

(* No call that was done or rejected comes before what is cleared: its     *)
(* tool's message would be cleared.                                        *)
LEMMA ClearSettled ==
  ASSUME NEW h \in Seq(Good), Settled(h), Open(h), SparesTools(h)
  PROVE  LET g == ClearLastEmptyResponse(h) IN Settled(g) /\ Kept(h, g) /\ Open(g)
<1>1. CASE Len(h) >= 2 /\ ~Last(h).text
  <2> DEFINE n == Len(h) - 2
  <2>1. ClearLastEmptyResponse(h) = SubSeq(h, 1, n)
    BY <1>1, Zenon DEF ClearLastEmptyResponse
  <2>2. Len(h) \in Nat /\ Len(h) \in 1 .. Len(h) /\ n \in 0 .. Len(h) /\ h # <<>>
    BY <1>1, LenProperties, EmptySeq
  <2>3. n + 1 = Len(h) - 1 /\ n \in 0 .. Len(h) - 1
    BY <1>1, <2>2
  <2>4. h[n + 1].role # "tool"
    BY <1>1, <2>3 DEF SparesTools
  <2>5. Settled(SubSeq(h, 1, n)) /\ Kept(h, SubSeq(h, 1, n))
    BY <2>2, PrefixSettled
  <2>6. Open(SubSeq(h, 1, n))
    BY <2>3, <2>4, OpenPrefix
  <2>7. QED BY <2>1, <2>5, <2>6
<1>2. CASE ~(Len(h) >= 2 /\ ~Last(h).text)
  <2>1. ClearLastEmptyResponse(h) = h
    BY <1>2, Zenon DEF ClearLastEmptyResponse
  <2>2. QED BY <2>1 DEF Kept
<1>3. QED BY <1>1, <1>2

-----------------------------------------------------------------------------
(* The steps.                                                              *)

ClosedStep == ClosedInv' /\ (orderly' => Kept(history, history'))

LEMMA InitClosed == Init => ClosedInv
<1> SUFFICES ASSUME Init PROVE ClosedInv
  OBVIOUS
<1>1. \A x \in Runs : run[x].pc = "idle"
  BY IdleRunPc DEF Init
<1>2. Settled(history) /\ Open(history)
  BY EmptySeq DEF Init, Settled, Open
<1>3. QED BY <1>1, <1>2 DEF ClosedInv

LEMMA Then ==
  ASSUME ActiveInv, ClosedInv, orderly
  PROVE  /\ history \in Seq(Good) /\ Settled(history)
         /\ \A x \in Runs : run[x].pc = "tool" => Last(history).status = "calling"
         /\ Open(history) \/ \E x \in Runs : run[x].pc = "timer"
  BY DEF ActiveInv, IInv, ClosedInv

(* A run begins when there is none.                                        *)
LEMMA BeginClosed ==
  ASSUME ActiveInv, ClosedInv, NEW r \in Runs, NEW record \in Run, Begin(r, record),
         orderly /\ orderly' /\ Open(history) =>
           /\ Settled(history') /\ Kept(history, history')
           /\ record.pc = "tool" => Last(history').status = "calling"
           /\ Open(history') \/ record.pc = "timer"
  PROVE  ClosedStep
<1> SUFFICES ASSUME orderly' PROVE ClosedStep
  BY DEF ClosedStep, ClosedInv
<1>1. orderly /\ \A x \in Runs : run[x].pc = "idle"
  BY DEF Begin, Busy
<1>2. Open(history)
  BY <1>1, Then
<1>3. \A x \in Runs : run'[x] = IF x = r THEN record ELSE run[x]
  BY DEF Begin, ActiveInv, IInv
<1>4. QED BY <1>1, <1>2, <1>3 DEF ClosedStep, ClosedInv

(* The only run goes on.                                                   *)
LEMMA MoveClosed ==
  ASSUME ActiveInv, OrderInv, ClosedInv, NEW r \in Runs, NEW record, run[r].pc # "idle",
         \A x \in Runs : run'[x].pc = IF x = r THEN record.pc ELSE run[x].pc,
         orderly' => /\ orderly /\ Settled(history') /\ Kept(history, history')
                     /\ record.pc = "tool" => Last(history').status = "calling"
                     /\ Open(history') \/ record.pc = "timer"
  PROVE  ClosedStep
<1> SUFFICES ASSUME orderly' PROVE ClosedStep
  BY DEF ClosedStep, ClosedInv
<1>1. \A x \in Runs : x # r => run[x].pc = "idle"
  BY DEF OrderInv
<1>2. QED BY <1>1 DEF ClosedStep, ClosedInv

LEMMA GotoClosed ==
  ASSUME ActiveInv, OrderInv, ClosedInv, NEW r \in Runs, NEW record, run[r].pc # "idle",
         Goto(r, record),
         orderly' => /\ orderly /\ Settled(history') /\ Kept(history, history')
                     /\ record.pc = "tool" => Last(history').status = "calling"
                     /\ Open(history') \/ record.pc = "timer"
  PROVE  ClosedStep
<1>1. \A x \in Runs : run'[x] = IF x = r THEN record ELSE run[x]
  BY DEF Goto, ActiveInv, IInv
<1>2. \A x \in Runs : run'[x].pc = IF x = r THEN record.pc ELSE run[x].pc
  BY <1>1
<1>3. QED BY <1>2, MoveClosed

(* A run that is not about to answer a call finds an open end.             *)
LEMMA OpenEnd ==
  ASSUME ActiveInv, OrderInv, ClosedInv, orderly, NEW r \in Runs,
         run[r].pc \notin {"idle", "timer"}
  PROVE  Open(history)
  BY DEF OrderInv, ClosedInv

LEMMA SendClosed == ASSUME ActiveInv, OrderInv, ClosedInv, NEW r \in Runs, Send(r) PROVE ClosedStep
<1> DEFINE record == [IdleRun EXCEPT !.pc = "gather", !.index = Len(history)]
<1>1. Len(history) \in Nat /\ history \in Seq(Good) /\ <<Placeholder, Placeholder>> \in Seq(Good)
  BY LenProperties, Literals DEF ActiveInv, IInv
<1>2. record \in Run /\ record.pc = "gather"
  BY <1>1, RunRecords DEF IdleRun
<1>3. Begin(r, record) /\ history' = history \o <<Placeholder, Placeholder>>
  BY DEF Send
<1> HIDE DEF record
<1>4. ASSUME orderly, Open(history)
      PROVE  Settled(history') /\ Kept(history, history') /\ Open(history')
  <2>1. Settled(history')
    BY <1>3, <1>4, Then, Literals, NewMessages, OpenStatuses, TwoMoreSettled
  <2>2. Kept(history, history')
    BY <1>1, <1>3, ConcatProperties DEF Kept
  <2>3. Last(history') = Placeholder
    BY <1>1, <1>3, ConcatProperties DEF Last
  <2>4. QED BY <2>1, <2>2, <2>3, OpenStatuses DEF Open
<1>5. QED BY <1>2, <1>3, <1>4, BeginClosed

LEMMA ResubmitClosed ==
  ASSUME ActiveInv, OrderInv, ClosedInv, NEW r \in Runs, NEW i \in DOMAIN history, Resubmit(r, i)
  PROVE  ClosedStep
<1> DEFINE record == [IdleRun EXCEPT !.pc = "gather", !.index = i - 1]
           m == [history[i] EXCEPT !.text = FALSE]
           h == SubSeq(history, 1, i - 1)
<1>1. /\ i \in 1 .. Len(history) /\ history[i] \in Good /\ i - 1 \in 0 .. Len(history)
      /\ Len(history) \in Nat /\ i - 1 \in Nat /\ history \in Seq(Good)
  BY LenProperties, ElementOfSeq DEF ActiveInv, IInv
<1>2. record \in Run /\ record.pc = "gather"
  BY <1>1, RunRecords DEF IdleRun
<1>3. Begin(r, record) /\ history' = h \o <<m, Placeholder>> /\ history[i].role = "user"
  BY DEF Resubmit
<1>4. m \in Good /\ m.role = "user" /\ m.status = history[i].status /\ m.call = history[i].call
  BY <1>1, <1>3 DEF Good, Messages
<1>6. /\ h \in Seq(Good) /\ Len(h) = i - 1 /\ \A j \in 1 .. i - 1 : h[j] = history[j]
  BY <1>1, PrefixGood, SubSeqProperties
<1> HIDE DEF record, m, h
<1>7. /\ Len(history') = i + 1 /\ (\A j \in 1 .. i - 1 : history'[j] = history[j])
      /\ history'[i] = m /\ history'[i + 1] = Placeholder
  <2>1. (i - 1) + 2 = i + 1 /\ (i - 1) + 1 = i
    BY <1>1
  <2>2. QED BY <1>3, <1>4, <1>6, <2>1, TwoMoreIs
<1>8. ASSUME orderly, Open(history)
      PROVE  Settled(history') /\ Kept(history, history') /\ Open(history')
  <2>1. Settled(history)
    BY <1>8, Then
  <2>4. Settled(h)
    BY <1>1, <2>1, PrefixSettled DEF h
  <2>5. Open(h)
    BY <1>1, <1>3, <2>1, OpenPrefix DEF h
  <2>6. m.status = None /\ ~Closed(m)
    BY <1>1, <1>3, <1>4, <1>8, Now, ChatAssumption DEF Attributed, OwnCall, Closed
  <2>7. Settled(history')
    BY <1>3, <1>4, <1>6, <2>4, <2>5, <2>6, TwoMoreSettled, Zenon
  <2>8. Kept(history, history')
    <3> SUFFICES ASSUME NEW j \in 1 .. Len(history), j <= Len(history'), Closed(history[j]),
                        history'[j].call = history[j].call
                 PROVE  history'[j].status = history[j].status
      BY DEF Kept
    <3>1. CASE j < i
      <4>1. j \in 1 .. i - 1
        BY <1>1, <3>1
      <4>2. QED BY <1>7, <4>1
    <3>2. CASE j = i
      BY <1>4, <1>7, <3>2
    <3>3. CASE j = i + 1
      BY <1>1, <1>7, <3>3, ClosedCall, OpenStatuses, ElementOfSeq
    <3>4. QED BY <1>1, <1>7, <3>1, <3>2, <3>3
  <2>9. Last(history') = Placeholder
    BY <1>1, <1>7 DEF Last
  <2>10. QED BY <2>7, <2>8, <2>9, OpenStatuses DEF Open
<1>9. QED BY <1>2, <1>3, <1>8, BeginClosed

(* The session is active, by a run that gathers context or streams: its    *)
(* end is open.                                                            *)
LEMMA CancelClosed == ASSUME ActiveInv, OrderInv, ClosedInv, Cancel PROVE ClosedStep
<1> SUFFICES ASSUME orderly' PROVE ClosedStep
  BY DEF ClosedStep, ClosedInv
<1>1. /\ orderly /\ Current(history) = None /\ SparesTools(history) /\ isStreaming
      /\ history' = ClearLastEmptyResponse(history) /\ run' = run
  BY DEF Cancel
<1>2. PICK r \in Runs : Keeps(run[r])
  BY <1>1 DEF ActiveInv
<1>3. \A x \in Runs : run[x].pc # "tool"
  BY <1>1, Now DEF Placed
<1>4. Open(history)
  BY <1>1, <1>2, OpenEnd DEF Keeps
<1>5. Settled(history') /\ Kept(history, history') /\ Open(history')
  BY <1>1, <1>4, Then, ClearSettled
<1>6. QED BY <1>1, <1>3, <1>5 DEF ClosedStep, ClosedInv

LEMMA AcceptClosed ==
  ASSUME ActiveInv, OrderInv, ClosedInv, NEW r \in Runs, Accept(r) PROVE ClosedStep
<1> DEFINE record == [IdleRun EXCEPT !.pc = "tool", !.call = Last(history).call]
<1>1. /\ Current(history) = "generated" /\ Current(history) # None
      /\ Begin(r, record) /\ history' = SetStatus(history, "calling")
  BY ChatAssumption DEF Accept
<1>2. Last(history).call \in CallIds
  BY <1>1, CurrentCall DEF ActiveInv, IInv
<1>3. record \in Run
  BY <1>2, RunRecords
<1> HIDE DEF record
<1>4. ASSUME orderly, Open(history)
      PROVE  /\ Settled(history') /\ Kept(history, history') /\ Open(history')
             /\ Last(history').status = "calling"
  BY <1>1, <1>4, Then, SetStatusSettled DEF Statuses
<1>5. QED BY <1>1, <1>3, <1>4, BeginClosed

LEMMA RejectClosed ==
  ASSUME ActiveInv, OrderInv, ClosedInv, NEW r \in Runs, Reject(r) PROVE ClosedStep
<1> DEFINE record == [IdleRun EXCEPT !.pc = "timer", !.call = Last(history).call, !.text = TRUE]
<1>1. /\ Current(history) = "generated" /\ Current(history) # None
      /\ Begin(r, record) /\ history' = SetStatus(history, "canceled")
  BY ChatAssumption DEF Reject
<1>2. Last(history).call \in CallIds
  BY <1>1, CurrentCall DEF ActiveInv, IInv
<1>3. record \in Run /\ record.pc = "timer"
  BY <1>2, TimerRecord
<1> HIDE DEF record
<1>4. ASSUME orderly, Open(history) PROVE Settled(history') /\ Kept(history, history')
  BY <1>1, <1>4, Then, SetStatusSettled DEF Statuses
<1>5. QED BY <1>1, <1>3, <1>4, BeginClosed

(* The messages of a new session have no calls.                            *)
LEMMA NewSessionClosed == ASSUME ActiveInv, OrderInv, ClosedInv, NewSession PROVE ClosedStep
<1> SUFFICES ASSUME orderly' PROVE ClosedStep
  BY DEF ClosedStep, ClosedInv
<1>1. Busy = {} /\ run' = run
  BY DEF NewSession
<1>2. \A x \in Runs : run'[x].pc = "idle"
  BY <1>1 DEF Busy
<1>3. /\ history' \in Seq(Good)
      /\ \A i \in 1 .. Len(history') : ~Closed(history'[i]) /\ history'[i].call = 0
  <2>1. /\ User \in Good /\ ~Closed(User) /\ User.call = 0
        /\ Answer \in Good /\ ~Closed(Answer) /\ Answer.call = 0
    BY Literals, OpenStatuses
  <2>2. history' \in {<<>>, <<User, Answer>>, <<User>>}
    BY Zenon DEF NewSession
  <2>3. history' \in Seq(Good) /\ \A i \in 1 .. Len(history') : history'[i] \in {User, Answer}
    <3> DEFINE P(h) == h \in Seq(Good) /\ \A i \in 1 .. Len(h) : h[i] \in {User, Answer}
    <3>1. P(<<>>)
      BY EmptySeq
    <3>2. P(<<User, Answer>>)
      BY <2>1
    <3>3. P(<<User>>)
      BY <2>1
    <3> HIDE DEF P
    <3>4. P(history')
      BY <2>2, <3>1, <3>2, <3>3
    <3>5. QED BY <3>4 DEF P
  <2>4. QED BY <2>1, <2>3
<1>4. Settled(history') /\ Open(history')
  BY <1>3, LastGood, LenProperties DEF Settled, Open
<1>5. Kept(history, history')
  BY <1>3, ClosedCall, ElementOfSeq, LenProperties DEF Kept, ActiveInv, IInv
<1>6. QED BY <1>2, <1>4, <1>5 DEF ClosedStep, ClosedInv

LEMMA GatheredClosed ==
  ASSUME ActiveInv, OrderInv, ClosedInv, NEW r \in Runs, Gathered(r) PROVE ClosedStep
<1>1. /\ run[r].pc = "gather" /\ Goto(r, Streaming) /\ orderly' = orderly
      /\ history' = SetMessageAtIndex(history, run[r].index) /\ run[r].index \in Nat
  BY RunType DEF Gathered, ActiveInv
<1>2. ASSUME orderly PROVE Settled(history') /\ Kept(history, history') /\ Open(history')
  <2>1. /\ history \in Seq(Good) /\ Settled(history) /\ Open(history)
        /\ Placed(run[r], history, isStreaming) /\ Len(history) \in Nat
    BY <1>1, <1>2, Now, Then, OpenEnd, LenProperties
  <2>2. CASE Len(history) = run[r].index
    BY <1>1, <2>1, <2>2, Literals, OpenStatuses, AppendSettled, AppendIs
    DEF SetMessageAtIndex, Open
  <2>3. CASE /\ Len(history) = run[r].index + 2
             /\ history[run[r].index + 1].status = None
             /\ history[run[r].index + 1].role # "tool" /\ Last(history) = Placeholder
    <3> DEFINE k == run[r].index + 1
               g == [history EXCEPT ![k] = User]
    <3>1. k \in 1 .. Len(history) /\ k + 1 = Len(history) /\ run[r].index # Len(history)
      BY <1>1, <2>3
    <3>2. history' = g
      BY <1>1, <2>3, <3>1 DEF SetMessageAtIndex
    <3>3. /\ Len(g) = Len(history) /\ g[k] = User
          /\ \A j \in 1 .. Len(history) : j # k => g[j] = history[j]
      BY <2>1, <3>1, Literals, ExceptSeq
    <3>4. history[k + 1] = Placeholder /\ ~Closed(history[k]) /\ history[k].role # "tool"
      BY <2>3, <3>1, ChatAssumption DEF Last, Closed
    <3> HIDE DEF k, g
    <3>5. Settled(g)
      BY <2>1, <3>1, <3>3, <3>4, OpenStatuses DEF Settled
    <3>6. Kept(history, g)
      BY <3>1, <3>3, <3>4 DEF Kept
    <3>7. Last(g) = Placeholder
      BY <3>1, <3>3, <3>4 DEF Last
    <3>8. QED BY <3>2, <3>5, <3>6, <3>7, OpenStatuses, Zenon DEF Open
  <2>4. QED BY <1>1, <2>1, <2>2, <2>3 DEF Placed
<1>3. Streaming.pc # "tool"
  BY StreamingRun
<1>4. QED BY <1>1, <1>2, <1>3, GotoClosed

LEMMA GatherFailsClosed ==
  ASSUME ActiveInv, OrderInv, ClosedInv, NEW r \in Runs, GatherFails(r) PROVE ClosedStep
<1>1. /\ run[r].pc = "gather" /\ Goto(r, IdleRun) /\ orderly' = orderly /\ history' = history
  BY DEF GatherFails, End
<1>2. QED BY <1>1, IdleRunPc, Then, OpenEnd, GotoClosed DEF Kept

LEMMA StreamFailsClosed ==
  ASSUME ActiveInv, OrderInv, ClosedInv, NEW r \in Runs, StreamFails(r) PROVE ClosedStep
<1>1. /\ run[r].pc = "stream" /\ Goto(r, IdleRun)
      /\ (orderly' => orderly /\ SparesTools(history))
      /\ history' = ClearLastEmptyResponse(history)
  BY DEF StreamFails, End
<1>2. QED BY <1>1, IdleRunPc, Then, OpenEnd, ClearSettled, GotoClosed

LEMMA TextUpdateClosed ==
  ASSUME ActiveInv, OrderInv, ClosedInv, NEW r \in Runs, TextUpdate(r) PROVE ClosedStep
<1>1. run[r].pc = "stream" /\ run' = run /\ orderly' = orderly
  BY DEF TextUpdate, Update
<1>2. PICK m \in {Answer, Placeholder} : history' = StreamText(history, m)
  BY DEF TextUpdate, Update
<1>3. m \in Good /\ ~Closed(m)
  BY Literals, OpenStatuses
<1>4. ASSUME orderly PROVE Settled(history') /\ Kept(history, history') /\ Open(history')
  BY <1>1, <1>2, <1>3, <1>4, Then, OpenEnd, StreamTextSettled
<1>5. \A x \in Runs : run'[x].pc = IF x = r THEN run[r].pc ELSE run[x].pc
  BY <1>1
<1>6. QED BY <1>1, <1>4, <1>5, MoveClosed

LEMMA CallUpdateClosed ==
  ASSUME ActiveInv, OrderInv, ClosedInv, NEW r \in Runs, CallUpdate(r) PROVE ClosedStep
<1> DEFINE c == IF run[r].call = 0 THEN called + 1 ELSE run[r].call
           record == [run[r] EXCEPT !.call = c]
<1>1. run[r] \in Run /\ run[r].call \in CallIds
      /\ called \in 0 .. Calls /\ run[r].pc = "stream"
  BY RunType DEF ActiveInv, IInv, CallUpdate, CallIds
<1>2. c \in CallIds \ {0}
  BY <1>1, ChatAssumption DEF CallUpdate, CallIds
<1>3. Goto(r, record) /\ orderly' = orderly /\ history' = StreamCall(history, c)
  BY DEF CallUpdate, Update
<1> HIDE DEF c
<1>4. record.pc = "stream"
  BY <1>1, <1>2 DEF Run
<1> HIDE DEF record
<1>5. ASSUME orderly PROVE Settled(history') /\ Kept(history, history') /\ Open(history')
  BY <1>1, <1>2, <1>3, <1>5, Then, OpenEnd, StreamCallSettled
<1>6. QED BY <1>1, <1>3, <1>4, <1>5, GotoClosed

LEMMA StreamEndsClosed ==
  ASSUME ActiveInv, OrderInv, ClosedInv, NEW r \in Runs, StreamEnds(r) PROVE ClosedStep
<1>1. orderly' = orderly /\ run[r].pc = "stream"
  BY DEF StreamEnds
<1> DEFINE record == [IdleRun EXCEPT !.pc = "tool", !.call = Last(history).call,
                                     !.inner = TRUE]
<1>2. CASE /\ Current(history) # None
           /\ history' = SetStatus(history, "calling")
           /\ Goto(r, record)
  <2> HIDE DEF record
  <2>1. ASSUME orderly
        PROVE  /\ Settled(history') /\ Kept(history, history') /\ Open(history')
               /\ Last(history').status = "calling"
    BY <1>1, <1>2, <2>1, Then, OpenEnd, SetStatusSettled DEF Statuses
  <2>2. QED BY <1>1, <1>2, <2>1, GotoClosed
<1>3. CASE history' = SetStatus(history, "generated") /\ Goto(r, IdleRun)
  <2>1. ASSUME orderly PROVE Settled(history') /\ Kept(history, history') /\ Open(history')
    BY <1>1, <1>3, <2>1, Then, OpenEnd, SetStatusSettled DEF Statuses
  <2>2. QED BY <1>1, <1>3, <2>1, IdleRunPc, GotoClosed
<1>4. QED BY <1>2, <1>3 DEF StreamEnds, End

(* The call is done that the run was calling, and no other.                *)
LEMMA ToolReturnsClosed ==
  ASSUME ActiveInv, OrderInv, ClosedInv, NEW r \in Runs, ToolReturns(r) PROVE ClosedStep
<1>1. run[r].call \in CallIds \ {0} /\ run[r].pc = "tool" /\ orderly' = orderly
  BY RunType DEF ActiveInv, IInv, ToolReturns, ToolRunsHaveACall
<1>2. PICK record : record.pc = "timer" /\ Goto(r, record)
  BY <1>1, TimerRecord DEF ToolReturns
<1>4. ASSUME orderly PROVE Settled(history') /\ Kept(history, history')
  <2>1. /\ history \in Seq(Good) /\ Settled(history) /\ Open(history)
        /\ Current(history) # None /\ Last(history).status = "calling"
    BY <1>1, <1>4, Now, Then, OpenEnd DEF Placed
  <2>2. history # <<>> /\ Last(history) \in Good /\ Last(history).call # 0
    BY <2>1, LastGood, ChatAssumption DEF Current, Good
  <2> DEFINE m == [Last(history) EXCEPT !["out"] = run[r].call]
             h == [history EXCEPT ![Len(history)] = m]
             n == [m EXCEPT !["status"] = "done"]
             g == [h EXCEPT ![Len(h)] = n]
  <2>3. m \in Good /\ m.role = Last(history).role /\ m.call # 0
    BY <1>1, <2>2 DEF Good, Messages
  <2> HIDE DEF m
  <2>4. n \in Good /\ n.role = m.role /\ n.status = "done"
    BY <2>3 DEF Good, Messages, Statuses
  <2> HIDE DEF n
  <2>5. h \in Seq(Good) /\ h # <<>> /\ Last(h) = m /\ Len(h) = Len(history)
        /\ \A i \in 1 .. Len(history) - 1 : h[i] = history[i]
    BY <2>1, <2>2, <2>3, ExceptLast
  <2>6. history' = g
    <3>1. SetLast(history, "out", run[r].call) = h
      BY SetLastIs DEF m
    <3>2. SetLast(h, "status", "done") = g
      BY <2>5, SetLastIs DEF n
    <3>3. QED BY <2>1, <3>1, <3>2 DEF ToolReturns
  <2> HIDE DEF h
  <2>7. g \in Seq(Good) /\ Last(g) = n /\ Len(g) = Len(h)
        /\ \A i \in 1 .. Len(h) - 1 : g[i] = h[i]
    BY <2>4, <2>5, ExceptLast
  <2> HIDE DEF g
  <2>8. QED
    BY <2>1, <2>2, <2>3, <2>4, <2>5, <2>6, <2>7, LastSettled, ChatAssumption DEF Open
<1>5. QED BY <1>1, <1>2, <1>4, GotoClosed

LEMMA ToolFailsClosed ==
  ASSUME ActiveInv, OrderInv, ClosedInv, NEW r \in Runs, ToolFails(r) PROVE ClosedStep
<1>1. /\ run[r].pc = "tool" /\ Goto(r, IdleRun) /\ orderly' = orderly /\ history' = history
  BY DEF ToolFails
<1>2. QED BY <1>1, IdleRunPc, Then, OpenEnd, GotoClosed DEF Kept

(* The message of the tool answers the call.                               *)
LEMMA AfterToolCallClosed ==
  ASSUME ActiveInv, OrderInv, ClosedInv, NEW r \in Runs, AfterToolCall(r) PROVE ClosedStep
<1> DEFINE m == ToolMessage(run[r].call, run[r].text)
<1>1. /\ run[r].pc = "timer" /\ Goto(r, Streaming) /\ orderly' = orderly
      /\ history' = StreamText(history, m)
  BY DEF AfterToolCall
<1>2. m \in Good
  BY <1>1, RunType, Literals DEF ActiveInv, IInv, ToolRunsHaveACall, Run
<1>3. ASSUME orderly PROVE Settled(history') /\ Kept(history, history') /\ Open(history')
  <2>1. history \in Seq(Good) /\ Attributed(history) /\ Settled(history) /\ Current(history) # None
    BY <1>1, <1>3, Now, Then DEF Placed
  <2>2. history # <<>> /\ Last(history).role = "assistant"
    BY <2>1, CurrentCall, LastOwnCall DEF Current, OwnCall
  <2>3. m.role = "tool" /\ ~Closed(m)
    BY NewMessages, OpenStatuses
  <2> HIDE DEF m
  <2>4. QED BY <1>1, <1>2, <2>1, <2>2, <2>3, StreamTextSettled
<1>4. QED BY <1>1, <1>3, StreamingRun, GotoClosed

LEMMA NextClosed == ActiveInv /\ OrderInv /\ ClosedInv /\ [Next]_vars => ClosedStep
<1> SUFFICES ASSUME ActiveInv, OrderInv, ClosedInv, [Next]_vars PROVE ClosedStep
  OBVIOUS
<1>1. ASSUME NEW i \in DOMAIN history, DeleteMessage(i) PROVE ClosedStep
  BY <1>1 DEF DeleteMessage, ClosedStep, ClosedInv
<1>2. CASE UserStep
  BY <1>1, <1>2, SendClosed, AcceptClosed, RejectClosed, ResubmitClosed, CancelClosed,
     NewSessionClosed DEF UserStep
<1>3. ASSUME NEW r \in Runs, RunStep(r) PROVE ClosedStep
  BY <1>3, GatheredClosed, GatherFailsClosed, TextUpdateClosed, CallUpdateClosed,
     StreamEndsClosed, StreamFailsClosed, ToolReturnsClosed, ToolFailsClosed,
     AfterToolCallClosed
  DEF RunStep
<1>4. CASE UNCHANGED vars
  BY <1>4 DEF vars, ClosedStep, ClosedInv, Kept
<1>5. QED BY <1>2, <1>3, <1>4 DEF Next

(* And then a call that was done (setToolCallOutput) or rejected           *)
(* (cancelToolCall) is never offered or made again, for any number of      *)
(* thunks, messages and calls: the reducers that set the status of a call  *)
(* act on the last message, and no such call is the last one when a thunk  *)
(* streams.                                                                *)
THEOREM ClosedCalls == Spec => ClosedCallsStayClosed
<1>1. /\ ActiveInv /\ OrderInv /\ ClosedInv /\ ActiveInv' /\ [Next]_vars
      => [orderly' => \A i \in DOMAIN history \cap DOMAIN history' :
            Closed(history[i]) /\ history'[i].call = history[i].call
              => history'[i].status = history[i].status]_vars
  <2> SUFFICES ASSUME ActiveInv, OrderInv, ClosedInv, ActiveInv', [Next]_vars, orderly',
                      NEW i \in DOMAIN history \cap DOMAIN history', Closed(history[i]),
                      history'[i].call = history[i].call
               PROVE  history'[i].status = history[i].status
    OBVIOUS
  <2>1. i \in 1 .. Len(history) /\ i <= Len(history')
    BY LenProperties DEF ActiveInv, IInv
  <2>2. Kept(history, history')
    BY NextClosed DEF ClosedStep
  <2>3. QED BY <2>1, <2>2 DEF Kept
<1>2. ActiveInv /\ OrderInv /\ ClosedInv /\ [Next]_vars => ClosedInv'
  BY NextClosed DEF ClosedStep
<1>3. Spec => [](ActiveInv /\ OrderInv /\ ClosedInv)
  BY <1>2, InitInv, NextInv, InitOrder, NextOrder, InitClosed, PTL DEF Spec
<1>4. QED BY <1>1, <1>3, PTL DEF Spec, ClosedCallsStayClosed

=============================================================================
