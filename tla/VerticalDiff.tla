---------------------------- MODULE VerticalDiff ----------------------------
(***************************************************************************)
(* The inline diff of the VS Code extension: VerticalDiffHandler, which    *)
(* writes a stream of diff lines into the editor while it arrives          *)
(* (extensions/vscode/src/diff/vertical/handler.ts and decorations.ts), as *)
(* VerticalDiffManager (manager.ts) drives it for one file and one stream. *)
(*                                                                         *)
(* Lines are counted from 0, as in the code.  An edit of the document is   *)
(* asynchronous: it is requested against the document as it is, rejected   *)
(* when the editor has been closed in the meantime, and dropped when the   *)
(* document has changed in the meantime.                                   *)
(***************************************************************************)
EXTENDS Integers, Sequences, FiniteSets, SequencesExt

CONSTANTS
  Scripts,      \* streams of diff lines: sequences of members of Types
  Margins,      \* numbers of lines there may be before and after the range
  MaxSwitches,  \* bound on the times the user leaves the editor
  MaxTyped      \* bound on the lines the user types

(* A "blank" is an old line with no text.                                  *)
Types == {"same", "old", "blank", "new"}

ASSUME ScriptsAssumption == Scripts \subseteq Seq(Types)
ASSUME BoundsAssumption  == Margins \subseteq Nat /\ MaxSwitches \in Nat /\ MaxTyped \in Nat

VARIABLES
  \* the editor
  doc,       \* the lines of the document
  active,    \* this.editor is the active editor
  open,      \* this.editor has not been closed
  switches, typed,
  \* the stream and run()
  script, next,   \* the stream and how many of its lines have been received
  run,            \* where run() is
  \* the handler
  queue, lock,    \* _diffLinesQueue, _queueLock
  hand,           \* the line _handleDiffLine is working on, in a sequence
  pending,        \* edits requested and not answered, by who awaits them
  index,          \* currentLineIndex
  last,           \* endLine
  added,          \* newLinesAdded
  buffer,         \* deletionBuffer
  inserted,       \* insertedInCurrentBlock
  red, green,     \* the ranges of the two decoration managers
  blocks,         \* the code lenses
  cancelled, registered,   \* isCancelled; the manager still knows the handler
  \* history
  choice,    \* hunk -> what the user chose for it
  calm       \* nothing has come between the stream and the document

editor  == <<doc, active, open, switches, typed>>
stream  == <<script, next, run>>
fields  == <<index, last, added, buffer, inserted, red, green, blocks>>
control == <<queue, lock, hand, pending, cancelled, registered>>
history == <<choice, calm>>
vars    == <<editor, stream, fields, control, history>>

-----------------------------------------------------------------------------
(* Lines.  A diff line is identified by its place in the stream.           *)

Line == [kind : Types, at : Nat] \cup [kind : {"out", "typed", "gap"}, at : {0}]

DiffLineAt(n) == [kind |-> script[n], at |-> n]
Gap   == [kind |-> "gap", at |-> 0]      \* what is left of a deleted last line
Out   == [kind |-> "out", at |-> 0]      \* a line outside the range
Typed == [kind |-> "typed", at |-> 0]

DiffLines(s, kinds) ==
  SelectSeq([n \in 1 .. Len(s) |-> [kind |-> s[n], at |-> n]], LAMBDA x : x.kind \in kinds)

(* The lines of a hunk are those between two lines that stay.              *)
HunkOf(n) == Len(SelectSeq(SubSeq(script, 1, n), LAMBDA k : k = "same"))

-----------------------------------------------------------------------------
(* What the editor does with an edit.                                      *)

InsertLines(d, i, ls) ==
  IF i >= Len(d) THEN d \o ls ELSE SubSeq(d, 1, i) \o ls \o SubSeq(d, i + 1, Len(d))

(* Deleting up to the start of a line that is not there leaves an empty    *)
(* last line.                                                              *)
DeleteLines(d, i, n) ==
  IF i >= Len(d) THEN d
  ELSE SubSeq(d, 1, i) \o
       (IF i + n >= Len(d) THEN <<Gap>> ELSE SubSeq(d, i + n + 1, Len(d)))

Covered(rs, i) == \E k \in 1 .. Len(rs) : rs[k].start <= i /\ i <= rs[k].end

Cut(d, rs) ==
  LET kept == SelectSeq([i \in 1 .. Len(d) |-> i], LAMBDA i : ~Covered(rs, i - 1))
  IN  [k \in 1 .. Len(kept) |-> d[kept[k]]]
        \o IF Covered(rs, Len(d) - 1) THEN <<Gap>> ELSE <<>>

Awaiters == {"line", "flush", "clear"}

Edit(op, at, lines, ranges) ==
  [op |-> op, at |-> at, lines |-> lines, ranges |-> ranges, gone |-> ~open, stale |-> FALSE]

Request(w, e) == pending' = [pending EXCEPT ![w] = <<e>>]

Awaited(w) == pending[w] # <<>>

EditOf(w) == pending[w][1]

Result(e) ==
  IF e.stale THEN doc
  ELSE CASE e.op = "insert" -> InsertLines(doc, e.at, e.lines)
         [] e.op = "delete" -> DeleteLines(doc, e.at, 1)
         [] e.op = "cut"    -> Cut(doc, e.ranges)

(* The edit is applied, and outdates the others.                           *)
Answer(w) ==
  /\ doc' = Result(EditOf(w))
  /\ pending' = [x \in Awaiters |->
       IF x = w THEN <<>>
       ELSE [k \in DOMAIN pending[x] |-> [pending[x][k] EXCEPT !.stale = @ \/ doc' # doc]]]

Rejected(w) == pending' = [pending EXCEPT ![w] = <<>>]

-----------------------------------------------------------------------------
(* DecorationTypeRangeManager.                                             *)

AddLines(rs, i, n) ==
  IF rs # <<>> /\ Last(rs).end = i - 1
  THEN [rs EXCEPT ![Len(rs)].end = @ + n]
  ELSE Append(rs, [start |-> i, end |-> i + n - 1])

(* Mutant: a range that starts at the line stays.                          *)
ShiftDownBelowLine(rs, i, offset) ==
  [k \in DOMAIN rs |->
     IF rs[k].start > i
     THEN [start |-> rs[k].start + offset, end |-> rs[k].end + offset]
     ELSE rs[k]]

ShiftDownAfterLine(rs, i, offset) ==
  [k \in DOMAIN rs |->
     IF rs[k].start >= i
     THEN [start |-> rs[k].start + offset, end |-> rs[k].end + offset]
     ELSE rs[k]]

DeleteRangeStartingAt(rs, i) == RemoveFirstMatch(rs, LAMBDA r : r.start = i)

-----------------------------------------------------------------------------
(* insertDeletionBuffer.                                                   *)

BlankBuffer == buffer = <<>> \/ (Len(buffer) = 1 /\ buffer[1].kind = "blank")

(* Mutant: lines inserted in the block do not keep the buffer.             *)
FlushesNothing == BlankBuffer /\ index >= last + added

(* Its first return: "Don't remove trailing whitespace line".              *)
NothingToFlush == BlankBuffer /\ index >= last + added /\ inserted = 0

BlockStart == index - inserted

BlockNow == [start |-> BlockStart, numRed |-> Len(buffer), numGreen |-> inserted]

(* What it does before it awaits the edit.                                 *)
BlocksFlushed ==
  IF NothingToFlush \/ (buffer = <<>> /\ inserted = 0) THEN blocks ELSE Append(blocks, BlockNow)

NeedsEdit == buffer # <<>> /\ ~NothingToFlush

InsertedFlushed == IF NothingToFlush THEN inserted ELSE 0

(* What it does after, with steps more lines to pass.                      *)
AfterFlush(steps) ==
  /\ red' = AddLines(red, BlockStart, Len(buffer))
  /\ green' = ShiftDownAfterLine(green, BlockStart, Len(buffer))
  /\ index' = index + Len(buffer) + steps
  /\ buffer' = <<>>
  /\ inserted' = 0
  /\ UNCHANGED <<last, added, blocks>>

-----------------------------------------------------------------------------
(* The queue.                                                              *)

Receiving == run = "receive"

(* run() gets a diff line and queues it; it handles the queue itself if no *)
(* one does and the editor is active.                                      *)
Receive ==
  /\ Receiving /\ ~cancelled
  /\ next < Len(script)
  /\ next' = next + 1
  /\ queue' = Append(queue, DiffLineAt(next + 1))
  /\ IF ~lock /\ active
     THEN lock' = TRUE /\ run' = "handle"
     ELSE UNCHANGED <<lock, run>>
  /\ UNCHANGED <<editor, script, fields, hand, pending, cancelled, registered, history>>

StopCancelled ==
  /\ Receiving /\ cancelled
  /\ next < Len(script)
  /\ run' = "stopped"
  /\ UNCHANGED <<editor, script, next, fields, control, history>>

(* Whoever handles the queue is done with it.                              *)
Release ==
  /\ lock' = FALSE
  /\ run' = IF run = "handle" THEN "receive" ELSE run
  /\ UNCHANGED <<script, next>>

Idle == lock /\ hand = <<>>

QueueEmpty ==
  /\ Idle /\ queue = <<>>
  /\ Release
  /\ UNCHANGED <<editor, fields, queue, hand, pending, cancelled, registered, history>>

First == Head(queue)

Olds == {"old", "blank"}

Takes(kinds) == Idle /\ queue # <<>> /\ First.kind \in kinds

(* "same", with no lines to put back.                                      *)
TakeSame ==
  /\ Takes({"same"}) /\ ~NeedsEdit
  /\ queue' = Tail(queue)
  /\ blocks' = BlocksFlushed
  /\ inserted' = InsertedFlushed
  /\ index' = index + 1
  /\ UNCHANGED <<editor, stream, last, added, buffer, red, green, lock, hand, pending,
                 cancelled, registered, history>>

(* The edit each kind of line asks for.                                    *)
EditFor(x) ==
  CASE x.kind = "same" -> Edit("insert", BlockStart, buffer, <<>>)
    [] x.kind \in Olds  -> Edit("delete", index, <<>>, <<>>)
    [] x.kind = "new"  -> Edit("insert", index, <<x>>, <<>>)

(* What has been done to the fields before the edit is awaited.            *)
BeforeEdit(x) ==
  /\ blocks' = IF x.kind = "same" THEN BlocksFlushed ELSE blocks
  /\ buffer' = IF x.kind \in Olds THEN Append(buffer, x) ELSE buffer
  /\ UNCHANGED <<index, last, added, inserted, red, green>>

AsksForEdit ==
  Takes(Olds \cup {"new"}) \/ (Takes({"same"}) /\ NeedsEdit)

TakeLine ==
  /\ AsksForEdit
  /\ queue' = Tail(queue)
  /\ hand' = <<First>>
  /\ Request("line", EditFor(First))
  /\ BeforeEdit(First)
  /\ UNCHANGED <<editor, stream, lock, cancelled, registered, history>>

(* Mutant: the loop goes on after a failure.                               *)
PutBackAndRetry(x) ==
  /\ queue' = Append(queue, x)
  /\ hand' = <<>>
  /\ calm' = FALSE
  /\ UNCHANGED <<editor, stream, lock, cancelled, registered, choice>>

(* The catch: the line goes to the end of the queue.                       *)
PutBack(x) ==
  /\ queue' = Append(queue, x)
  /\ hand' = <<>>
  /\ Release
  /\ calm' = FALSE
  /\ UNCHANGED <<editor, cancelled, registered, choice>>

LineFails ==
  /\ Awaited("line") /\ EditOf("line").gone
  /\ Rejected("line")
  /\ PutBack(hand[1])
  /\ UNCHANGED fields

LineAnswered(kinds) ==
  /\ Awaited("line") /\ ~EditOf("line").gone
  /\ hand[1].kind \in kinds
  /\ Answer("line")
  /\ hand' = <<>>
  /\ UNCHANGED <<active, open, switches, typed, stream, queue, lock, cancelled, registered, history>>

SameDone == LineAnswered({"same"}) /\ AfterFlush(1)

OldDone == LineAnswered(Olds) /\ UNCHANGED fields

NewDone ==
  /\ LineAnswered({"new"})
  /\ green' = AddLines(green, EditOf("line").at, 1)
  /\ added' = added + 1
  /\ index' = index + 1
  /\ inserted' = inserted + 1
  /\ UNCHANGED <<last, buffer, red, blocks>>

-----------------------------------------------------------------------------
(* The end of run().                                                       *)

Undisturbed == queue = <<>> /\ ~lock

StreamEnds ==
  /\ Receiving /\ next = Len(script)
  /\ calm' = (calm /\ Undisturbed)
  /\ blocks' = BlocksFlushed
  /\ UNCHANGED <<editor, script, next, index, last, added, buffer, red, green, queue, lock, hand,
                 cancelled, registered, choice>>

EndAtOnce ==
  /\ ~NeedsEdit
  /\ StreamEnds
  /\ inserted' = InsertedFlushed
  /\ run' = "done"
  /\ UNCHANGED pending

EndWithEdit ==
  /\ NeedsEdit
  /\ StreamEnds
  /\ Request("flush", Edit("insert", BlockStart, buffer, <<>>))
  /\ run' = "flush"
  /\ UNCHANGED inserted

FlushDone ==
  /\ Awaited("flush") /\ ~EditOf("flush").gone
  /\ Answer("flush")
  /\ AfterFlush(0)
  /\ run' = "done"
  /\ UNCHANGED <<active, open, switches, typed, script, next, queue, lock, hand, cancelled,
                 registered, history>>

-----------------------------------------------------------------------------
(* clear: the decorations and the lenses go at once, the lines with an     *)
(* edit, which fails if the editor is closed.                              *)

Doomed(accept) == IF accept THEN red ELSE green

Clear(accept, pend) ==
  /\ registered' = FALSE
  /\ red' = <<>> /\ green' = <<>> /\ blocks' = <<>>
  /\ pending' = [pend EXCEPT !["clear"] = <<Edit("cut", 0, <<>>, Doomed(accept))>>]
  /\ UNCHANGED <<index, last, added, buffer, inserted>>

(* The end of run() when an edit is rejected: the manager is told to       *)
(* reject the diff.                                                        *)
FlushThrows ==
  /\ Awaited("flush") /\ EditOf("flush").gone
  /\ run' = "failed"
  /\ IF registered
     THEN Clear(FALSE, [pending EXCEPT !["flush"] = <<>>])
     ELSE UNCHANGED <<fields, registered>> /\ Rejected("flush")
  /\ calm' = FALSE
  /\ UNCHANGED <<editor, script, next, queue, lock, hand, cancelled, choice>>

Hunks == 0 .. HunkOf(Len(script))

(* acceptDiff and rejectDiff, which open the file first.                   *)
ClearAll(accept) ==
  /\ registered /\ active
  /\ Clear(accept, pending)
  /\ choice' = [h \in Hunks |-> IF choice[h] # "none" THEN choice[h]
                                ELSE IF accept THEN "accept" ELSE "reject"]
  /\ calm' = (calm /\ run = "done")
  /\ UNCHANGED <<editor, stream, queue, lock, hand, cancelled>>

ClearDone ==
  /\ Awaited("clear") /\ ~EditOf("clear").gone
  /\ Answer("clear")
  /\ cancelled' = TRUE
  /\ UNCHANGED <<active, open, switches, typed, stream, fields, queue, lock, hand, registered, history>>

ClearFails ==
  /\ Awaited("clear") /\ EditOf("clear").gone
  /\ Rejected("clear")
  /\ calm' = FALSE
  /\ UNCHANGED <<editor, stream, fields, queue, lock, hand, cancelled, registered, choice>>

-----------------------------------------------------------------------------
(* What the user does when the diff is complete.                           *)

NothingAwaited == \A w \in Awaiters : ~Awaited(w)

Complete == run = "done" /\ NothingAwaited /\ ~lock

ShiftLenses(i, offset) ==
  LET others == SelectSeq(blocks, LAMBDA b : b.start # i)
  IN  [k \in DOMAIN others |->
         IF others[k].start > i THEN [others[k] EXCEPT !.start = @ + offset] ELSE others[k]]

(* A range above the first line is an exception of the editor, which leaves *)
(* the click half done; what follows that is not modelled.                 *)
Shifts(rs, i, offset) == \A k \in DOMAIN rs : rs[k].start >= i => rs[k].start + offset >= 0

(* acceptRejectVerticalDiffBlock and acceptRejectBlock.  With the last     *)
(* block the whole diff is cleared.                                        *)
Resolve(k, accept) ==
  LET b      == blocks[k]
      offset == IF accept THEN -b.numRed ELSE -b.numGreen
      reds   == IF b.numRed > 0 THEN DeleteRangeStartingAt(red, b.start) ELSE red
      greens == IF b.numGreen > 0 THEN DeleteRangeStartingAt(green, b.start + b.numRed) ELSE green
      from   == IF accept THEN b.start ELSE b.start + b.numRed
      final  == Len(blocks) = 1
      d      == IF offset = 0 THEN doc ELSE DeleteLines(doc, from, -offset)
      shifted == ShiftDownAfterLine(reds, b.start, offset)
  IN
  /\ Complete /\ registered /\ active
  /\ Shifts(reds, b.start, offset) /\ Shifts(greens, b.start, offset)
  /\ doc' = IF final THEN Cut(d, shifted) ELSE d
  /\ red' = IF final THEN <<>> ELSE shifted
  /\ green' = IF final THEN <<>> ELSE ShiftDownAfterLine(greens, b.start, offset)
  /\ blocks' = ShiftLenses(b.start, offset)
  /\ registered' = ~final
  /\ cancelled' = final
  /\ choice' = IF b.start < Len(doc)
               THEN [choice EXCEPT ![HunkOf(doc[b.start + 1].at)] =
                       IF accept THEN "accept" ELSE "reject"]
               ELSE choice
  /\ UNCHANGED <<active, open, switches, typed, stream, index, last, added, buffer, inserted,
                 queue, lock, hand, pending, calm>>

(* The user breaks a line outside the blocks: updateLineDelta.             *)
TypeLine(i) ==
  /\ Complete /\ registered /\ active
  /\ typed < MaxTyped
  /\ doc[i + 1].kind \notin Olds \cup {"new"}
  /\ typed' = typed + 1
  /\ doc' = InsertLines(doc, i + 1, <<Typed>>)
  /\ red' = ShiftDownAfterLine(red, i, 1)
  /\ green' = ShiftDownAfterLine(green, i, 1)
  /\ blocks' = ShiftLenses(i, 1)
  /\ UNCHANGED <<active, open, switches, stream, index, last, added, buffer, inserted, control, history>>

-----------------------------------------------------------------------------
(* The user leaves the editor, which may close it, and comes back.         *)

SwitchAway(closes) ==
  /\ active /\ switches < MaxSwitches
  /\ active' = FALSE
  /\ open' = (open /\ ~closes)
  /\ switches' = switches + 1
  /\ pending' = [w \in Awaiters |-> [k \in DOMAIN pending[w] |->
                   [pending[w][k] EXCEPT !.gone = @ \/ closes]]]
  /\ UNCHANGED <<doc, typed, stream, fields, queue, lock, hand, cancelled, registered, history>>

(* The listener: "Handle any lines received while editor was closed".      *)
SwitchBack ==
  /\ ~active
  /\ active' = TRUE
  /\ open' = TRUE
  /\ lock' = (lock \/ (queue # <<>> /\ ~cancelled))
  /\ UNCHANGED <<doc, switches, typed, stream, fields, queue, hand, pending, cancelled, registered,
                 history>>

-----------------------------------------------------------------------------
Original == DiffLines(script, {"same", "old", "blank"})

Body == IF Original = <<>> THEN <<Out>> ELSE Original

Outs(n) == [k \in 1 .. n |-> Out]

Init ==
  /\ script \in Scripts /\ next = 0 /\ run = "receive"
  /\ \E m \in Margins :
       /\ doc = Outs(m) \o Body \o Outs(m)
       /\ index = m
       /\ last = m + Len(Body) - 1
  /\ active = TRUE /\ open = TRUE /\ switches = 0 /\ typed = 0
  /\ added = 0 /\ buffer = <<>> /\ inserted = 0
  /\ red = <<>> /\ green = <<>> /\ blocks = <<>>
  /\ queue = <<>> /\ lock = FALSE /\ hand = <<>>
  /\ pending = [w \in Awaiters |-> <<>>]
  /\ cancelled = FALSE /\ registered = TRUE
  /\ choice = [h \in Hunks |-> "none"]
  /\ calm = TRUE

(* The loop of queueDiffLine goes on without a break to its next edit.     *)
Loop == QueueEmpty \/ TakeSame \/ TakeLine

Answers ==
  \/ LineFails \/ SameDone \/ OldDone \/ NewDone
  \/ FlushDone \/ FlushThrows \/ ClearDone \/ ClearFails

Run == Receive \/ StopCancelled \/ EndAtOnce \/ EndWithEdit

Handler == Loop \/ (~Idle /\ (Answers \/ Run))

User ==
  \/ \E accept \in BOOLEAN : ClearAll(accept) \/ \E k \in DOMAIN blocks : Resolve(k, accept)
  \/ \E i \in 0 .. Len(doc) - 1 : TypeLine(i)
  \/ \E closes \in BOOLEAN : SwitchAway(closes)
  \/ SwitchBack

Next == Handler \/ (~Idle /\ User)

Spec == Init /\ [][Next]_vars

(* Edits are answered and the event loop runs.                             *)
FairSpec == Spec /\ WF_vars(Handler)

-----------------------------------------------------------------------------
(* What each hunk should have left in the document: the lines it keeps,    *)
(* the old above the new while the user has not chosen.                    *)
LinesOf(h, kinds) == SelectSeq(DiffLines(script, kinds), LAMBDA x : HunkOf(x.at) = h)

(* A lone blank line deleted at the end of the stream is not put back.     *)
LostBlank(h) ==
  /\ h = HunkOf(Len(script))
  /\ LinesOf(h, {"new", "old"}) = <<>> /\ Len(LinesOf(h, {"blank"})) = 1

Section(h) ==
  LinesOf(h, {"same"})
    \o (IF choice[h] = "accept" \/ LostBlank(h) THEN <<>> ELSE LinesOf(h, Olds))
    \o (IF choice[h] = "reject" THEN <<>> ELSE LinesOf(h, {"new"}))

Expected == FlattenSeq([k \in 1 .. Len(script) + 1 |-> IF k - 1 \in Hunks THEN Section(k - 1) ELSE <<>>])

Content == SelectSeq(doc, LAMBDA x : x.kind \in Types)

(* Whatever blocks the user has accepted or rejected, in whatever order and *)
(* all at once or one by one, and whatever lines they have typed between    *)
(* the blocks: the document holds exactly the lines those choices call for, *)
(* in their order, once the stream is through and has not been cut short.   *)
DocumentFollowsChoices == Complete /\ calm => Content = Expected

(* Each lens covers the old and then the new lines of one hunk the user has *)
(* not decided, there is a lens for each such hunk, and the decorations     *)
(* cover exactly these lines: a click removes the lines it is shown at.     *)
LensShows(b, h) ==
  LET lines == LinesOf(h, Olds) \o LinesOf(h, {"new"}) IN
  /\ b.numRed = Len(LinesOf(h, Olds)) /\ b.numGreen = Len(LinesOf(h, {"new"}))
  /\ SubSeq(doc, b.start + 1, b.start + Len(lines)) = lines

Decorated(rs, kinds) ==
  \A i \in 0 .. Len(doc) - 1 :
    LET x == doc[i + 1] IN
    Covered(rs, i) <=> x.kind \in kinds /\ choice[HunkOf(x.at)] = "none"

LensesShowHunks ==
  Complete /\ calm /\ registered =>
    /\ \A h \in Hunks :
         choice[h] = "none" /\ LinesOf(h, Olds \cup {"new"}) # <<>> /\ ~LostBlank(h)
           => \E k \in DOMAIN blocks : LensShows(blocks[k], h)
    /\ Len(blocks) = Cardinality({h \in Hunks : choice[h] = "none"
                       /\ LinesOf(h, Olds \cup {"new"}) # <<>> /\ ~LostBlank(h)})
    /\ Decorated(red, Olds) /\ Decorated(green, {"new"})

(* run() comes to its end, whatever happens to the editor.                 *)
RunEnds == <>(run \in {"done", "stopped", "failed"})

=============================================================================
