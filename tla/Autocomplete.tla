----------------------------- MODULE Autocomplete -----------------------------
(***************************************************************************)
(* Inline completions (core/autocomplete): requests that are debounced,    *)
(* looked up in the cache, and answered from the stream of a language      *)
(* model, which GeneratorReuseManager shares among the requests of a user  *)
(* who types what the model has written.                                   *)
(*                                                                         *)
(* A text is a sequence of characters, a response a sequence of texts.     *)
(* Prompts are left out.  Of the filters on the text of a completion the   *)
(* model keeps that they stop the stream, and the model's generator with   *)
(* it, or throw.                                                           *)
(***************************************************************************)
EXTENDS Naturals, Sequences, SequencesExt

CONSTANTS
  MaxRequests,  \* bound
  Inputs,     \* texts before the cursor
  Chunks,     \* that a model sends
  Newline,    \* a character
  Wild, Percent,  \* "_" and "%", for any one and any run of them in a LIKE pattern
  Letters,    \* sets of the two cases of a letter
  MaxChunks,  \* bound on the chunks of a response
  Capacity    \* of the cache, 1000 in the code

ASSUME AutocompleteAssumption ==
  MaxRequests \in Nat /\ MaxChunks \in Nat /\ Capacity \in Nat \ {0}

ASSUME TextAssumption ==
  Inputs \cup Chunks \subseteq Seq(UNION {Range(s) : s \in Inputs \cup Chunks})

Requests == 1 .. MaxRequests

VARIABLES
  req,                \* the calls of provideInlineCompletionItems
  lastUUID,           \* the requests are numbered in the order of the calls
  debouncing,
  gens,               \* ListenableGenerators; the last is currentGenerator
  pendingCompletion,
  cache               \* its rows, by age

vars == <<req, lastUUID, debouncing, gens, pendingCompletion, cache>>

(* gen, index: the generator and how many of its chunks have been read;    *)
(* typed: typedSinceLastGenerator; out: the completion.                    *)
IdleRequest ==
  [pc |-> "idle", prefix |-> <<>>, multiline |-> FALSE, aborted |-> FALSE,
   gen |-> 0, index |-> 0, typed |-> <<>>, out |-> <<>>]

(* ended: _isEnded; over: the loop of _start has been left.                *)
NewGenerator(prefix) == [prefix |-> prefix, buffer |-> <<>>, ended |-> FALSE, over |-> FALSE]

Text(g)  == g.prefix \o FlattenSeq(g.buffer)
Rest(s, n) == SubSeq(s, n + 1, Len(s))

Goto(r, pc) == req' = [req EXCEPT ![r].pc = pc]

(* The call returns undefined, or the completion, which the user sees.     *)
Drop(r) == req' = [req EXCEPT ![r] = [IdleRequest EXCEPT !.pc = "dropped"]]
Show(r, s) ==
  req' = [req EXCEPT ![r] =
            [IdleRequest EXCEPT !.pc = "shown", !.prefix = req[r].prefix, !.out = s]]

-----------------------------------------------------------------------------
(* AutocompleteDebouncer.                                                  *)

Ask(r) ==
  /\ r = lastUUID + 1
  /\ \E p \in Inputs :
       req' = [req EXCEPT ![r] = [@ EXCEPT !.prefix = p,
                 !.pc = IF debouncing THEN "debouncing" ELSE "preparing"]]
  /\ lastUUID' = r /\ debouncing' = TRUE
  /\ UNCHANGED <<gens, pendingCompletion, cache>>

(* Only a later call looks at the end of the delay.                        *)
DebounceTimeout ==
  /\ debouncing /\ lastUUID < MaxRequests
  /\ debouncing' = FALSE
  /\ UNCHANGED <<req, lastUUID, gens, pendingCompletion, cache>>

Debounced(r) ==
  /\ req[r].pc = "debouncing"
  /\ IF lastUUID = r THEN Goto(r, "preparing") ELSE Drop(r)
  /\ UNCHANGED <<lastUUID, debouncing, gens, pendingCompletion, cache>>

(* A newer call, or the editor, aborts the token.  It is first looked at   *)
(* when there is a stream.                                                 *)
Abort(r) ==
  /\ req[r].pc \in {"reading", "waiting"} /\ ~req[r].aborted
  /\ req' = [req EXCEPT ![r].aborted = TRUE]
  /\ UNCHANGED <<lastUUID, debouncing, gens, pendingCompletion, cache>>

-----------------------------------------------------------------------------
(* AutocompleteLruCache.                                                   *)

Alike(c, d) == c = d \/ \E letter \in Letters : {c, d} \subseteq letter

(* p LIKE key || '%': ends[i] is where a part of p may end that is like    *)
(* the first i characters of the key.                                      *)
Like(p, key) ==
  LET ends[i \in 0 .. Len(key)] ==
        IF i = 0 THEN {0}
        ELSE {k \in 0 .. Len(p) : \E j \in ends[i - 1] :
                IF key[i] = Percent THEN j <= k
                ELSE k = j + 1 /\ (key[i] = Wild \/ Alike(p[k], key[i]))}
  IN  ends[Len(key)] # {}

(* The row with the longest key that the prefix is like, if any.           *)
Row(p) ==
  LET alike == {i \in DOMAIN cache : Like(p, cache[i].key)}
  IN  {i \in alike : \A j \in alike : Len(cache[j].key) <= Len(cache[i].key)}

Completes(value, rest) == IsPrefix(rest, value)

(* Where the row of a key is, or 0, and the rows of all other keys.        *)
Where(key)  == SelectInSeq(cache, LAMBDA e : e.key = key)
Others(key) == IF Where(key) = 0 THEN cache ELSE RemoveAt(cache, Where(key))

(* The row whose key is the prefix itself becomes the youngest.            *)
Touched(p) == IF Where(p) = 0 THEN cache ELSE Append(Others(p), cache[Where(p)])

(* slice for a count that is negative when the key is the longer one: then *)
(* it is the last characters of the value.                                 *)
Sliced(value, p, key) ==
  IF Len(key) <= Len(p) THEN Rest(value, Len(p) - Len(key))
  ELSE LET last == Len(key) - Len(p)
       IN  IF last < Len(value) THEN Rest(value, Len(value) - last) ELSE value

(* get.  An empty completion counts as none.                               *)
Hit(r, i) ==
  LET row == cache[i]
      completion == Sliced(row.value, req[r].prefix, row.key)
  IN  /\ Completes(row.value, Rest(req[r].prefix, Len(row.key)))
      /\ cache' = Touched(req[r].prefix)
      /\ IF completion = <<>> THEN Goto(r, "starting") ELSE Show(r, completion)

Miss(r, rows) ==
  /\ \A i \in rows : ~Completes(cache[i].value, Rest(req[r].prefix, Len(cache[i].key)))
  /\ Goto(r, "starting")
  /\ UNCHANGED cache

Lookup(r) ==
  LET rows == Row(req[r].prefix) IN
  /\ req[r].pc = "preparing"
  /\ Miss(r, rows) \/ \E i \in rows : Hit(r, i) \/ Miss(r, {i})
  /\ UNCHANGED <<lastUUID, debouncing, gens, pendingCompletion>>

(* Mutant: every completion is a new row.                                  *)
StoredUnbounded(key, value) == Append(Others(key), [key |-> key, value |-> value])

(* put                                                                     *)
Stored(key, value) ==
  LET kept == IF Where(key) = 0 /\ Len(cache) >= Capacity THEN Tail(cache) ELSE Others(key)
  IN  Append(kept, [key |-> key, value |-> value])

-----------------------------------------------------------------------------
(* GeneratorReuseManager.                                                  *)

Cancelled == IF gens = <<>> THEN gens ELSE [gens EXCEPT ![Len(gens)].ended = TRUE]

(* Mutant: no thought of backspace.                                        *)
ReuseAfterBackspace(p) ==
  /\ gens # <<>> /\ Last(gens).prefix # <<>>
  /\ IsPrefix(p, Last(gens).prefix \o pendingCompletion)

ShouldReuseExistingGenerator(p) ==
  /\ gens # <<>> /\ Last(gens).prefix # <<>>
  /\ IsPrefix(p, Last(gens).prefix \o pendingCompletion)
  /\ Len(Last(gens).prefix) <= Len(p)

Start(r) ==
  LET p == req[r].prefix
      Reading(gen, typed) ==
        \E multiline \in BOOLEAN :
          req' = [req EXCEPT ![r] = [@ EXCEPT !.pc = "reading", !.multiline = multiline,
                                              !.gen = gen, !.typed = typed]]
  IN
  /\ req[r].pc = "starting"
  /\ \/ /\ ShouldReuseExistingGenerator(p)
        /\ Reading(Len(gens), Rest(p, Len(Last(gens).prefix)))
        /\ UNCHANGED <<gens, pendingCompletion>>
     \/ /\ ~ShouldReuseExistingGenerator(p)
        /\ Reading(Len(gens) + 1, <<>>)
        /\ gens' = Append(Cancelled, NewGenerator(p))
        /\ pendingCompletion' = <<>>
  /\ UNCHANGED <<lastUUID, debouncing, cache>>

(* A chunk without the characters that the user has typed.                 *)
Untyped(chunk, typed) == Rest(chunk, Len(LongestCommonPrefix({chunk, typed})))
StillTyped(chunk, typed) == Rest(typed, Len(LongestCommonPrefix({chunk, typed})))

NewlineIndex(s) == SelectInSeq(s, LAMBDA c : c = Newline)

(* The stream is left: where it was is not used any more.                  *)
Stopped(q) ==
  [IdleRequest EXCEPT !.pc = "stopped", !.prefix = q.prefix, !.out = q.out,
                      !.aborted = q.aborted]

(* An update for the request: it is taken unless the token is aborted.     *)
Update(q, s) == IF q.aborted THEN Stopped(q) ELSE [q EXCEPT !.out = @ \o s]

(* One chunk in getGenerator.  The statement for an empty one throws.      *)
TakeChunk(q, chunk) ==
  LET s == Untyped(chunk, q.typed)
      taken == [q EXCEPT !.index = @ + 1, !.typed = StillTyped(chunk, q.typed)]
  IN  CASE chunk = <<>> -> [IdleRequest EXCEPT !.pc = "dropped"]
        [] chunk # <<>> /\ NewlineIndex(s) > 0 /\ ~q.multiline ->
             Stopped(Update(taken, SubSeq(s, 1, NewlineIndex(s) - 1)))
        [] chunk # <<>> /\ (NewlineIndex(s) = 0 \/ q.multiline) /\ s # <<>> ->
             Update(taken, s)
        [] OTHER -> taken

(* Mutant: the end is looked for before the buffer is drained.             *)
ReadEndFirst(r) ==
  LET q == req[r] IN
  /\ q.pc = "reading"
  /\ req' = [req EXCEPT ![r] =
       IF gens[q.gen].ended THEN [q EXCEPT !.pc = "ended"]
       ELSE IF q.index < Len(gens[q.gen].buffer)
            THEN TakeChunk(q, gens[q.gen].buffer[q.index + 1])
            ELSE [q EXCEPT !.pc = "waiting"]]
  /\ UNCHANGED <<lastUUID, debouncing, gens, pendingCompletion, cache>>

(* tee: the buffer is drained, and then the end is looked for.             *)
Read(r) ==
  LET q == req[r] IN
  /\ q.pc = "reading"
  /\ req' = [req EXCEPT ![r] =
       IF q.index < Len(gens[q.gen].buffer) THEN TakeChunk(q, gens[q.gen].buffer[q.index + 1])
       ELSE [q EXCEPT !.pc = IF gens[q.gen].ended THEN "ended" ELSE "waiting"]]
  /\ UNCHANGED <<lastUUID, debouncing, gens, pendingCompletion, cache>>

(* A filter has seen enough of the completion: some cancel the generator   *)
(* that is then the current one.                                           *)
FilterStops(r) ==
  /\ req[r].pc \in {"reading", "ended"} /\ req[r].out # <<>>
  /\ req' = [req EXCEPT ![r] = Stopped(@)]
  /\ gens' \in {gens, Cancelled}
  /\ UNCHANGED <<lastUUID, debouncing, pendingCompletion, cache>>

FilterThrows(r) ==
  /\ req[r].pc \in {"reading", "ended"} /\ req[r].out # <<>>
  /\ Drop(r)
  /\ UNCHANGED <<lastUUID, debouncing, gens, pendingCompletion, cache>>

(* provideInlineCompletionItems after its stream.                          *)
Complete(r) ==
  /\ req[r].pc \in {"stopped", "ended"}
  /\ IF req[r].aborted \/ req[r].out = <<>> THEN Drop(r) ELSE Goto(r, "saving")
  /\ UNCHANGED <<lastUUID, debouncing, gens, pendingCompletion, cache>>

Save(r) ==
  /\ req[r].pc = "saving"
  /\ cache' = Stored(req[r].prefix, req[r].out)
  /\ Show(r, req[r].out)
  /\ UNCHANGED <<lastUUID, debouncing, gens, pendingCompletion>>

-----------------------------------------------------------------------------
(* ListenableGenerator: its source is the response of a language model.    *)

Woken(i) ==
  [r \in Requests |->
     IF req[r].pc = "waiting" /\ req[r].gen = i THEN [req[r] EXCEPT !.pc = "reading"]
     ELSE req[r]]

Leave(i) == gens' = [gens EXCEPT ![i] = [@ EXCEPT !.ended = TRUE, !.over = TRUE]]

(* Mutant: the chunk of a cancelled generator is pushed all the same.      *)
YieldsCancelled(i) ==
  /\ ~gens[i].over /\ Len(gens[i].buffer) < MaxChunks
  /\ \E c \in Chunks :
       /\ gens' = [gens EXCEPT ![i].buffer = Append(@, c)]
       /\ pendingCompletion' = pendingCompletion \o c
  /\ req' = Woken(i)
  /\ UNCHANGED <<lastUUID, debouncing, cache>>

Yields(i) ==
  /\ ~gens[i].over /\ ~gens[i].ended /\ Len(gens[i].buffer) < MaxChunks
  /\ \E c \in Chunks :
       /\ gens' = [gens EXCEPT ![i].buffer = Append(@, c)]
       /\ pendingCompletion' = pendingCompletion \o c
  /\ req' = Woken(i)
  /\ UNCHANGED <<lastUUID, debouncing, cache>>

(* Mutant: a loop that is left by break tells nobody.                      *)
EndsSilently(i) ==
  /\ ~gens[i].over
  /\ Leave(i)
  /\ req' = IF gens[i].ended THEN req ELSE Woken(i)
  /\ UNCHANGED <<lastUUID, debouncing, pendingCompletion, cache>>

(* The response is over, has failed, reacts to its abort or goes on after  *)
(* it, which makes the loop break.                                         *)
Ends(i) ==
  /\ ~gens[i].over
  /\ Leave(i)
  /\ req' = Woken(i)
  /\ UNCHANGED <<lastUUID, debouncing, pendingCompletion, cache>>

-----------------------------------------------------------------------------
Init ==
  /\ req = [r \in Requests |-> IdleRequest]
  /\ lastUUID = 0 /\ debouncing = FALSE
  /\ gens = <<>> /\ pendingCompletion = <<>> /\ cache = <<>>

RequestStep(r) ==
  \/ Debounced(r) \/ Lookup(r) \/ Start(r) \/ Read(r)
  \/ FilterStops(r) \/ FilterThrows(r) \/ Complete(r) \/ Save(r)

Next ==
  \/ \E r \in Requests : Ask(r) \/ Abort(r) \/ RequestStep(r)
  \/ \E i \in DOMAIN gens : Yields(i) \/ Ends(i)
  \/ DebounceTimeout

Spec == Init /\ [][Next]_vars

(* The event loop runs callers to their next await, and responses end.     *)
FairSpec ==
  /\ Spec
  /\ WF_vars(\E r \in Requests : RequestStep(r))
  /\ WF_vars(\E i \in DOMAIN gens : Ends(i))

-----------------------------------------------------------------------------
(* A reader is where its generator has a buffer, and the cache is bounded. *)
TypeOK ==
  /\ \A r \in Requests :
       /\ req[r].pc \in {"idle", "debouncing", "preparing", "starting", "reading", "waiting",
                         "stopped", "ended", "saving", "shown", "dropped"}
       /\ req[r].pc \in {"reading", "waiting", "ended"} =>
            req[r].gen \in DOMAIN gens /\ req[r].index \in 0 .. Len(gens[req[r].gen].buffer)
  /\ lastUUID \in 0 .. MaxRequests /\ debouncing \in BOOLEAN
  /\ \A i \in DOMAIN gens : gens[i].over => gens[i].ended
  /\ Len(cache) <= Capacity
  /\ \A i, j \in DOMAIN cache : cache[i].key = cache[j].key => i = j

(* What a request is compared with to reuse the current generator is what  *)
(* this generator has given: no chunk of a cancelled one is among it.      *)
PendingIsOfCurrent ==
  gens # <<>> => Last(gens).prefix \o pendingCompletion = Text(Last(gens))

(* A text of a model goes on with the completion after its first n         *)
(* characters and what the prefix p has more than these, or, when p has    *)
(* less, somewhere after them.                                             *)
GoesOn(s, n, p, out) ==
  IF n <= Len(p) THEN IsPrefix(SubSeq(s, 1, n) \o Rest(p, n) \o out, s)
  ELSE \E m \in n .. Len(s) : IsPrefix(SubSeq(s, 1, m) \o out, s)

(* The prefix and its completion are a beginning of what a model has       *)
(* written, whether its stream is the request's own or an earlier one's.   *)
(* No more than this is lost by a row of the cache: a model has gone on    *)
(* with the completion after a text that the prefix is LIKE.               *)
CompletionContinues ==
  \A r \in Requests :
    req[r].out # <<>> =>
      \E i \in DOMAIN gens :
        LET s == Text(gens[i]) p == req[r].prefix IN
        \/ IsPrefix(p \o req[r].out, s)
        \/ /\ req[r].pc = "shown"
           /\ \E n \in 0 .. Len(s) : Like(p, SubSeq(s, 1, n)) /\ GoesOn(s, n, p, req[r].out)

(* A request that reads to the end has the whole response.                 *)
EndedIsComplete ==
  \A r \in Requests :
    req[r].pc = "ended" /\ ~req[r].aborted =>
      req[r].prefix \o req[r].out = Text(gens[req[r].gen])

(* Nobody waits for a generator that has been cancelled, and no request is *)
(* left without an answer.                                                 *)
RequestsEnd ==
  <>[](\A r \in Requests : req[r].pc \in {"idle", "shown", "dropped"})
=============================================================================
