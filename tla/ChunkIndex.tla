----------------------------- MODULE ChunkIndex -----------------------------
(***************************************************************************)
(* The chunk index, core/indexing/chunk/ChunkCodebaseIndex.ts: the tables  *)
(* chunks and chunk_tags and ChunkCodebaseIndex.update, as the consumer of *)
(* the plan of RefreshIndex.  Each statement of update is a step, and the  *)
(* markComplete calls of RefreshIndex come where update makes them.        *)
(*                                                                         *)
(* A row of chunks is identified by what it holds and by a copy number,    *)
(* which stands for its AUTOINCREMENT id.                                  *)
(***************************************************************************)
EXTENDS TagIndex

VARIABLES
  chunks,      \* rows of chunks
  chunkTags,   \* rows of chunk_tags: <<chunk, branch>>
  spared,      \* history: those that del left where it took another chunk of the file
  pack,        \* run -> chunks computed and not yet inserted, by item
  done,        \* run -> items whose rows are written and not yet marked
  victim       \* run -> the chunk deleted (a set of one) whose tags are not

chunkTables == <<chunks, chunkTags, spared>>
chunkMemory == <<pack, done, victim>>
chunkVars   == <<vars, chunkTables, chunkMemory>>

Chunk == [path : Paths, key : Contents, text : Contents,
          idx : 1 .. MaxParts, copy : 1 .. MaxCopies]

-----------------------------------------------------------------------------
(* Compute.                                                                *)

(* update takes the lists one after the other; computes are done together, *)
(* the items of the other lists one at a time.                             *)
MyTurn(r, o) ==
  /\ pc[r] = "update"
  /\ o \in batch[r]
  /\ InTurn(r, o)
  /\ o.kind # "compute" => done[r] = {} /\ marked[r] = {} /\ victim[r] = {}

(* packToChunks reads the file again: it may have changed since its key was *)
(* computed.                                                                *)
PackToChunks(r, o) ==
  /\ o.kind = "compute"
  /\ MyTurn(r, o)
  /\ done[r] = {}
  /\ \A q \in pack[r] : q.op # o
  /\ pack' = [pack EXCEPT ![r] = @ \cup {[op |-> o, text |-> Text(o.path)]}]
  /\ UNCHANGED <<vars, chunkTables, done, victim>>

FreeCopy(c, n) ==
  /\ [c EXCEPT !.copy = n] \notin chunks
  /\ \A b \in Branches : <<[c EXCEPT !.copy = n], b>> \notin chunkTags

Numbers(q) == 1 .. Parts[q.text]

(* The rows one packed item gives, each under an id not used before.        *)
NewChunks(q) ==
  {c \in [path : {q.op.path}, key : {q.op.key}, text : {q.text},
          idx : Numbers(q), copy : 1 .. MaxCopies] :
     FreeCopy(c, c.copy) /\ \A n \in 1 .. c.copy - 1 : ~FreeCopy(c, n)}

(* insertChunks, one transaction for all the computes of the batch.         *)
InsertChunks(r) ==
  LET new == UNION {NewChunks(q) : q \in pack[r]} IN
  /\ pack[r] # {}
  /\ {q.op : q \in pack[r]} = OfKind(batch[r], "compute")
  /\ \A q \in pack[r] : \A n \in Numbers(q) : \E c \in NewChunks(q) : c.idx = n
  /\ chunks' = chunks \cup new
  /\ chunkTags' = chunkTags \cup {<<c, tag[r]>> : c \in new}
  /\ done' = [done EXCEPT ![r] = {q.op : q \in pack[r]}]
  /\ pack' = [pack EXCEPT ![r] = {}]
  /\ UNCHANGED <<vars, spared, victim>>

-----------------------------------------------------------------------------
(* Add tag, remove tag, delete.                                            *)

AddTag(r, o) ==
  /\ o.kind = "addTag"
  /\ MyTurn(r, o)
  /\ chunkTags' = chunkTags \cup {<<c, tag[r]>> : c \in {d \in chunks : SameFile(d, o)}}
  /\ done' = [done EXCEPT ![r] = {o}]
  /\ UNCHANGED <<vars, chunks, spared, pack, victim>>

(* Bug: removeTag is marked as done and no row is touched.                 *)
NoTags(r, o) == {}

TagsOfFile(r, o) == {<<c, tag[r]>> : c \in {d \in chunks : SameFile(d, o)}}

RemoveTag(r, o) ==
  /\ o.kind = "removeTag"
  /\ MyTurn(r, o)
  /\ chunkTags' = chunkTags \ TagsOfFile(r, o)
  /\ spared' = {t \in spared : ~(SameFile(t[1], o) /\ t[2] = tag[r])}
  /\ done' = [done EXCEPT ![r] = {o}]
  /\ UNCHANGED <<vars, chunks, pack, victim>>

(* db.get returns one chunk with the key, of whatever path, and only that  *)
(* one is deleted.                                                         *)
DeleteChunk(r, o) ==
  /\ o.kind = "del"
  /\ MyTurn(r, o)
  /\ \E c \in chunks :
       /\ c.key = o.key
       /\ chunks' = chunks \ {c}
       /\ spared' = spared \cup {<<d, tag[r]>> : d \in {d \in chunks' : d.key = o.key}}
       /\ victim' = [victim EXCEPT ![r] = {c}]
  /\ UNCHANGED <<vars, chunkTags, pack, done>>

(* Its tags go in a second statement.                                      *)
DeleteTags(r, o) ==
  /\ o.kind = "del"
  /\ o \in batch[r]
  /\ \E c \in victim[r] :
       /\ c.key = o.key
       /\ chunkTags' = chunkTags \ {<<c, b>> : b \in Branches}
  /\ victim' = [victim EXCEPT ![r] = {}]
  /\ done' = [done EXCEPT ![r] = {o}]
  /\ UNCHANGED <<vars, chunks, spared, pack>>

NothingToDelete(r, o) ==
  /\ o.kind = "del"
  /\ MyTurn(r, o)
  /\ \A c \in chunks : c.key # o.key
  /\ done' = [done EXCEPT ![r] = {o}]
  /\ UNCHANGED <<vars, chunkTables, pack, victim>>

-----------------------------------------------------------------------------
(* markComplete, called with all the computes or with one item: first the  *)
(* catalog for each of them, then the global cache.                        *)

Mark(r, o) ==
  /\ o \in done[r]
  /\ MarkCatalog(r, o)
  /\ done' = [done EXCEPT ![r] = @ \ {o}]
  /\ UNCHANGED <<chunkTables, pack, victim>>

Cache(r, o) ==
  /\ done[r] = {}
  /\ MarkGlobal(r, o)
  /\ UNCHANGED <<chunkTables, chunkMemory>>

ForgetChunks(r) ==
  /\ pack' = [pack EXCEPT ![r] = {}]
  /\ done' = [done EXCEPT ![r] = {}]
  /\ victim' = [victim EXCEPT ![r] = {}]
  /\ UNCHANGED chunkTables

-----------------------------------------------------------------------------
ChunkInit ==
  /\ Init
  /\ chunks = {} /\ chunkTags = {} /\ spared = {}
  /\ pack = [r \in Runs |-> {}]
  /\ done = [r \in Runs |-> {}]
  /\ victim = [r \in Runs |-> {}]

Update(r) ==
  \/ InsertChunks(r)
  \/ \E o \in batch[r] :
       \/ PackToChunks(r, o) \/ AddTag(r, o) \/ RemoveTag(r, o)
       \/ DeleteChunk(r, o) \/ DeleteTags(r, o) \/ NothingToDelete(r, o)
       \/ Mark(r, o)
  \/ \E o \in marked[r] : Cache(r, o)

(* A run, undisturbed.                                                     *)
Step(r) ==
  \/ (Begin(r) \/ Planning(r) \/ Between(r)) /\ UNCHANGED <<chunkTables, chunkMemory>>
  \/ Update(r)
  \/ Leaves(r) /\ ForgetChunks(r)

Change == World /\ UNCHANGED <<chunkTables, chunkMemory>>

(* Everything can happen: changes while a run is under way, runs cut off.  *)
ChunkNext ==
  \/ Change
  \/ \E r \in Runs : Step(r) \/ (Stop(r) /\ ForgetChunks(r))

ChunkSpec == ChunkInit /\ [][ChunkNext]_chunkVars

(* The workspace changes between runs only, and no run is cut off.         *)
SteadyNext ==
  \/ Change /\ Quiet
  \/ \E r \in Runs : Step(r) /\ Alone(r)

SteadySpec == ChunkInit /\ [][SteadyNext]_chunkVars

-----------------------------------------------------------------------------
(* The chunks a search in a branch sees.                                   *)
Visible(b) == {c \in chunks : <<c, b>> \in chunkTags}

(* A file the catalog of a branch lists as indexed has all its chunks in    *)
(* that branch, unless a run is about to take it out.  Between two branches *)
(* that share a file this is what the choice of del or removeTag is for.    *)
IndexedFilesHaveChunks ==
  \A b \in Branches : \A x \in catalog[b] :
    Being(x, b, {"del", "removeTag"})
      \/ \A n \in 1 .. Parts[x.key] : \E c \in Visible(b) : SameFile(c, x) /\ c.idx = n

(* No branch sees a chunk of a file version its catalog does not list,      *)
(* unless a run has just written it and is about to list it: README step 4, *)
(* "this entry should be removed and there will be no more branches that    *)
(* need the artifact, so we want to delete it".  The code keeps to this but *)
(* for files of several chunks: del takes one of them, and the branch that  *)
(* gave the file up goes on seeing the others until a removeTag of the file. *)
Spared(c, b) == Parts[c.key] > 1 /\ <<c, b>> \in spared

NoLeftoverChunks ==
  \A b \in Branches : \A c \in Visible(b) :
    \/ Being(c, b, Kinds)
    \/ \E x \in catalog[b] : SameFile(c, x)
    \/ Spared(c, b)

=============================================================================
