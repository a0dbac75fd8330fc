----------------------------- MODULE VectorIndex -----------------------------
(***************************************************************************)
(* The vector index, core/indexing/LanceDbIndex.ts: one LanceDB table for  *)
(* each branch beside one cache of all rows in SQLite, from which a branch *)
(* takes the rows another has computed, and LanceDbIndex.update.  A search *)
(* looks the uuids it finds in the branch's table up in the cache.         *)
(*                                                                         *)
(* A row is identified by what it holds and by a copy number, which stands *)
(* for its uuid; the same row may be in the cache and in several tables.   *)
(***************************************************************************)
EXTENDS TagIndex

VARIABLES
  cache,    \* rows of lance_db_cache
  vectors,  \* branch -> rows of its table
  made,     \* branches that have a table
  phase,    \* run -> where update is
  packed,   \* run -> files read: an item and the text found
  fresh,    \* run -> rows that are in the cache and not yet in the table
  gone,     \* run -> removals taken out of the table, and not yet further
  written,  \* run -> items whose rows are done and whose marks are not
  cut       \* history: file versions whose update was cut off

vectorTables == <<cache, vectors, made>>
vectorMemory == <<phase, packed, fresh, gone, written>>
vectorVars   == <<vectorTables, vectorMemory, cut>>

Settled(r) == written[r] = {} /\ marked[r] = {}

At(r, s) == pc[r] = "update" /\ phase[r] = s /\ Settled(r)

GoTo(r, s) == phase' = [phase EXCEPT ![r] = s]

-----------------------------------------------------------------------------
(* Compute.                                                                *)

(* update is called with the next batch.                                   *)
BeginUpdate(r) ==
  /\ At(r, "none") /\ batch[r] # {}
  /\ GoTo(r, "compute")
  /\ UNCHANGED <<vars, vectorTables, packed, fresh, gone, written, cut>>

(* collectChunks reads the file again.                                     *)
CollectChunks(r, o) ==
  /\ At(r, "compute") /\ o.kind = "compute"
  /\ \A q \in packed[r] : q.op # o
  /\ packed' = [packed EXCEPT ![r] = @ \cup {[op |-> o, text |-> Text(o.path)]}]
  /\ UNCHANGED <<vars, vectorTables, phase, fresh, gone, written, cut>>

RowsFor(q, n) ==
  [path : {q.op.path}, key : {q.op.key}, text : {q.text}, idx : 1 .. Parts[q.text], copy : {n}]

InUse(x) == x \in cache \/ \E b \in Branches : x \in vectors[b]

(* The rows of one file, under uuids not used before.                      *)
NewRows(q) ==
  LET free == {n \in 1 .. MaxCopies : \A x \in RowsFor(q, n) : ~InUse(x)}
  IN  RowsFor(q, CHOOSE n \in free : \A m \in free : n <= m)

(* One transaction, once all chunks of the batch have their embeddings.    *)
InsertRows(r) ==
  LET new == UNION {NewRows(q) : q \in packed[r]} IN
  /\ At(r, "compute")
  /\ {q.op : q \in packed[r]} = OfKind(batch[r], "compute")
  /\ \A q \in packed[r] : \E n \in 1 .. MaxCopies : \A x \in RowsFor(q, n) : ~InUse(x)
  /\ cache' = cache \cup new
  /\ fresh' = [fresh EXCEPT ![r] = new]
  /\ packed' = [packed EXCEPT ![r] = {}]
  /\ GoTo(r, "insert")
  /\ UNCHANGED <<vars, vectors, made, gone, written, cut>>

(* The table is opened, or made with its first rows.                       *)
AddToTable(r, rows) ==
  /\ vectors' = [vectors EXCEPT ![tag[r]] = @ \cup rows]
  /\ made' = IF rows = {} THEN made ELSE made \cup {tag[r]}

AddComputed(r) ==
  /\ At(r, "insert")
  /\ AddToTable(r, fresh[r])
  /\ fresh' = [fresh EXCEPT ![r] = {}]
  /\ written' = [written EXCEPT ![r] = OfKind(batch[r], "compute")]
  /\ GoTo(r, "tags")
  /\ UNCHANGED <<vars, cache, packed, gone, cut>>

-----------------------------------------------------------------------------
(* Add tag, remove tag, delete.                                            *)

AddTagRows(r, o) ==
  /\ At(r, "tags") /\ o.kind = "addTag"
  /\ AddToTable(r, {x \in cache : SameFile(x, o)})
  /\ written' = [written EXCEPT ![r] = {o}]
  /\ UNCHANGED <<vars, cache, phase, packed, fresh, gone, cut>>

Removals(r) == OfKind(batch[r], "removeTag") \cup OfKind(batch[r], "del")

TagsAdded(r) == At(r, "tags") /\ OfKind(batch[r], "addTag") = {}

(* Bug: all versions of the file are taken out of the table.               *)
DeletesPath(x, o) == x.path = o.path

Deletes(x, o) == SameFile(x, o)

DeleteFromTable(r, o) ==
  /\ TagsAdded(r) /\ tag[r] \in made
  /\ o \in Removals(r) \ gone[r]
  /\ o.kind = "del" => OfKind(batch[r], "removeTag") \subseteq gone[r]
  /\ vectors' = [vectors EXCEPT ![tag[r]] = {x \in @ : ~Deletes(x, o)}]
  /\ gone' = [gone EXCEPT ![r] = @ \cup {o}]
  /\ UNCHANGED <<vars, cache, made, phase, packed, fresh, written, cut>>

(* A branch without a table has nothing to delete.                         *)
NoTable(r) ==
  /\ TagsAdded(r) /\ tag[r] \notin made
  /\ gone[r] # Removals(r)
  /\ gone' = [gone EXCEPT ![r] = Removals(r)]
  /\ UNCHANGED <<vars, vectorTables, phase, packed, fresh, written, cut>>

MarkRemoved(r) ==
  /\ TagsAdded(r) /\ gone[r] = Removals(r)
  /\ written' = [written EXCEPT ![r] = OfKind(batch[r], "removeTag")]
  /\ gone' = [gone EXCEPT ![r] = OfKind(@, "del")]
  /\ GoTo(r, "del")
  /\ UNCHANGED <<vars, vectorTables, packed, fresh, cut>>

DeleteFromCache(r, o) ==
  /\ At(r, "del") /\ o \in gone[r]
  /\ cache' = {x \in cache : ~SameFile(x, o)}
  /\ gone' = [gone EXCEPT ![r] = @ \ {o}]
  /\ UNCHANGED <<vars, vectors, made, phase, packed, fresh, written, cut>>

(* The end of update.                                                      *)
MarkDeleted(r) ==
  /\ At(r, "del") /\ gone[r] = {}
  /\ written' = [written EXCEPT ![r] = OfKind(batch[r], "del")]
  /\ GoTo(r, "none")
  /\ UNCHANGED <<vars, vectorTables, packed, fresh, gone, cut>>

(* markComplete.                                                           *)
MarkVectors(r, o) ==
  /\ o \in written[r]
  /\ MarkCatalog(r, o)
  /\ written' = [written EXCEPT ![r] = @ \ {o}]
  /\ UNCHANGED <<vectorTables, phase, packed, fresh, gone, cut>>

CacheMark(r, o) ==
  /\ written[r] = {}
  /\ MarkGlobal(r, o)
  /\ UNCHANGED vectorVars

(* The process dies, or a statement or a request for embeddings fails.     *)
CutOff(r) ==
  /\ pc[r] = "update"
  /\ Stop(r)
  /\ cut' = cut \cup {ItemOf(o) : o \in batch[r] \cup marked[r]}
  /\ phase' = [phase EXCEPT ![r] = "none"]
  /\ packed' = [packed EXCEPT ![r] = {}]
  /\ fresh' = [fresh EXCEPT ![r] = {}]
  /\ gone' = [gone EXCEPT ![r] = {}]
  /\ written' = [written EXCEPT ![r] = {}]
  /\ UNCHANGED vectorTables

-----------------------------------------------------------------------------
VectorInit ==
  /\ cache = {} /\ vectors = [b \in Branches |-> {}] /\ made = {}
  /\ phase = [r \in Runs |-> "none"]
  /\ packed = [r \in Runs |-> {}] /\ fresh = [r \in Runs |-> {}]
  /\ gone = [r \in Runs |-> {}] /\ written = [r \in Runs |-> {}]
  /\ cut = {}

VectorUpdate(r) ==
  \/ BeginUpdate(r) \/ InsertRows(r) \/ AddComputed(r)
  \/ NoTable(r) \/ MarkRemoved(r) \/ MarkDeleted(r)
  \/ \E o \in batch[r] \cup gone[r] :
       \/ CollectChunks(r, o) \/ AddTagRows(r, o) \/ DeleteFromTable(r, o)
       \/ DeleteFromCache(r, o) \/ MarkVectors(r, o)
  \/ \E o \in marked[r] : CacheMark(r, o)

(* A run goes on, and ends, when update has returned.                      *)
VectorStep(r) ==
  \/ /\ phase[r] = "none"
     /\ Begin(r) \/ Planning(r) \/ Between(r) \/ Leaves(r)
     /\ UNCHANGED vectorVars
  \/ VectorUpdate(r)

(* The workspace changes between runs only, which come one by one.         *)
VectorNext ==
  \/ World /\ Quiet /\ UNCHANGED vectorVars
  \/ \E r \in Runs : (VectorStep(r) \/ CutOff(r)) /\ Alone(r)

VectorSpec == Init /\ VectorInit /\ [][VectorNext]_<<vars, vectorVars>>

-----------------------------------------------------------------------------
(* What a search in a branch can give.                                     *)
Found(b) == vectors[b] \cap cache

(* Every part of a file that the catalog of a branch lists is found in the *)
(* branch, and nothing else is, unless a run is about to change it.  One   *)
(* cache serves all branches: a branch that gives a file up must leave the *)
(* others' rows.  A run cut off between two statements over three stores   *)
(* does harm, but none to versions other than those it was about.          *)
VectorsFollowCatalog ==
  \A b \in Branches :
    /\ \A x \in catalog[b] :
         ItemOf(x) \in cut \/ Being(x, b, {"del", "removeTag"})
           \/ \A n \in 1 .. Parts[x.key] : \E v \in Found(b) : SameFile(v, x) /\ v.idx = n
    /\ \A v \in Found(b) :
         ItemOf(v) \in cut \/ Being(v, b, Kinds) \/ \E x \in catalog[b] : SameFile(v, x)

=============================================================================
