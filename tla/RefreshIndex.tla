---------------------------- MODULE RefreshIndex ----------------------------
(***************************************************************************)
(* The incremental refresh of one index artifact of the codebase indexer:  *)
(* core/indexing/refreshIndex.ts (the tag catalog, the global cache and    *)
(* the plan made from them), driven by refreshDirs / indexFiles and        *)
(* refreshFile of core/indexing/CodebaseIndexer.ts.                        *)
(*                                                                         *)
(* One workspace directory and one artifact are modelled, so a tag is a    *)
(* branch.  A cache key is the hash of a file's text: the text stands for  *)
(* its hash.  Several runs may be in flight, because Core starts a run     *)
(* without waiting for the previous one to stop.  Everything a run holds   *)
(* between two awaits lives in the variables of memory, per run; what      *)
(* survives a crash is catalog and gcache.                                 *)
(***************************************************************************)
EXTENDS Naturals, FiniteSets

CONSTANTS
  Paths,          \* files of the workspace
  Editable,       \* files that may be open with unsaved edits
  Contents,       \* texts a file can have; a text is its own cache key
  EmptyText,      \* what the IDE's readFile returns for a file it cannot read
  Branches,       \* git branches: the tags of the one directory
  Runs,           \* refreshes that may be in flight at the same time
  FilesPerBatch,  \* CodebaseIndexer.filesPerBatch (500 in the code)
  MaxClock,       \* bound on time stamps, for model checking only
  NoFile,         \* "there is no such file"
  NoBuffer        \* "not open, or open without unsaved edits"

ASSUME SentinelAssumption ==
  /\ EmptyText \in Contents
  /\ NoFile \notin Contents
  /\ NoBuffer \notin Contents
  /\ Editable \subseteq Paths

ASSUME BoundAssumption ==
  /\ FilesPerBatch \in Nat \ {0}
  /\ MaxClock \in Nat

VARIABLES
  clock,    \* the last time stamp handed out, by the file system or Date.now()
  disk,     \* path -> NoFile or its text and modification time
  buffer,   \* path -> unsaved text, or NoBuffer
  branch,   \* the branch checked out
  catalog,  \* branch -> rows of tag_catalog
  gcache    \* rows of global_cache: <<cache key, branch>>

VARIABLES   \* what each run holds in memory between two awaits
  pc,       \* where it is
  full,     \* refreshDirs, as opposed to refreshFile
  tag,      \* its branch
  files,    \* `files`: the listed files not yet accounted for
  stats,    \* their modification times
  stamp,    \* newLastUpdatedTimestamp
  saved,    \* rows of the tag when planning began
  add, remove, touch,   \* the lists of getAddRemoveForTag
  todo,     \* items of the four lists not yet in a batch
  batch,    \* items of the current batch not yet marked
  marked    \* items marked in the catalog, not yet in the global cache

world  == <<clock, disk, buffer, branch>>
tables == <<catalog, gcache>>
scope  == <<full, tag, files, stats, stamp, saved>>
plan   == <<add, remove, touch>>
ops    == <<todo, batch, marked>>
memory == <<pc, scope, plan, ops>>
vars   == <<world, tables, memory>>

-----------------------------------------------------------------------------
File  == [content : Contents, mtime : Nat]
Row   == [path : Paths, key : Contents, last : Nat]
Item  == [path : Paths, key : Contents]
Kinds == {"compute", "addTag", "removeTag", "del"}
Op    == [kind : Kinds, path : Paths, key : Contents]
Pc    == {"idle", "branch", "stat", "plan", "read", "update"}

AnyBranch == CHOOSE b \in Branches : TRUE

NoStats == [p \in Paths |-> 0]

Exists(p) == disk[p] # NoFile

(* readFile of the IDE: an open document wins over the file on disk, and a *)
(* file that cannot be read is the empty text.                             *)
Text(p) == IF buffer[p] # NoBuffer THEN buffer[p]
           ELSE IF Exists(p) THEN disk[p].content ELSE EmptyText

ItemOf(x)    == [path |-> x.path, key |-> x.key]
OpOf(k, i)   == [kind |-> k, path |-> i.path, key |-> i.key]
SameEntry(x, i) == x.path = i.path /\ x.key = i.key

(* Existing tags of a cache key: getTagsFromGlobalCache.                   *)
TagsOf(k) == {b \in Branches : <<k, b>> \in gcache}

-----------------------------------------------------------------------------
(* The statements of markComplete and of GlobalCacheCodeBaseIndex.update.  *)

(* REPLACE INTO tag_catalog: the unique index is on (tag, path, cacheKey). *)
ReplaceRow(rows, i, t) ==
  {x \in rows : ~SameEntry(x, i)}
    \cup {[path |-> i.path, key |-> i.key, last |-> t]}

DeleteRow(rows, i) == {x \in rows : ~SameEntry(x, i)}

(* UPDATE tag_catalog SET cacheKey, lastUpdated WHERE path: every row of   *)
(* the path.                                                               *)
UpdateRows(rows, i, t) ==
  {x \in rows : x.path # i.path}
    \cup {[path |-> i.path, key |-> i.key, last |-> t] :
            x \in {y \in rows : y.path = i.path}}

(* Two rows of one path cannot be set to the same key.                     *)
UpdateConflicts(rows, i) ==
  \E x, y \in rows : x # y /\ x.path = i.path /\ y.path = i.path

MarkRow(rows, o, t) ==
  IF o.kind \in {"compute", "addTag"}
  THEN ReplaceRow(rows, o, t)
  ELSE DeleteRow(rows, o)

MarkCache(cache, o, b) ==
  IF o.kind \in {"compute", "addTag"}
  THEN cache \cup {<<o.key, b>>}
  ELSE cache \ {<<o.key, b>>}

-----------------------------------------------------------------------------
(* The workspace.  A write gets a modification time later than every       *)
(* Date.now() already returned.                                            *)

WriteFile(p, c) ==
  /\ clock < MaxClock
  /\ clock' = clock + 1
  /\ disk' = [disk EXCEPT ![p] = [content |-> c, mtime |-> clock + 1]]
  /\ UNCHANGED <<buffer, branch, tables, memory>>

DeleteFile(p) ==
  /\ Exists(p)
  /\ disk' = [disk EXCEPT ![p] = NoFile]
  /\ UNCHANGED <<clock, buffer, branch, tables, memory>>

(* git checkout rewrites the files that differ and touches no other.       *)
Checkout(b, new) ==
  /\ b # branch
  /\ clock < MaxClock
  /\ clock' = clock + 1
  /\ branch' = b
  /\ disk' = [p \in Paths |->
                IF new[p] = NoFile THEN NoFile
                ELSE IF Exists(p) /\ disk[p].content = new[p] THEN disk[p]
                ELSE [content |-> new[p], mtime |-> clock + 1]]
  /\ UNCHANGED <<buffer, tables, memory>>

Edit(p, c) ==
  /\ p \in Editable
  /\ Exists(p)
  /\ buffer' = [buffer EXCEPT ![p] = c]
  /\ UNCHANGED <<clock, disk, branch, tables, memory>>

Save(p) ==
  /\ buffer[p] # NoBuffer
  /\ clock < MaxClock
  /\ clock' = clock + 1
  /\ disk' = [disk EXCEPT ![p] = [content |-> buffer[p], mtime |-> clock + 1]]
  /\ buffer' = [buffer EXCEPT ![p] = NoBuffer]
  /\ UNCHANGED <<branch, tables, memory>>

-----------------------------------------------------------------------------
(* Planning.                                                               *)

Active(r) == pc[r] # "idle"

(* A run that ends, however it ends, forgets everything.                   *)
Forget(r) ==
  /\ pc' = [pc EXCEPT ![r] = "idle"]
  /\ full' = [full EXCEPT ![r] = FALSE]
  /\ tag' = [tag EXCEPT ![r] = AnyBranch]
  /\ files' = [files EXCEPT ![r] = {}]
  /\ stats' = [stats EXCEPT ![r] = NoStats]
  /\ stamp' = [stamp EXCEPT ![r] = 0]
  /\ saved' = [saved EXCEPT ![r] = {}]
  /\ add' = [add EXCEPT ![r] = {}]
  /\ remove' = [remove EXCEPT ![r] = {}]
  /\ touch' = [touch EXCEPT ![r] = {}]
  /\ todo' = [todo EXCEPT ![r] = {}]
  /\ batch' = [batch EXCEPT ![r] = {}]
  /\ marked' = [marked EXCEPT ![r] = {}]

(* refreshDirs, once walkDirAsync has listed the directory.                *)
Start(r) ==
  /\ ~Active(r)
  /\ pc' = [pc EXCEPT ![r] = "branch"]
  /\ full' = [full EXCEPT ![r] = TRUE]
  /\ files' = [files EXCEPT ![r] = {p \in Paths : Exists(p)}]
  /\ UNCHANGED <<world, tables, tag, stats, stamp, saved, plan, ops>>

(* refreshFile for one saved file.                                         *)
StartFile(r, p) ==
  /\ ~Active(r)
  /\ pc' = [pc EXCEPT ![r] = "branch"]
  /\ files' = [files EXCEPT ![r] = {p}]
  /\ UNCHANGED <<world, tables, full, tag, stats, stamp, saved, plan, ops>>

GetBranch(r) ==
  /\ pc[r] = "branch"
  /\ pc' = [pc EXCEPT ![r] = "stat"]
  /\ tag' = [tag EXCEPT ![r] = branch]
  /\ UNCHANGED <<world, tables, full, files, stats, stamp, saved, plan, ops>>

MTimes(fs) == [p \in Paths |-> IF p \in fs THEN disk[p].mtime ELSE 0]

(* getLastModified.                                                        *)
Stat(r) ==
  /\ pc[r] = "stat"
  /\ \A p \in files[r] : Exists(p)
  /\ pc' = [pc EXCEPT ![r] = "plan"]
  /\ stats' = [stats EXCEPT ![r] = MTimes(files[r])]
  /\ UNCHANGED <<world, tables, full, tag, files, stamp, saved, plan, ops>>

(* It rejects when one of the files is gone, and the run fails.            *)
StatFails(r) ==
  /\ pc[r] = "stat"
  /\ \E p \in files[r] : ~Exists(p)
  /\ Forget(r)
  /\ UNCHANGED <<world, tables>>

(* Rows of files that are not in the listing.                              *)
Unlisted(r) == {x \in catalog[tag[r]] : x.path \notin files[r]}

(* The head of getAddRemoveForTag: Date.now() first, then the saved rows.  *)
(* Rows of files that are not in the listing are to be removed, unread.    *)
Plan(r) ==
  /\ pc[r] = "plan"
  /\ pc' = [pc EXCEPT ![r] = "read"]
  /\ stamp' = [stamp EXCEPT ![r] = clock]
  /\ saved' = [saved EXCEPT ![r] = catalog[tag[r]]]
  /\ remove' = [remove EXCEPT ![r] = {ItemOf(x) : x \in Unlisted(r)}]
  /\ UNCHANGED <<world, tables, full, tag, files, stats, add, touch, ops>>

RowsOf(r, p) == {x \in saved[r] : x.path = p}

(* Bug: time stamps compared a tick apart are taken for equal.              *)
NeedsHashCoarse(x, mtime) == x.last + 1 < mtime

(* lastUpdated < files[item.path]                                          *)
NeedsHash(x, mtime) == x.last < mtime

(* What reading p leaves to be added: its path under the key of its text.  *)
Current(p) == [path |-> p, key |-> Text(p)]

Reading(r, p) ==
  /\ pc[r] = "read"
  /\ p \in files[r]
  /\ files' = [files EXCEPT ![r] = @ \ {p}]
  /\ UNCHANGED <<world, tables, pc, full, tag, stats, stamp, saved, ops>>

(* A file with no row: read it and add it.                                 *)
ReadNew(r, p) ==
  /\ Reading(r, p)
  /\ RowsOf(r, p) = {}
  /\ add' = [add EXCEPT ![r] = @ \cup {Current(p)}]
  /\ UNCHANGED <<remove, touch>>

(* Bug: further rows of a file are passed over.                             *)
NoRest(r, x) == {}

(* The rows of a file come in no particular order.  The first decides, and *)
(* takes the path out of `files`; the others find it missing there and are *)
(* removed like rows of a file that is gone.                               *)
Rest(r, x) == {ItemOf(y) : y \in RowsOf(r, x.path) \ {x}}

(* First row up to date by its time stamp: the file is not read.           *)
SkipFresh(r, p) ==
  /\ Reading(r, p)
  /\ \E x \in RowsOf(r, p) :
       /\ ~NeedsHash(x, stats[r][p])
       /\ remove' = [remove EXCEPT ![r] = @ \cup Rest(r, x)]
  /\ UNCHANGED <<add, touch>>

ReadSame(r, p) ==
  /\ Reading(r, p)
  /\ \E x \in RowsOf(r, p) :
       /\ NeedsHash(x, stats[r][p])
       /\ x.key = Text(p)
       /\ remove' = [remove EXCEPT ![r] = @ \cup Rest(r, x)]
  /\ touch' = [touch EXCEPT ![r] = @ \cup {Current(p)}]
  /\ UNCHANGED add

ReadChanged(r, p) ==
  /\ Reading(r, p)
  /\ \E x \in RowsOf(r, p) :
       /\ NeedsHash(x, stats[r][p])
       /\ x.key # Text(p)
       /\ remove' = [remove EXCEPT ![r] = @ \cup Rest(r, x) \cup {ItemOf(x)}]
  /\ add' = [add EXCEPT ![r] = @ \cup {Current(p)}]
  /\ UNCHANGED touch

(* Bug: an artifact another branch still needs is deleted.                 *)
DeleteAlways(i) == "del"

(* getComputeDeleteAddRemove.                                              *)
KindOfAdd(i)    == IF TagsOf(i.key) # {} THEN "addTag" ELSE "compute"
KindOfRemove(i) == IF Cardinality(TagsOf(i.key)) > 1 THEN "removeTag" ELSE "del"

AddOps(r)    == {OpOf(KindOfAdd(i), i) : i \in add[r]}
RemoveOps(r) == {OpOf(KindOfRemove(i), i) : i \in remove[r]}
Computes(r)  == {o \in AddOps(r) : o.kind = "compute"}

Planned(r) == pc[r] = "read" /\ files[r] = {}

(* A full refresh goes through the four lists in batches.                  *)
SplitFull(r) ==
  /\ Planned(r)
  /\ full[r]
  /\ pc' = [pc EXCEPT ![r] = "update"]
  /\ todo' = [todo EXCEPT ![r] = AddOps(r) \cup RemoveOps(r)]
  /\ UNCHANGED <<world, tables, scope, plan, batch, marked>>

(* refreshFile keeps the computes only, in one batch, and touches nothing. *)
SplitFile(r) ==
  /\ Planned(r)
  /\ ~full[r]
  /\ Computes(r) # {}
  /\ pc' = [pc EXCEPT ![r] = "update"]
  /\ batch' = [batch EXCEPT ![r] = Computes(r)]
  /\ touch' = [touch EXCEPT ![r] = {}]
  /\ UNCHANGED <<world, tables, scope, add, remove, todo, marked>>

(* With no compute it throws.                                              *)
NothingToCompute(r) ==
  /\ Planned(r)
  /\ ~full[r]
  /\ Computes(r) = {}
  /\ Forget(r)
  /\ UNCHANGED <<world, tables>>

-----------------------------------------------------------------------------
(* Updating.                                                               *)

OfKind(os, k) == {o \in os : o.kind = k}

(* batchRefreshIndexResults: the next filesPerBatch items of each list.    *)
IsBatch(os, b) ==
  \A k \in Kinds :
    LET n == Cardinality(OfKind(os, k))
    IN  Cardinality(OfKind(b, k)) = IF n < FilesPerBatch THEN n ELSE FilesPerBatch

NextBatch(r) ==
  /\ pc[r] = "update"
  /\ batch[r] = {} /\ marked[r] = {} /\ todo[r] # {}
  /\ \E b \in SUBSET todo[r] :
       /\ IsBatch(todo[r], b)
       /\ batch' = [batch EXCEPT ![r] = b]
       /\ todo' = [todo EXCEPT ![r] = @ \ b]
  /\ UNCHANGED <<world, tables, pc, scope, plan, marked>>

(* The order in which CodebaseIndex.update takes the lists.                *)
Before(k, l) ==
  \/ k = "compute" /\ l # "compute"
  \/ k = "addTag" /\ l \in {"removeTag", "del"}
  \/ k = "removeTag" /\ l = "del"

InTurn(r, o) == \A q \in batch[r] \cup marked[r] : ~Before(q.kind, o.kind)

(* Bug: Date.now() when the row is written.                                *)
LastUpdatedNow(r) == clock

(* The time stamp rows get: newLastUpdatedTimestamp.                       *)
LastUpdated(r) == stamp[r]

(* First half of markComplete for one item: the tag catalog.               *)
MarkCatalog(r, o) ==
  /\ pc[r] = "update"
  /\ o \in batch[r]
  /\ InTurn(r, o)
  /\ catalog' = [catalog EXCEPT ![tag[r]] = MarkRow(@, o, LastUpdated(r))]
  /\ batch' = [batch EXCEPT ![r] = @ \ {o}]
  /\ marked' = [marked EXCEPT ![r] = @ \cup {o}]
  /\ UNCHANGED <<world, gcache, pc, scope, plan, todo>>

(* Second half: the global cache.                                          *)
MarkGlobal(r, o) ==
  /\ o \in marked[r]
  /\ gcache' = MarkCache(gcache, o, tag[r])
  /\ marked' = [marked EXCEPT ![r] = @ \ {o}]
  /\ UNCHANGED <<world, catalog, pc, scope, plan, todo, batch>>

AllMarked(r) ==
  /\ pc[r] = "update"
  /\ todo[r] = {} /\ batch[r] = {} /\ marked[r] = {}

(* markComplete(lastUpdated, UpdateLastUpdated), one UPDATE at a time.     *)
Touch(r, i) ==
  /\ AllMarked(r)
  /\ i \in touch[r]
  /\ ~UpdateConflicts(catalog[tag[r]], i)
  /\ catalog' = [catalog EXCEPT ![tag[r]] = UpdateRows(@, i, LastUpdated(r))]
  /\ touch' = [touch EXCEPT ![r] = @ \ {i}]
  /\ UNCHANGED <<world, gcache, pc, scope, add, remove, ops>>

(* The unique index makes an UPDATE of two rows fail, and the run with it. *)
TouchFails(r) ==
  /\ AllMarked(r)
  /\ \E i \in touch[r] : UpdateConflicts(catalog[tag[r]], i)
  /\ Forget(r)
  /\ UNCHANGED <<world, tables>>

Finish(r) ==
  /\ AllMarked(r)
  /\ touch[r] = {}
  /\ Forget(r)
  /\ UNCHANGED <<world, tables>>

(* The end of a run at any await: the process dies, a statement or a read  *)
(* throws, or the abort signal is seen at the next yield.                  *)
Stop(r) ==
  /\ Active(r)
  /\ Forget(r)
  /\ UNCHANGED <<world, tables>>

-----------------------------------------------------------------------------
Init ==
  /\ clock = 1
  /\ disk \in [Paths -> [content : Contents, mtime : {1}] \cup {NoFile}]
  /\ buffer = [p \in Paths |-> NoBuffer]
  /\ branch \in Branches
  /\ catalog = [b \in Branches |-> {}]
  /\ gcache = {}
  /\ pc = [r \in Runs |-> "idle"]
  /\ full = [r \in Runs |-> FALSE]
  /\ tag = [r \in Runs |-> AnyBranch]
  /\ stats = [r \in Runs |-> NoStats]
  /\ stamp = [r \in Runs |-> 0]
  /\ files = [r \in Runs |-> {}]
  /\ saved = [r \in Runs |-> {}]
  /\ add = [r \in Runs |-> {}]
  /\ remove = [r \in Runs |-> {}]
  /\ touch = [r \in Runs |-> {}]
  /\ todo = [r \in Runs |-> {}]
  /\ batch = [r \in Runs |-> {}]
  /\ marked = [r \in Runs |-> {}]

World ==
  \/ \E p \in Paths, c \in Contents : WriteFile(p, c) \/ Edit(p, c)
  \/ \E p \in Paths : DeleteFile(p) \/ Save(p)
  \/ \E b \in Branches, new \in [Paths -> Contents \cup {NoFile}] : Checkout(b, new)

Begin(r) == Start(r) \/ \E p \in Paths : StartFile(r, p)

Progress(r) ==
  \/ GetBranch(r) \/ Stat(r) \/ Plan(r)
  \/ \E p \in Paths : \/ ReadNew(r, p) \/ SkipFresh(r, p)
                      \/ ReadSame(r, p) \/ ReadChanged(r, p)
  \/ SplitFull(r) \/ SplitFile(r) \/ NextBatch(r)
  \/ \E o \in batch[r] : MarkCatalog(r, o)
  \/ \E o \in marked[r] : MarkGlobal(r, o)
  \/ \E i \in touch[r] : Touch(r, i)

Fail(r) == StatFails(r) \/ NothingToCompute(r) \/ TouchFails(r) \/ Stop(r)

Next == World \/ \E r \in Runs : Begin(r) \/ Progress(r) \/ Finish(r) \/ Fail(r)

Spec == Init /\ [][Next]_vars

-----------------------------------------------------------------------------
TypeOK ==
  /\ clock \in Nat
  /\ disk \in [Paths -> File \cup {NoFile}]
  /\ buffer \in [Paths -> Contents \cup {NoBuffer}]
  /\ branch \in Branches
  /\ catalog \in [Branches -> SUBSET Row]
  /\ gcache \in SUBSET (Contents \X Branches)
  /\ pc \in [Runs -> Pc]
  /\ full \in [Runs -> BOOLEAN]
  /\ tag \in [Runs -> Branches]
  /\ files \in [Runs -> SUBSET Paths]
  /\ stats \in [Runs -> [Paths -> Nat]]
  /\ stamp \in [Runs -> Nat]
  /\ saved \in [Runs -> SUBSET Row]
  /\ add \in [Runs -> SUBSET Item]
  /\ remove \in [Runs -> SUBSET Item]
  /\ touch \in [Runs -> SUBSET Item]
  /\ todo \in [Runs -> SUBSET Op]
  /\ batch \in [Runs -> SUBSET Op]
  /\ marked \in [Runs -> SUBSET Op]

(* A catalog row that says "indexed at or after the file's last change"     *)
(* holds the key of the file's text: the next refresh will skip that file   *)
(* (lastUpdated < mtime is false), so a wrong key would stay until the file *)
(* is changed again.  A file with unsaved edits is excused: the row may     *)
(* describe the edits.                                                      *)
Truthful(i, t) ==
  Exists(i.path) /\ disk[i.path].mtime <= t
    => i.key = disk[i.path].content \/ buffer[i.path] # NoBuffer

FreshRowsTruthful ==
  \A b \in Branches : \A x \in catalog[b] : Truthful(x, x.last)

(* Why it holds: everything a run is going to write into the catalog is     *)
(* already true as of the run's time stamp, and no time stamp is ahead of   *)
(* the clock, so the next change of any file is later than all of them.     *)
Writes == {"compute", "addTag"}

PlansTruthful ==
  \A r \in Runs :
    /\ \A i \in add[r] \cup touch[r] : Truthful(i, stamp[r])
    /\ \A o \in todo[r] \cup batch[r] : o.kind \in Writes => Truthful(o, stamp[r])

StampsPast ==
  /\ \A r \in Runs : stamp[r] <= clock
  /\ \A b \in Branches : \A x \in catalog[b] : x.last <= clock

Unplanned == {"idle", "branch", "stat", "plan"}

NothingPlannedYet ==
  \A r \in Runs :
    /\ pc[r] \in Unplanned => add[r] = {} /\ touch[r] = {}
    /\ pc[r] # "update" => todo[r] = {} /\ batch[r] = {}

FreshInv ==
  FreshRowsTruthful /\ PlansTruthful /\ StampsPast /\ NothingPlannedYet

=============================================================================
