------------------------------ MODULE DocsIndex ------------------------------
(***************************************************************************)
(* The index of documentation sites: DocsService of                        *)
(* core/indexing/docs/DocsService.ts, over config.json, which it both      *)
(* follows and edits, a SQLite table with one row per indexed site and the *)
(* LanceDB tables with the embedded chunks, one table per embeddings       *)
(* provider.                                                               *)
(*                                                                         *)
(* A run is one call of indexAndAdd that has passed the queue, a sync one  *)
(* call of syncOrReindexAllDocs; both are slots that are used again.  What *)
(* happens between two awaits is one step.                                 *)
(***************************************************************************)
EXTENDS Naturals, Sequences, Functions

CONSTANTS
  Sites,      \* start URLs, none of them pre-indexed
  Revs,       \* the other fields of an entry: title, depth and favicon
  Providers,  \* ids of embeddings providers
  Runs,       \* bound: calls of indexAndAdd at the same time
  Syncs,      \* bound: calls of syncOrReindexAllDocs at the same time
  First,      \* the sync of init()
  Copies,     \* bound: entries of one site in the file
  Budget,     \* bound: things the user does
  None

ASSUME DocsAssumption ==
  /\ First \in Syncs
  /\ None \notin Sites \cup Providers
  /\ Copies \in Nat /\ Budget \in Nat

VARIABLES
  \* on disk
  file,      \* docs and embeddingsProvider of config.json
  sqlite,    \* sites with a row of metadata
  lance,     \* rows of chunks: their table, their site and who embedded them
  cur,       \* curEmbeddingsProviderId of the global context
  \* in memory
  dirty,     \* the file has changed since it was last loaded
  listening, \* init() has attached the listener of config updates
  config,    \* this.config
  queue, statuses,   \* docsIndexingQueue, statuses
  opened,    \* lanceTableNamesSet
  pc, job, embedder, exists,      \* the runs
  spc, seen, awaited, gone, cause, \* the syncs
  deleting,  \* calls of delete() and what each has still to delete
  budget,
  torn       \* history: sites whose rows went while their metadata could stay

disk   == <<file, sqlite, lance, cur>>
run    == <<pc, job, embedder, exists>>
sync   == <<spc, seen, awaited, gone, cause>>
memory == <<dirty, listening, config, queue, statuses, opened, run, sync, deleting>>
vars   == <<disk, memory, budget, torn>>

(* The docs of a config: the entries of each site, in order.               *)
NoDocs == [s \in Sites |-> <<>>]
Has(docs, s) == docs[s] # <<>>

Jobs  == [site : Sites, rev : Revs, reIndex : BOOLEAN, nth : 1 .. Copies]
NoJob == [site |-> None, rev |-> None, reIndex |-> FALSE, nth |-> 0]
Idle  == "idle"

BeforeTry == {"provider", "lookup", "clearRows", "clearMeta"}
InTry     == {"crawl", "embed", "clearRowsAgain", "clearMetaAgain", "favicon", "addRows", "addMeta"}

Site(r)     == job[r].site
FreeRuns    == {r \in Runs : pc[r] = Idle}
FreeSyncs   == {y \in Syncs : spc[y] = Idle /\ (listening \/ y # First)}
FreeSync    == CHOOSE y \in FreeSyncs : TRUE
Aborted(s)  == statuses[s] = "aborted"
Show(s, st) == statuses' = [statuses EXCEPT ![s] = st]
Goto(r, l)  == pc' = [pc EXCEPT ![r] = l]

-----------------------------------------------------------------------------
(* Calls of indexAndAdd.  A call whose site is in the queue does nothing;  *)
(* the queue is joined after an await, so calls made together all pass.    *)
Admitted(calls) == {c \in calls : c.site \notin queue}

CanLaunch(calls) == Injection(Admitted(calls), FreeRuns) # {}
Slots(calls)     == CHOOSE f \in Injection(Admitted(calls), FreeRuns) : TRUE
Launched(calls)  == Range(Slots(calls))

Launch(calls) ==
  /\ CanLaunch(calls)
  /\ pc'  = [r \in Runs |-> IF r \in Launched(calls) THEN "provider" ELSE pc[r]]
  /\ job' = [r \in Runs |-> IF r \in Launched(calls)
                            THEN CHOOSE c \in Admitted(calls) : Slots(calls)[c] = r ELSE job[r]]
  /\ UNCHANGED <<embedder, exists>>

CallsFor(docs, sites, re) ==
  {c \in Jobs : c.site \in sites /\ c.nth \in DOMAIN docs[c.site]
                /\ c.rev = docs[c.site][c.nth] /\ c.reIndex = re}

(* Mutant: the promise of the call is not settled.                         *)
ReturnUnsettled(r) ==
  /\ Goto(r, Idle)
  /\ job' = [job EXCEPT ![r] = NoJob]
  /\ embedder' = [embedder EXCEPT ![r] = None]
  /\ exists' = [exists EXCEPT ![r] = FALSE]
  /\ UNCHANGED sync

(* A call returns, and the syncs that await it see it settled.             *)
Return(r) ==
  /\ Goto(r, Idle)
  /\ job' = [job EXCEPT ![r] = NoJob]
  /\ embedder' = [embedder EXCEPT ![r] = None]
  /\ exists' = [exists EXCEPT ![r] = FALSE]
  /\ awaited' = [y \in Syncs |-> awaited[y] \ {r}]
  /\ UNCHANGED <<spc, seen, gone, cause>>

(* A return from inside the try statement passes its finally.              *)
Leave(r) == queue' = queue \ {Site(r)} /\ Return(r)

(* isAborted is asked before each update of the status.                    *)
Checked(r, st, Proceed) ==
  IF Aborted(Site(r)) THEN Leave(r) /\ UNCHANGED statuses
                      ELSE Show(Site(r), st) /\ Proceed

Proceeds(r, l) == Goto(r, l) /\ UNCHANGED <<queue, job, embedder, exists, sync>>

DeleteRows(s) ==
  /\ lance' = {x \in lance : ~(x.site = s /\ x.table \in opened)}
  /\ torn' = IF \E r \in Runs : pc[r] = "addMeta" /\ Site(r) = s
             THEN torn \cup {s} ELSE torn

DeleteMetadata(s) == sqlite' = sqlite \ {s}

Tear(sites) == torn' = torn \cup sites

-----------------------------------------------------------------------------
(* Runs.                                                                   *)

At(r, l) == pc[r] = l

GetProvider(r) ==
  /\ At(r, "provider")
  /\ embedder' = [embedder EXCEPT ![r] = config.e]
  /\ queue' = queue \cup {Site(r)}
  /\ Goto(r, "lookup")
  /\ UNCHANGED <<disk, dirty, listening, config, statuses, opened, job, exists, sync, deleting, budget, torn>>

(* addToConfig, and the first status inside the try statement.             *)
EnterTry(r) ==
  /\ IF Has(config.docs, Site(r))
     THEN UNCHANGED <<file, dirty>>
     ELSE /\ file' = [file EXCEPT !.docs[Site(r)] =
                        IF Len(@) < Copies THEN Append(@, job[r].rev) ELSE @]
          /\ dirty' = TRUE
  /\ Show(Site(r), "indexing")
  /\ Goto(r, "crawl")

Lookup(r) ==
  /\ At(r, "lookup")
  /\ exists' = [exists EXCEPT ![r] = Site(r) \in sqlite]
  /\ \/ /\ Site(r) \notin sqlite
        /\ EnterTry(r)
     \/ /\ Site(r) \in sqlite /\ job[r].reIndex
        /\ Goto(r, "clearRows")
        /\ UNCHANGED <<file, dirty, statuses>>
  /\ UNCHANGED <<sqlite, lance, cur, listening, config, queue, opened, job, embedder, sync, deleting, budget, torn>>

(* "Already indexed": the site stays in the queue.                         *)
AlreadyIndexed(r) ==
  /\ At(r, "lookup")
  /\ Site(r) \in sqlite /\ ~job[r].reIndex
  /\ Show(Site(r), "complete")
  /\ Return(r)
  /\ UNCHANGED <<disk, dirty, listening, config, queue, opened, deleting, budget, torn>>

ClearRows(r) ==
  /\ pc[r] \in {"clearRows", "clearRowsAgain"}
  /\ DeleteRows(Site(r))
  /\ Goto(r, IF At(r, "clearRows") THEN "clearMeta" ELSE "clearMetaAgain")
  /\ UNCHANGED <<file, sqlite, cur, dirty, listening, config, queue, statuses, opened, job, embedder, exists, sync, deleting, budget>>

ClearMeta(r) ==
  /\ At(r, "clearMeta")
  /\ DeleteMetadata(Site(r))
  /\ EnterTry(r)
  /\ UNCHANGED <<lance, cur, listening, config, queue, opened, job, embedder, exists, sync, deleting, budget, torn>>

ClearMetaAgain(r) ==
  /\ At(r, "clearMetaAgain")
  /\ DeleteMetadata(Site(r))
  /\ Goto(r, "favicon")
  /\ UNCHANGED <<file, lance, cur, dirty, listening, config, queue, statuses, opened, job, embedder, exists, sync, deleting, budget, torn>>

(* A page has been crawled, or the next article is about to be embedded.   *)
Progress(r) ==
  /\ pc[r] \in {"crawl", "embed"}
  /\ Checked(r, "indexing", Proceeds(r, pc[r]))
  /\ UNCHANGED <<disk, dirty, listening, config, opened, deleting, budget, torn>>

Crawled(r) ==
  /\ At(r, "crawl")
  /\ Goto(r, "embed")
  /\ UNCHANGED <<disk, dirty, listening, config, queue, statuses, opened, job, embedder, exists, sync, deleting, budget, torn>>

(* Mutant: the failure is not shown.                                       *)
NothingEmbeddedSilent(r) ==
  /\ At(r, "embed")
  /\ Leave(r)
  /\ UNCHANGED <<disk, dirty, listening, config, statuses, opened, deleting, budget, torn>>

(* The embedding of an article may fail; without any there is nothing to   *)
(* store.                                                                  *)
NothingEmbedded(r) ==
  /\ At(r, "embed")
  /\ Checked(r, "failed", Leave(r))
  /\ UNCHANGED <<disk, dirty, listening, config, opened, deleting, budget, torn>>

Embedded(r) ==
  /\ At(r, "embed")
  /\ Checked(r, "indexing",
             Proceeds(r, IF job[r].reIndex /\ exists[r] THEN "clearRowsAgain" ELSE "favicon"))
  /\ UNCHANGED <<disk, dirty, listening, config, opened, deleting, budget, torn>>

GotFavicon(r) ==
  /\ At(r, "favicon")
  /\ Checked(r, "indexing", Proceeds(r, "addRows"))
  /\ UNCHANGED <<disk, dirty, listening, config, opened, deleting, budget, torn>>

(* Mutant: rows are added only where a table has to be created for them.   *)
AddRowsToNewTable(r) ==
  /\ At(r, "addRows")
  /\ opened' = opened \cup {config.e}
  /\ lance' = lance \cup {[table |-> e, site |-> Site(r), by |-> embedder[r]] : e \in {config.e} \ opened}
  /\ Goto(r, "addMeta")
  /\ UNCHANGED <<file, sqlite, cur, dirty, listening, config, queue, statuses, job, embedder, exists, sync, deleting, budget, torn>>

(* addToLance: the table is that of the provider configured by now.        *)
AddRows(r) ==
  /\ At(r, "addRows")
  /\ opened' = opened \cup {config.e}
  /\ lance' = lance \cup {[table |-> config.e, site |-> Site(r), by |-> embedder[r]]}
  /\ Goto(r, "addMeta")
  /\ UNCHANGED <<file, sqlite, cur, dirty, listening, config, queue, statuses, job, embedder, exists, sync, deleting, budget, torn>>

(* addMetadataToSqlite: startUrl is UNIQUE, a second row is refused.       *)
AddMetadata(r) ==
  /\ At(r, "addMeta")
  /\ Site(r) \notin sqlite
  /\ sqlite' = sqlite \cup {Site(r)}
  /\ Checked(r, "complete", Leave(r))
  /\ UNCHANGED <<file, lance, cur, dirty, listening, config, opened, deleting, budget, torn>>

(* A file, a database or the network fails.  Before the try statement the  *)
(* call rejects and the site stays in the queue.                           *)
Rejects(r) ==
  /\ pc[r] \in BeforeTry \ {"provider"}
  /\ Tear({Site(r)} \cap IF At(r, "clearMeta") THEN Sites ELSE {})
  /\ Return(r)
  /\ UNCHANGED <<disk, dirty, listening, config, queue, statuses, opened, deleting, budget>>

Throws(r) ==
  /\ pc[r] \in InTry
  /\ Tear({Site(r)} \cap IF At(r, "clearMetaAgain") THEN Sites ELSE {})
  /\ Show(Site(r), "failed")
  /\ Leave(r)
  /\ UNCHANGED <<disk, dirty, listening, config, opened, deleting, budget>>

RunStep(r) ==
  \/ GetProvider(r) \/ Lookup(r) \/ AlreadyIndexed(r) \/ ClearRows(r) \/ ClearMeta(r)
  \/ Crawled(r) \/ Embedded(r) \/ NothingEmbedded(r) \/ ClearMetaAgain(r)
  \/ GotFavicon(r) \/ AddRows(r) \/ AddMetadata(r) \/ Rejects(r) \/ Throws(r)

-----------------------------------------------------------------------------
(* Syncs.                                                                  *)

Start(y, old, new) ==
  /\ spc' = [spc EXCEPT ![y] = "begin"]
  /\ seen' = [seen EXCEPT ![y] = [old |-> old, new |-> new]]
  /\ UNCHANGED <<awaited, gone, cause>>

End(y) ==
  /\ spc' = [spc EXCEPT ![y] = Idle]
  /\ seen' = [seen EXCEPT ![y] = [old |-> NoDocs, new |-> NoDocs]]
  /\ awaited' = [awaited EXCEPT ![y] = {}]
  /\ gone' = [gone EXCEPT ![y] = {}]
  /\ cause' = [cause EXCEPT ![y] = None]
  /\ listening' = (listening \/ y = First)

(* The watcher of the file reloads the config.  While init() awaits its    *)
(* first sync nobody listens.                                              *)
Reload ==
  /\ dirty /\ listening
  /\ FreeSyncs # {}
  /\ dirty' = FALSE
  /\ config' = file
  /\ Start(FreeSync, config.docs, file.docs)
  /\ UNCHANGED <<disk, listening, queue, statuses, opened, run, deleting, budget, torn>>

ReloadUnheard ==
  /\ dirty /\ ~listening
  /\ dirty' = FALSE
  /\ UNCHANGED <<disk, listening, config, queue, statuses, opened, run, sync, deleting, budget, torn>>

NewProvider == cur # config.e /\ sqlite # {}

LaunchAndAwait(y, l, calls) ==
  /\ Launch(calls)
  /\ spc' = [spc EXCEPT ![y] = l]
  /\ awaited' = [awaited EXCEPT ![y] = Launched(calls)]

(* reindexDocsOnNewEmbeddingsProvider: the calls do not ask for a reindex. *)
ReembedAll(y) ==
  /\ spc[y] = "begin"
  /\ NewProvider
  /\ \/ /\ config.docs = NoDocs
        /\ End(y)
        /\ UNCHANGED run
     \/ /\ config.docs # NoDocs
        /\ LaunchAndAwait(y, "reembed", CallsFor(config.docs, Sites, FALSE))
        /\ cause' = [cause EXCEPT ![y] = config.e]
        /\ UNCHANGED <<listening, seen, gone>>
  /\ UNCHANGED <<disk, dirty, config, queue, statuses, opened, deleting, budget, torn>>

Changed(y) == {s \in sqlite : Has(seen[y].new, s) /\ Has(seen[y].old, s)
                              /\ \E i \in DOMAIN seen[y].new[s] : seen[y].new[s][i] # seen[y].old[s][1]}
Unchanged(y) == {s \in sqlite : Has(seen[y].new, s)} \ Changed(y)

(* syncDocsOnConfigUpdate up to the calls it awaits.                       *)
SyncDocs(y) ==
  /\ spc[y] = "begin"
  /\ ~NewProvider
  /\ statuses' = [s \in Sites |-> IF s \in Unchanged(y) THEN "complete" ELSE statuses[s]]
  /\ gone' = [gone EXCEPT ![y] = {s \in sqlite : ~Has(seen[y].new, s)}]
  /\ LaunchAndAwait(y, "sync", CallsFor(seen[y].new, Changed(y), TRUE)
                                \cup CallsFor(seen[y].new, Sites \ sqlite, FALSE))
  /\ UNCHANGED <<disk, dirty, listening, config, queue, opened, seen, cause, deleting, budget, torn>>

(* Promise.allSettled.                                                     *)
Reembedded(y) ==
  /\ spc[y] = "reembed" /\ awaited[y] = {}
  /\ cur' = cause[y]
  /\ End(y)
  /\ UNCHANGED <<file, sqlite, lance, dirty, config, queue, statuses, opened, run, deleting, budget, torn>>

Synced(y) ==
  /\ spc[y] = "sync" /\ awaited[y] = {}
  /\ \/ gone[y] = {} /\ End(y)
     \/ /\ gone[y] # {}
        /\ spc' = [spc EXCEPT ![y] = "rows"]
        /\ UNCHANGED <<listening, seen, awaited, gone, cause>>
  /\ UNCHANGED <<disk, dirty, config, queue, statuses, opened, run, deleting, budget, torn>>

NextGone(y) == CHOOSE s \in gone[y] : TRUE

SyncDeletesRows(y) ==
  /\ spc[y] = "rows"
  /\ DeleteRows(NextGone(y))
  /\ spc' = [spc EXCEPT ![y] = "meta"]
  /\ UNCHANGED <<file, sqlite, cur, dirty, listening, config, queue, statuses, opened, run,
                 seen, awaited, gone, cause, deleting, budget>>

SyncDeletesMetadata(y) ==
  /\ spc[y] = "meta"
  /\ DeleteMetadata(NextGone(y))
  /\ \/ gone[y] = {NextGone(y)} /\ End(y)
     \/ /\ gone[y] # {NextGone(y)}
        /\ spc' = [spc EXCEPT ![y] = "rows"]
        /\ gone' = [gone EXCEPT ![y] = @ \ {NextGone(y)}]
        /\ UNCHANGED <<listening, seen, awaited, cause>>
  /\ UNCHANGED <<file, lance, cur, dirty, config, queue, statuses, opened, run, deleting, budget, torn>>

SyncThrows(y) ==
  /\ spc[y] \in {"rows", "meta"}
  /\ Tear(IF spc[y] = "meta" THEN {NextGone(y)} ELSE {})
  /\ End(y)
  /\ UNCHANGED <<disk, dirty, config, queue, statuses, opened, run, deleting, budget>>

SyncStep(y) ==
  \/ ReembedAll(y) \/ SyncDocs(y) \/ Reembedded(y) \/ Synced(y)
  \/ SyncDeletesRows(y) \/ SyncDeletesMetadata(y) \/ SyncThrows(y)

-----------------------------------------------------------------------------
(* What the user does.                                                     *)

Spend == budget > 0 /\ budget' = budget - 1

(* context/addDocs and indexing/reindex.                                   *)
Call(calls) ==
  /\ Launch(calls)
  /\ UNCHANGED <<disk, dirty, listening, config, queue, statuses, opened, sync, deleting, torn>>

AddDocs(s) ==
  \E rev \in Revs : Spend /\ Call({[site |-> s, rev |-> rev, reIndex |-> FALSE, nth |-> 1]})

ReindexDoc(s) ==
  /\ Spend
  /\ Has(config.docs, s)
  /\ Call({[site |-> s, rev |-> config.docs[s][1], reIndex |-> TRUE, nth |-> 1]})

(* indexing/abort.                                                         *)
Abort(s) ==
  /\ Spend
  /\ statuses[s] # "none"
  /\ queue' = queue \ {s}
  /\ Show(s, "aborted")
  /\ UNCHANGED <<disk, dirty, listening, config, opened, run, sync, deleting, torn>>

(* context/removeDocs: two deletions, then the config and the status.      *)
RemoveDocs(s) ==
  /\ Spend
  /\ deleting' = deleting \cup {[site |-> s, half |-> FALSE]}
  /\ UNCHANGED <<disk, dirty, listening, config, queue, statuses, opened, run, sync, torn>>

RemoveRows(d) ==
  /\ ~d.half
  /\ DeleteRows(d.site)
  /\ deleting' = (deleting \ {d}) \cup {[d EXCEPT !.half = TRUE]}
  /\ UNCHANGED <<file, sqlite, cur, dirty, listening, config, queue, statuses, opened, run, sync, budget>>

RemoveMetadata(d) ==
  /\ d.half
  /\ DeleteMetadata(d.site)
  /\ deleting' = deleting \ {d}
  /\ IF Has(config.docs, d.site)
     THEN file' = [file EXCEPT !.docs[d.site] = <<>>] /\ dirty' = TRUE
     ELSE UNCHANGED <<file, dirty>>
  /\ IF statuses[d.site] = "none" THEN UNCHANGED statuses ELSE Show(d.site, "deleted")
  /\ UNCHANGED <<lance, cur, listening, config, queue, opened, run, sync, budget, torn>>

(* config.json is edited by hand.                                          *)
EditFile ==
  /\ Spend
  /\ \/ \E s \in Sites, e \in {<<>>} \cup {<<rev>> : rev \in Revs} : file' = [file EXCEPT !.docs[s] = e]
     \/ \E e \in Providers : file' = [file EXCEPT !.e = e]
  /\ dirty' = TRUE
  /\ UNCHANGED <<sqlite, lance, cur, listening, config, queue, statuses, opened, run, sync, deleting, torn>>

(* context/indexDocs, the command "Devscode: Docs Index".                  *)
IndexDocs ==
  /\ Spend
  /\ FreeSyncs # {}
  /\ Start(FreeSync, NoDocs, config.docs)
  /\ UNCHANGED <<disk, dirty, listening, config, queue, statuses, opened, run, deleting, torn>>

(* docs/initStatuses.                                                      *)
InitStatuses ==
  /\ Spend
  /\ statuses' = [s \in Sites |->
       IF Has(config.docs, s) /\ statuses[s] = "none"
       THEN IF s \in sqlite THEN "pending" ELSE "complete"
       ELSE statuses[s]]
  /\ UNCHANGED <<disk, dirty, listening, config, queue, opened, run, sync, deleting, torn>>

(* A query with @docs opens the table of the configured provider.          *)
RetrieveChunks ==
  /\ Spend
  /\ opened' = opened \cup {config.e}
  /\ UNCHANGED <<disk, dirty, listening, config, queue, statuses, run, sync, deleting, torn>>

HalfDeleted ==
  {Site(r) : r \in {x \in Runs : pc[x] \in {"clearMeta", "clearMetaAgain"}}}
  \cup {NextGone(y) : y \in {x \in Syncs : spc[x] = "meta"}}
  \cup {d.site : d \in {x \in deleting : x.half}}

Restart ==
  /\ Spend
  /\ Tear(HalfDeleted)
  /\ dirty' = FALSE /\ listening' = FALSE /\ config' = file
  /\ queue' = {} /\ statuses' = [s \in Sites |-> "none"] /\ opened' = {} /\ deleting' = {}
  /\ pc' = [r \in Runs |-> Idle]
  /\ awaited' = [y \in Syncs |-> {}] /\ gone' = [y \in Syncs |-> {}]
  /\ cause' = [y \in Syncs |-> None]
  /\ spc' = [y \in Syncs |-> IF y = First THEN "begin" ELSE Idle]
  /\ seen' = [y \in Syncs |-> [old |-> NoDocs, new |-> IF y = First THEN file.docs ELSE NoDocs]]
  /\ job' = [r \in Runs |-> NoJob]
  /\ embedder' = [r \in Runs |-> None] /\ exists' = [r \in Runs |-> FALSE]
  /\ UNCHANGED disk

User ==
  \/ \E s \in Sites : AddDocs(s) \/ ReindexDoc(s) \/ Abort(s) \/ RemoveDocs(s)
  \/ IndexDocs \/ EditFile \/ InitStatuses \/ RetrieveChunks \/ Restart

-----------------------------------------------------------------------------
(* A start over what an earlier session has left on disk: perhaps entries  *)
(* in the config, some of them indexed.                                    *)
Init ==
  /\ \E e \in Providers, docs \in [Sites -> {<<>>} \cup {<<rev>> : rev \in Revs}] :
       file = [docs |-> docs, e |-> e]
  /\ sqlite \in SUBSET {s \in Sites : Has(file.docs, s)}
  /\ lance = {[table |-> file.e, site |-> s, by |-> file.e] : s \in sqlite}
  /\ cur \in {None, file.e}
  /\ dirty = FALSE /\ listening = FALSE /\ config = file
  /\ queue = {} /\ statuses = [s \in Sites |-> "none"] /\ opened = {} /\ deleting = {}
  /\ pc = [r \in Runs |-> Idle] /\ job = [r \in Runs |-> NoJob]
  /\ embedder = [r \in Runs |-> None] /\ exists = [r \in Runs |-> FALSE]
  /\ spc = [y \in Syncs |-> IF y = First THEN "begin" ELSE Idle]
  /\ seen = [y \in Syncs |-> [old |-> NoDocs, new |-> IF y = First THEN file.docs ELSE NoDocs]]
  /\ awaited = [y \in Syncs |-> {}] /\ gone = [y \in Syncs |-> {}]
  /\ cause = [y \in Syncs |-> None]
  /\ budget = Budget /\ torn = {}

System ==
  \/ \E r \in Runs : RunStep(r)
  \/ \E y \in Syncs : SyncStep(y)
  \/ Reload \/ ReloadUnheard
  \/ \E d \in deleting : RemoveRows(d) \/ RemoveMetadata(d)

Next == System \/ User \/ \E r \in Runs : Progress(r)

Spec == Init /\ [][Next]_vars

(* Every await is answered, a crawl has an end, and the watcher of the     *)
(* file polls.                                                             *)
Fairness ==
  /\ \A r \in Runs : WF_vars(RunStep(r))
  /\ \A y \in Syncs : WF_vars(SyncStep(y))
  /\ WF_vars(Reload) /\ WF_vars(ReloadUnheard)
  /\ WF_vars(\E d \in deleting : RemoveRows(d) \/ RemoveMetadata(d))

FairSpec == Spec /\ Fairness

-----------------------------------------------------------------------------
(* A site shown as being indexed has a run that will put an end to it:     *)
(* aborting a run, starting another one, a failure of any step and two     *)
(* runs at once never leave the spinner of the docs list turning alone.    *)
SpinnerHasARun ==
  \A s \in Sites : statuses[s] = "indexing" => \E r \in Runs : Site(r) = s /\ pc[r] \in InTry

(* Rows are added before and deleted before the metadata, so that a site   *)
(* known to be indexed has rows to search, also after a crash in the       *)
(* middle of indexing it.  What can break it is a deletion: one that is    *)
(* half done, that never did its second half, or that took the rows of a   *)
(* run about to add the metadata.                                          *)
IndexedSitesHaveRows ==
  \A s \in sqlite : (\E x \in lance : x.site = s) \/ s \in HalfDeleted \cup torn

(* The circle of config edits and syncs stops: a run edits the config,     *)
(* which starts syncs, which start runs, yet once the user has finished    *)
(* everything comes to rest, whichever runs fail.                          *)
Quiet ==
  /\ ~dirty /\ deleting = {}
  /\ \A r \in Runs : pc[r] = Idle
  /\ \A y \in Syncs : spc[y] = Idle

ComesToRest == <>[]Quiet

=============================================================================
