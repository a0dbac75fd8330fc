--------------------------- MODULE DocsIndexProofs ---------------------------
(***************************************************************************)
(* What the list of documentation sites and the tables of their chunks     *)
(* promise, for any number of sites, runs and syncs: a spinner belongs to a *)
(* run, and an indexed site has rows.                                      *)
(***************************************************************************)
EXTENDS DocsIndex, TLAPS

USE DEF disk, run, sync, Goto, Show, At, Site, Aborted, Idle

-----------------------------------------------------------------------------
(* Types.                                                                  *)

Docs  == [Sites -> Seq(Revs)]
Confs == [docs : Docs, e : Providers]
Calls == [site : Sites, rev : Revs, reIndex : BOOLEAN, nth : Nat]
Steps == {Idle} \cup BeforeTry \cup InTry
Shown == {"none", "pending", "indexing", "complete", "failed", "aborted", "deleted"}

DiskType ==
  /\ file \in Confs
  /\ sqlite \subseteq Sites
  /\ torn \subseteq Sites

MemoryType ==
  /\ config \in Confs
  /\ statuses \in [Sites -> Shown]
  /\ deleting \subseteq [site : Sites, half : BOOLEAN]

(* A run that has started knows its job.                                   *)
RunType ==
  /\ pc \in [Runs -> Steps]
  /\ job \in [Runs -> Calls \cup {NoJob}]
  /\ \A r \in Runs : pc[r] # Idle => job[r] \in Calls

(* A sync that deletes has a site left to delete.                          *)
SyncType ==
  /\ spc \in [Syncs -> {Idle, "begin", "reembed", "sync", "rows", "meta"}]
  /\ seen \in [Syncs -> [old : Docs, new : Docs]]
  /\ gone \in [Syncs -> SUBSET Sites]
  /\ \A y \in Syncs : spc[y] \in {"rows", "meta"} => gone[y] # {}

TypeOK == DiskType /\ MemoryType /\ RunType /\ SyncType

(* A run about to add the metadata has added rows; only a deletion takes   *)
(* them away again.                                                        *)
AddMetaInv ==
  \A r \in Runs : At(r, "addMeta") => (\E x \in lance : x.site = Site(r)) \/ Site(r) \in torn

Inv == TypeOK /\ SpinnerHasARun /\ AddMetaInv /\ IndexedSitesHaveRows

-----------------------------------------------------------------------------
(* Launching calls disturbs no run under way.                              *)

RunsGoOn ==
  \A r \in Runs : \/ pc'[r] = pc[r] /\ job'[r] = job[r]
                  \/ pc[r] = Idle /\ pc'[r] = "provider"

LEMMA SlotsAreFree ==
  ASSUME NEW calls, CanLaunch(calls)
  PROVE  /\ Launched(calls) \subseteq FreeRuns
         /\ \A r \in Launched(calls) : (CHOOSE c \in Admitted(calls) : Slots(calls)[c] = r) \in calls
<1>1. Slots(calls) \in [Admitted(calls) -> FreeRuns]
  BY DEF CanLaunch, Slots, Injection
<1>2. \A r \in Launched(calls) : \E c \in Admitted(calls) : Slots(calls)[c] = r
  BY <1>1 DEF Launched, Range
<1>3. Admitted(calls) \subseteq calls
  BY DEF Admitted
<1>4. QED BY <1>1, <1>2, <1>3 DEF Launched, Range

LEMMA LaunchGoesOn == ASSUME RunType, NEW calls, Launch(calls) PROVE RunsGoOn
<1>1. Launched(calls) \subseteq FreeRuns
  BY SlotsAreFree DEF Launch
<1>2. QED BY <1>1 DEF Launch, RunsGoOn, FreeRuns, RunType

LEMMA LaunchType ==
  ASSUME RunType, NEW calls, calls \subseteq Calls, Launch(calls) PROVE RunType'
<1>1. /\ Launched(calls) \subseteq FreeRuns
      /\ \A r \in Launched(calls) : (CHOOSE c \in Admitted(calls) : Slots(calls)[c] = r) \in Calls
  BY SlotsAreFree DEF Launch
<1>2. ASSUME NEW r \in Runs
      PROVE  \/ job'[r] = job[r] /\ pc'[r] = pc[r]
             \/ job'[r] \in Calls /\ pc'[r] = "provider"
  <2>1. CASE r \in Launched(calls)
    BY <1>1, <2>1, Zenon DEF Launch
  <2>2. CASE r \notin Launched(calls)
    BY <2>2 DEF Launch
  <2>3. QED BY <2>1, <2>2
<1>3. /\ pc' = [r \in Runs |-> pc'[r]] /\ job' = [r \in Runs |-> job'[r]]
  BY DEF Launch
<1>4. QED BY <1>2, <1>3 DEF RunType, Steps, BeforeTry

-----------------------------------------------------------------------------
(* A first site to delete depends only on the sites still to delete.       *)

LEMMA NextGoneFacts ==
  /\ \A y \in Syncs : gone[y] # {} => NextGone(y) \in gone[y]
  /\ \A y \in Syncs : gone'[y] = gone[y] => NextGone(y)' = NextGone(y)
  BY DEF NextGone

HalfRun(s)  == \E r \in Runs : pc[r] \in {"clearMeta", "clearMetaAgain"} /\ Site(r) = s
HalfSync(s) == \E y \in Syncs : spc[y] = "meta" /\ NextGone(y) = s
HalfCall(s) == \E d \in deleting : d.half /\ d.site = s

LEMMA HalfParts ==
  /\ \A s : s \in HalfDeleted <=> HalfRun(s) \/ HalfSync(s) \/ HalfCall(s)
  /\ \A s : s \in HalfDeleted' <=> HalfRun(s)' \/ HalfSync(s)' \/ HalfCall(s)'
  BY DEF HalfDeleted, HalfRun, HalfSync, HalfCall

-----------------------------------------------------------------------------
(* Steps that end a call or pass a check.                                  *)

LEMMA ReturnType ==
  ASSUME RunType, NEW r \in Runs, Return(r) PROVE RunType'
  BY DEF Return, RunType, Steps

LEMMA CheckedType ==
  ASSUME TypeOK, NEW r \in Runs, pc[r] # Idle,
         NEW st \in Shown, NEW l \in InTry, Checked(r, st, Proceeds(r, l))
  PROVE  RunType' /\ statuses' \in [Sites -> Shown] /\ UNCHANGED <<spc, seen, gone>>
<1>1. CASE Aborted(Site(r))
  BY <1>1, ReturnType DEF Checked, Leave, Return, TypeOK, MemoryType
<1>2. CASE ~Aborted(Site(r))
  BY <1>2 DEF Checked, Proceeds, TypeOK, RunType, MemoryType, Steps
<1>3. QED BY <1>1, <1>2

LEMMA CheckedEndType ==
  ASSUME TypeOK, NEW r \in Runs, pc[r] # Idle,
         NEW st \in Shown, Checked(r, st, Leave(r))
  PROVE  RunType' /\ statuses' \in [Sites -> Shown] /\ UNCHANGED <<spc, seen, gone>>
  BY ReturnType DEF Checked, Leave, Return, TypeOK, MemoryType

LEMMA EnterTryType ==
  ASSUME TypeOK, NEW r \in Runs, pc[r] # Idle, EnterTry(r)
  PROVE  /\ file' \in Confs /\ statuses' \in [Sites -> Shown]
         /\ job' = job => RunType'
<1>1. job[r] \in Calls
  BY DEF TypeOK, RunType
<1>2. file' \in Confs
  <2>1. CASE Has(config.docs, Site(r))
    BY <2>1 DEF EnterTry, TypeOK, DiskType
  <2>2. CASE ~Has(config.docs, Site(r))
    <3>1. PICK e : file' = [file EXCEPT !.docs[Site(r)] = e] /\ e \in Seq(Revs)
      <4>1. /\ file.docs[Site(r)] \in Seq(Revs)
            /\ Append(file.docs[Site(r)], job[r].rev) \in Seq(Revs)
        BY <1>1 DEF TypeOK, DiskType, Confs, Docs, Calls
      <4>2. QED BY <2>2, <4>1 DEF EnterTry
    <3>2. QED BY <3>1 DEF TypeOK, DiskType, Confs, Docs
  <2>3. QED BY <2>1, <2>2
<1>3. statuses' \in [Sites -> Shown]
  BY DEF EnterTry, TypeOK, MemoryType, Shown
<1>4. job' = job => RunType'
  BY DEF EnterTry, TypeOK, RunType, Steps, InTry
<1>5. QED BY <1>2, <1>3, <1>4

LEMMA RunStepType ==
  ASSUME TypeOK, NEW r \in Runs, RunStep(r) \/ Progress(r) PROVE TypeOK'
<1> USE DEF TypeOK, DiskType, MemoryType, SyncType
<1>0. ASSUME pc[r] # Idle PROVE job[r] \in Calls /\ Site(r) \in Sites
  BY <1>0 DEF RunType, Calls
<1>1. CASE GetProvider(r)
  BY <1>1 DEF GetProvider, RunType, Steps, BeforeTry
<1>2. CASE Lookup(r)
  <2>1. CASE EnterTry(r)
    BY <1>2, <2>1, EnterTryType DEF Lookup
  <2>2. CASE Goto(r, "clearRows") /\ UNCHANGED <<file, dirty, statuses>>
    BY <1>2, <2>2 DEF Lookup, RunType, Steps, BeforeTry
  <2>3. QED BY <1>2, <2>1, <2>2 DEF Lookup
<1>3. CASE AlreadyIndexed(r)
  BY <1>3, ReturnType DEF AlreadyIndexed, Return, Shown
<1>4. CASE ClearRows(r)
  <2>1. torn' \subseteq Sites
    BY <1>4, <1>0 DEF ClearRows, DeleteRows
  <2>2. RunType'
    BY <1>4 DEF ClearRows, RunType, Steps, BeforeTry, InTry
  <2>3. QED BY <1>4, <2>1, <2>2 DEF ClearRows
<1>5. CASE ClearMeta(r)
  BY <1>5, EnterTryType DEF ClearMeta, DeleteMetadata
<1>6. CASE Crawled(r)
  BY <1>6 DEF Crawled, RunType, Steps, InTry
<1>7. CASE Embedded(r)
  <2>1. PICK l \in InTry : Checked(r, "indexing", Proceeds(r, l))
    BY <1>7 DEF Embedded, InTry
  <2>2. QED BY <1>7, <2>1, CheckedType DEF Embedded, Shown
<1>8. CASE NothingEmbedded(r)
  BY <1>8, CheckedEndType DEF NothingEmbedded, Shown
<1>9. CASE ClearMetaAgain(r)
  BY <1>9 DEF ClearMetaAgain, DeleteMetadata, RunType, Steps, InTry
<1>10. CASE GotFavicon(r)
  BY <1>10, CheckedType DEF GotFavicon, Shown, InTry
<1>11. CASE AddRows(r)
  BY <1>11 DEF AddRows, RunType, Steps, InTry
<1>12. CASE AddMetadata(r)
  BY <1>0, <1>12, CheckedEndType DEF AddMetadata, Shown
<1>13. CASE Rejects(r)
  BY <1>0, <1>13, ReturnType DEF Rejects, Return, Tear, BeforeTry
<1>14. CASE Throws(r)
  BY <1>0, <1>14, ReturnType DEF Throws, Leave, Return, Tear, InTry, Shown
<1>15. CASE Progress(r)
  BY <1>15, CheckedType DEF Progress, Shown, InTry
<1>16. QED
  BY <1>1, <1>2, <1>3, <1>4, <1>5, <1>6, <1>7, <1>8, <1>9, <1>10, <1>11, <1>12, <1>13, <1>14, <1>15
  DEF RunStep

LEMMA CallsAreTyped ==
  ASSUME NEW docs, NEW sites, NEW re PROVE CallsFor(docs, sites, re) \subseteq Calls
  BY DEF CallsFor, Jobs, Calls

LEMMA EndType == ASSUME SyncType, NEW y \in Syncs, End(y) PROVE SyncType'
<1>1. NoDocs \in Docs
  BY DEF NoDocs, Docs
<1>2. QED BY <1>1 DEF End, SyncType

LEMMA StartType ==
  ASSUME SyncType, NEW y \in Syncs, NEW old \in Docs, NEW new \in Docs, Start(y, old, new)
  PROVE  SyncType'
  BY DEF Start, SyncType

LEMMA FreeSyncIsFree == FreeSyncs # {} => FreeSync \in Syncs /\ spc[FreeSync] = Idle
  BY DEF FreeSyncs, FreeSync

LEMMA SyncStepType == ASSUME TypeOK, NEW y \in Syncs, SyncStep(y) PROVE TypeOK'
<1> USE DEF TypeOK, DiskType, MemoryType
<1>0. spc[y] \in {"rows", "meta"} => NextGone(y) \in gone[y] /\ NextGone(y) \in Sites
  BY NextGoneFacts DEF SyncType
<1>1. CASE ReembedAll(y)
  <2>1. CASE End(y) /\ UNCHANGED run
    BY <1>1, <2>1, EndType DEF ReembedAll, RunType
  <2>2. CASE LaunchAndAwait(y, "reembed", CallsFor(config.docs, Sites, FALSE)) /\ UNCHANGED <<seen, gone>>
    <3>1. RunType'
      BY <2>2, CallsAreTyped, LaunchType DEF LaunchAndAwait
    <3>2. SyncType'
      BY <2>2 DEF LaunchAndAwait, SyncType
    <3>3. QED BY <1>1, <3>1, <3>2 DEF ReembedAll
  <2>3. QED BY <1>1, <2>1, <2>2 DEF ReembedAll
<1>2. CASE SyncDocs(y)
  <2> DEFINE calls == CallsFor(seen[y].new, Changed(y), TRUE) \cup CallsFor(seen[y].new, Sites \ sqlite, FALSE)
  <2>1. RunType'
    <3>1. calls \subseteq Calls
      BY CallsAreTyped
    <3>2. Launch(calls)
      BY <1>2 DEF SyncDocs, LaunchAndAwait
    <3>3. QED BY <3>1, <3>2, LaunchType
  <2>2. SyncType'
    BY <1>2 DEF SyncDocs, LaunchAndAwait, SyncType
  <2>3. statuses' \in [Sites -> Shown]
    BY <1>2 DEF SyncDocs, Shown
  <2>4. QED BY <1>2, <2>1, <2>2, <2>3 DEF SyncDocs
<1>3. CASE Reembedded(y)
  BY <1>3, EndType DEF Reembedded, RunType
<1>4. CASE Synced(y)
  <2>1. CASE End(y)
    BY <1>4, <2>1, EndType DEF Synced, RunType
  <2>2. CASE ~End(y)
    BY <1>4, <2>2 DEF Synced, RunType, SyncType
  <2>3. QED BY <2>1, <2>2
<1>5. CASE SyncDeletesRows(y)
  BY <1>5, <1>0 DEF SyncDeletesRows, DeleteRows, RunType, SyncType
<1>6. CASE SyncDeletesMetadata(y)
  <2>1. SyncType'
    <3>1. CASE End(y)
      BY <3>1, EndType
    <3>2. CASE ~End(y)
      BY <1>6, <3>2, <1>0 DEF SyncDeletesMetadata, SyncType
    <3>3. QED BY <3>1, <3>2
  <2>2. QED BY <1>6, <2>1 DEF SyncDeletesMetadata, DeleteMetadata, RunType
<1>7. CASE SyncThrows(y)
  BY <1>7, <1>0, EndType DEF SyncThrows, Tear, RunType
<1>8. QED BY <1>1, <1>2, <1>3, <1>4, <1>5, <1>6, <1>7 DEF SyncStep

LEMMA DeletingType ==
  ASSUME TypeOK, NEW d \in deleting, RemoveRows(d) \/ RemoveMetadata(d) PROVE TypeOK'
<1> USE DEF TypeOK, DiskType, MemoryType, RunType, SyncType
<1>0. d \in [site : Sites, half : BOOLEAN]
  OBVIOUS
<1>1. CASE RemoveRows(d)
  BY <1>0, <1>1 DEF RemoveRows, DeleteRows
<1>2. CASE RemoveMetadata(d)
  <2>1. file' \in Confs
    <3>1. [file EXCEPT !.docs[d.site] = <<>>] \in Confs
      <4>1. <<>> \in Seq(Revs)
        OBVIOUS
      <4>2. QED BY <4>1 DEF Confs, Docs
    <3>2. QED BY <1>2, <3>1 DEF RemoveMetadata
  <2>2. statuses' \in [Sites -> Shown]
    BY <1>0, <1>2 DEF RemoveMetadata, Shown
  <2>3. QED BY <1>2, <2>1, <2>2 DEF RemoveMetadata, DeleteMetadata
<1>3. QED BY <1>1, <1>2

LEMMA HalfDeletedTyped == ASSUME TypeOK PROVE HalfDeleted \subseteq Sites
<1>1. ASSUME NEW r \in Runs, pc[r] \in {"clearMeta", "clearMetaAgain"} PROVE Site(r) \in Sites
  BY <1>1 DEF TypeOK, RunType, Calls
<1>2. ASSUME NEW y \in Syncs, spc[y] = "meta" PROVE NextGone(y) \in Sites
  BY <1>2, NextGoneFacts DEF TypeOK, SyncType
<1>3. ASSUME NEW d \in deleting PROVE d.site \in Sites
  BY <1>3 DEF TypeOK, MemoryType
<1>4. QED BY <1>1, <1>2, <1>3 DEF HalfDeleted

LEMMA RestTyped == ASSUME TypeOK, User \/ Reload \/ ReloadUnheard PROVE TypeOK'
<1> USE DEF TypeOK, DiskType, MemoryType
<1>1. ASSUME NEW s \in Sites, AddDocs(s) \/ ReindexDoc(s) PROVE TypeOK'
  <2>1. PICK call \in Calls : Call({call})
    <3>1. CASE AddDocs(s)
      BY <3>1 DEF AddDocs, Calls
    <3>2. CASE ReindexDoc(s)
      <4>1. config.docs[s][1] \in Revs
        BY <3>2 DEF ReindexDoc, Has, Confs, Docs
      <4>2. QED BY <3>2, <4>1 DEF ReindexDoc, Calls
    <3>3. QED BY <1>1, <3>1, <3>2
  <2>2. RunType'
    BY <2>1, LaunchType DEF Call
  <2>3. QED BY <2>1, <2>2 DEF Call, SyncType
<1>2. ASSUME NEW s \in Sites, Abort(s) \/ RemoveDocs(s) PROVE TypeOK'
  <2>1. CASE Abort(s)
    <3>1. statuses' \in [Sites -> Shown]
      BY <2>1 DEF Abort, Shown
    <3>2. QED BY <2>1, <3>1 DEF Abort, RunType, SyncType
  <2>2. CASE RemoveDocs(s)
    <3>1. deleting' \subseteq [site : Sites, half : BOOLEAN]
      <4>1. [site |-> s, half |-> FALSE] \in [site : Sites, half : BOOLEAN]
        OBVIOUS
      <4>2. QED BY <2>2, <4>1 DEF RemoveDocs
    <3>2. QED BY <2>2, <3>1 DEF RemoveDocs, RunType, SyncType
  <2>3. QED BY <1>2, <2>1, <2>2
<1>3. CASE EditFile
  <2>1. file' \in Confs
    <3>1. CASE \E e \in Providers : file' = [file EXCEPT !.e = e]
      BY <3>1 DEF Confs
    <3>2. ASSUME NEW s \in Sites, NEW e \in Seq(Revs), file' = [file EXCEPT !.docs[s] = e]
          PROVE  file' \in Confs
      BY <3>2 DEF Confs, Docs
    <3>3. <<>> \in Seq(Revs) /\ \A rev \in Revs : <<rev>> \in Seq(Revs)
      OBVIOUS
    <3>4. QED BY <1>3, <3>1, <3>2, <3>3 DEF EditFile
  <2>2. QED BY <1>3, <2>1 DEF EditFile, RunType, SyncType
<1>4. CASE IndexDocs \/ Reload
  <2>1. /\ NoDocs \in Docs /\ config.docs \in Docs /\ file.docs \in Docs
    BY DEF NoDocs, Docs, Confs
  <2>2. SyncType'
    BY <1>4, <2>1, StartType, FreeSyncIsFree DEF IndexDocs, Reload
  <2>3. QED BY <1>4, <2>2 DEF IndexDocs, Reload, RunType
<1>5. CASE InitStatuses
  BY <1>5 DEF InitStatuses, RunType, SyncType, Shown
<1>6. CASE RetrieveChunks \/ ReloadUnheard
  BY <1>6 DEF RetrieveChunks, ReloadUnheard, RunType, SyncType
<1>7. CASE Restart
  <2>1. torn' \subseteq Sites
    BY <1>7, HalfDeletedTyped DEF Restart, Tear
  <2>2. RunType'
    BY <1>7 DEF Restart, RunType, Steps
  <2>3. SyncType'
    <3>1. NoDocs \in Docs /\ file.docs \in Docs
      BY DEF NoDocs, Docs, Confs
    <3>2. QED BY <1>7, <3>1 DEF Restart, SyncType
  <2>4. statuses' \in [Sites -> Shown]
    BY <1>7 DEF Restart, Shown
  <2>5. QED BY <1>7, <2>1, <2>2, <2>3, <2>4 DEF Restart
<1>8. QED BY <1>1, <1>2, <1>3, <1>4, <1>5, <1>6, <1>7 DEF User

-----------------------------------------------------------------------------
(* Spinners.  A run is the only one to show that its site is being indexed, *)
(* and takes the spinner down as it leaves the try statement, unless the    *)
(* site has been aborted, which has taken it down already.                  *)

LEMMA SpinnerStays ==
  ASSUME SpinnerHasARun, RunsGoOn,
         \A s \in Sites : statuses'[s] = "indexing" => statuses[s] = "indexing"
  PROVE  SpinnerHasARun'
  BY DEF SpinnerHasARun, RunsGoOn, InTry

(* A step of one run: the others go on, and it is still inside the try      *)
(* statement if its site is shown as being indexed.                         *)
LEMMA SpinnerOfRun ==
  ASSUME SpinnerHasARun, NEW r \in Runs, NEW t, t = Site(r),
         \A q \in Runs \ {r} : pc'[q] = pc[q] /\ job'[q] = job[q],
         \A s \in Sites \ {t} : statuses'[s] = statuses[s],
         statuses'[t] = "indexing" => \/ pc'[r] \in InTry /\ job'[r] = job[r]
                                      \/ pc[r] \notin InTry /\ statuses[t] = "indexing"
  PROVE  SpinnerHasARun'
<1> SUFFICES ASSUME NEW s \in Sites, statuses'[s] = "indexing"
             PROVE  \E q \in Runs : Site(q)' = s /\ pc'[q] \in InTry
  BY DEF SpinnerHasARun
<1>1. CASE s # t
  BY <1>1 DEF SpinnerHasARun
<1>2. CASE s = t /\ pc'[r] \in InTry /\ job'[r] = job[r]
  BY <1>2
<1>3. CASE s = t /\ pc[r] \notin InTry /\ statuses[t] = "indexing"
  BY <1>3 DEF SpinnerHasARun
<1>4. QED BY <1>1, <1>2, <1>3

LEMMA CheckedKeepsSpinner ==
  ASSUME TypeOK, SpinnerHasARun, NEW r \in Runs, pc[r] # Idle,
         NEW l \in InTry, Checked(r, "indexing", Proceeds(r, l))
  PROVE  SpinnerHasARun'
<1>0. Site(r) \in Sites
  BY DEF TypeOK, RunType, Calls
<1>1. CASE Aborted(Site(r))
  BY <1>0, <1>1, SpinnerOfRun DEF Checked, Leave, Return, TypeOK, RunType, MemoryType
<1>2. CASE ~Aborted(Site(r))
  BY <1>0, <1>2, SpinnerOfRun DEF Checked, Proceeds, TypeOK, RunType, MemoryType
<1>3. QED BY <1>1, <1>2

LEMMA CheckedEndsSpinner ==
  ASSUME TypeOK, SpinnerHasARun, NEW r \in Runs, pc[r] # Idle,
         NEW st, st # "indexing", Checked(r, st, Leave(r))
  PROVE  SpinnerHasARun'
<1>0. Site(r) \in Sites
  BY DEF TypeOK, RunType, Calls
<1>1. QED
  BY <1>0, SpinnerOfRun DEF Checked, Leave, Return, TypeOK, RunType, MemoryType

LEMMA EnterTrySpins ==
  ASSUME TypeOK, SpinnerHasARun, NEW r \in Runs, pc[r] # Idle, EnterTry(r), job' = job
  PROVE  SpinnerHasARun'
<1>0. Site(r) \in Sites
  BY DEF TypeOK, RunType, Calls
<1>1. QED
  BY <1>0, SpinnerOfRun DEF EnterTry, InTry, TypeOK, RunType, MemoryType

LEMMA RunStepSpinner ==
  ASSUME TypeOK, SpinnerHasARun, NEW r \in Runs, RunStep(r) \/ Progress(r) PROVE SpinnerHasARun'
<1>0. ASSUME pc[r] # Idle PROVE Site(r) \in Sites
  BY <1>0 DEF TypeOK, RunType, Calls
<1> USE DEF TypeOK, RunType
<1>1. CASE GetProvider(r)
  BY <1>0, <1>1, SpinnerOfRun DEF GetProvider, InTry
<1>2. CASE Lookup(r)
  <2>1. CASE EnterTry(r)
    BY <1>2, <2>1, EnterTrySpins DEF Lookup
  <2>2. CASE Goto(r, "clearRows") /\ UNCHANGED <<file, dirty, statuses>>
    BY <1>0, <1>2, <2>2, SpinnerOfRun DEF Lookup, InTry
  <2>3. QED BY <1>2, <2>1, <2>2 DEF Lookup
<1>3. CASE AlreadyIndexed(r)
  BY <1>0, <1>3, SpinnerOfRun DEF AlreadyIndexed, Return, MemoryType
<1>4. CASE ClearRows(r)
  BY <1>0, <1>4, SpinnerOfRun DEF ClearRows, InTry
<1>5. CASE ClearMeta(r)
  BY <1>5, EnterTrySpins DEF ClearMeta
<1>6. CASE Crawled(r) \/ ClearMetaAgain(r) \/ AddRows(r)
  BY <1>0, <1>6, SpinnerOfRun DEF Crawled, ClearMetaAgain, AddRows, InTry
<1>7. CASE Embedded(r)
  <2>1. PICK l \in InTry : Checked(r, "indexing", Proceeds(r, l))
    BY <1>7 DEF Embedded, InTry
  <2>2. QED BY <1>7, <2>1, CheckedKeepsSpinner DEF Embedded
<1>8. CASE NothingEmbedded(r)
  BY <1>8, CheckedEndsSpinner DEF NothingEmbedded
<1>9. CASE GotFavicon(r)
  BY <1>9, CheckedKeepsSpinner DEF GotFavicon, InTry
<1>10. CASE AddMetadata(r)
  BY <1>10, CheckedEndsSpinner DEF AddMetadata
<1>11. CASE Rejects(r)
  BY <1>0, <1>11, SpinnerOfRun DEF Rejects, Return, BeforeTry, InTry
<1>12. CASE Throws(r)
  BY <1>0, <1>12, SpinnerOfRun DEF Throws, Leave, Return, InTry, MemoryType
<1>13. CASE Progress(r)
  BY <1>13, CheckedKeepsSpinner DEF Progress, InTry
<1>14. QED
  BY <1>1, <1>2, <1>3, <1>4, <1>5, <1>6, <1>7, <1>8, <1>9, <1>10, <1>11, <1>12, <1>13 DEF RunStep

LEMMA OtherStepSpinner ==
  ASSUME TypeOK, SpinnerHasARun,
         \/ \E y \in Syncs : SyncStep(y)
         \/ \E d \in deleting : RemoveRows(d) \/ RemoveMetadata(d)
         \/ User \/ Reload \/ ReloadUnheard
  PROVE  SpinnerHasARun'
<1> USE DEF TypeOK, MemoryType
<1>0. ASSUME UNCHANGED <<pc, job>> PROVE RunsGoOn
  BY <1>0 DEF RunsGoOn
<1>1. ASSUME NEW y \in Syncs, SyncStep(y) PROVE SpinnerHasARun'
  <2>1. CASE ReembedAll(y)
    BY <2>1, <1>0, LaunchGoesOn, SpinnerStays DEF ReembedAll, LaunchAndAwait
  <2>2. CASE SyncDocs(y)
    BY <2>2, LaunchGoesOn, SpinnerStays DEF SyncDocs, LaunchAndAwait
  <2>3. CASE \/ Reembedded(y) \/ Synced(y) \/ SyncDeletesRows(y)
             \/ SyncDeletesMetadata(y) \/ SyncThrows(y)
    BY <2>3, <1>0, SpinnerStays
    DEF Reembedded, Synced, SyncDeletesRows, SyncDeletesMetadata, SyncThrows
  <2>4. QED BY <1>1, <2>1, <2>2, <2>3 DEF SyncStep
<1>2. ASSUME NEW d \in deleting, RemoveRows(d) \/ RemoveMetadata(d) PROVE SpinnerHasARun'
  BY <1>2, <1>0, SpinnerStays DEF RemoveRows, RemoveMetadata
<1>3. ASSUME NEW s \in Sites, AddDocs(s) \/ ReindexDoc(s) PROVE SpinnerHasARun'
  BY <1>3, LaunchGoesOn, SpinnerStays DEF AddDocs, ReindexDoc, Call
<1>4. ASSUME NEW s \in Sites, Abort(s) \/ RemoveDocs(s) PROVE SpinnerHasARun'
  BY <1>4, <1>0, SpinnerStays DEF Abort, RemoveDocs
<1>5. CASE IndexDocs \/ EditFile \/ InitStatuses \/ RetrieveChunks \/ Reload \/ ReloadUnheard
  BY <1>5, <1>0, SpinnerStays
  DEF IndexDocs, EditFile, InitStatuses, RetrieveChunks, Reload, ReloadUnheard
<1>6. CASE Restart
  BY <1>6 DEF Restart, SpinnerHasARun
<1>7. QED BY <1>1, <1>2, <1>3, <1>4, <1>5, <1>6 DEF User

-----------------------------------------------------------------------------
(* Rows.                                                                   *)

Covered(s) == (\E x \in lance : x.site = s) \/ s \in torn

(* Deleting the rows of a site marks it as torn if a run is about to add    *)
(* its metadata; the other sites keep theirs.                               *)
LEMMA DeleteRowsFacts ==
  ASSUME NEW s, DeleteRows(s)
  PROVE  /\ \A t : t # s /\ Covered(t) => Covered(t)'
         /\ torn \subseteq torn'
         /\ \A r \in Runs : At(r, "addMeta") /\ Site(r) = s => s \in torn'
  BY DEF DeleteRows, Covered

LEMMA AddMetaKept ==
  ASSUME AddMetaInv, lance \subseteq lance', torn \subseteq torn',
         \A r \in Runs : pc'[r] = "addMeta" => pc[r] = "addMeta" /\ job'[r] = job[r]
  PROVE  AddMetaInv'
  BY DEF AddMetaInv

LEMMA AddMetaDeleted ==
  ASSUME AddMetaInv, NEW s, DeleteRows(s),
         \A r \in Runs : pc'[r] = "addMeta" => pc[r] = "addMeta" /\ job'[r] = job[r]
  PROVE  AddMetaInv'
<1> SUFFICES ASSUME NEW r \in Runs, pc'[r] = "addMeta"
             PROVE  (\E x \in lance' : x.site = job'[r].site) \/ job'[r].site \in torn'
  BY DEF AddMetaInv
<1>1. CASE Site(r) = s
  BY <1>1, DeleteRowsFacts
<1>2. CASE Site(r) # s
  BY <1>2, DeleteRowsFacts DEF AddMetaInv, Covered
<1>3. QED BY <1>1, <1>2

LEMMA GoOnAddMeta ==
  ASSUME RunsGoOn
  PROVE  \A r \in Runs : pc'[r] = "addMeta" => pc[r] = "addMeta" /\ job'[r] = job[r]
  BY DEF RunsGoOn

LEMMA RunStepAddMeta ==
  ASSUME TypeOK, AddMetaInv, NEW r \in Runs, RunStep(r) \/ Progress(r) PROVE AddMetaInv'
<1> USE DEF TypeOK, RunType
<1>1. CASE GetProvider(r)
  BY <1>1, AddMetaKept DEF GetProvider
<1>2. CASE Lookup(r)
  BY <1>2, AddMetaKept DEF Lookup, EnterTry
<1>3. CASE AlreadyIndexed(r)
  BY <1>3, AddMetaKept DEF AlreadyIndexed, Return
<1>4. CASE ClearRows(r)
  BY <1>4, AddMetaDeleted DEF ClearRows
<1>5. CASE ClearMeta(r)
  BY <1>5, AddMetaKept DEF ClearMeta, EnterTry
<1>6. CASE Crawled(r) \/ ClearMetaAgain(r)
  BY <1>6, AddMetaKept DEF Crawled, ClearMetaAgain
<1>7. CASE Embedded(r)
  BY <1>7, AddMetaKept DEF Embedded, Checked, Leave, Return, Proceeds
<1>8. CASE NothingEmbedded(r)
  BY <1>8, AddMetaKept DEF NothingEmbedded, Checked, Leave, Return
<1>9. CASE GotFavicon(r)
  BY <1>9, AddMetaKept DEF GotFavicon, Checked, Leave, Return, Proceeds
<1>10. CASE AddRows(r)
  <2>1. \E x \in lance' : x.site = Site(r)
    <3> DEFINE row == [table |-> config.e, site |-> Site(r), by |-> embedder[r]]
    <3>1. row \in lance'
      BY <1>10, Zenon DEF AddRows
    <3>2. QED BY <3>1
  <2>2. lance \subseteq lance' /\ UNCHANGED <<job, torn>>
    BY <1>10 DEF AddRows
  <2>3. \A q \in Runs \ {r} : pc'[q] = pc[q]
    BY <1>10 DEF AddRows
  <2>4. QED BY <2>1, <2>2, <2>3 DEF AddMetaInv
<1>11. CASE AddMetadata(r)
  BY <1>11, AddMetaKept DEF AddMetadata, Checked, Leave, Return
<1>12. CASE Rejects(r)
  BY <1>12, AddMetaKept DEF Rejects, Return, Tear
<1>13. CASE Throws(r)
  BY <1>13, AddMetaKept DEF Throws, Leave, Return, Tear
<1>14. CASE Progress(r)
  BY <1>14, AddMetaKept DEF Progress, Checked, Leave, Return, Proceeds
<1>15. QED
  BY <1>1, <1>2, <1>3, <1>4, <1>5, <1>6, <1>7, <1>8, <1>9, <1>10, <1>11, <1>12, <1>13, <1>14
  DEF RunStep

LEMMA OtherStepAddMeta ==
  ASSUME TypeOK, AddMetaInv,
         \/ \E y \in Syncs : SyncStep(y)
         \/ \E d \in deleting : RemoveRows(d) \/ RemoveMetadata(d)
         \/ User \/ Reload \/ ReloadUnheard
  PROVE  AddMetaInv'
<1> USE DEF TypeOK
<1>0. ASSUME UNCHANGED <<pc, job>> PROVE RunsGoOn
  BY <1>0 DEF RunsGoOn
<1>1. ASSUME NEW y \in Syncs, SyncStep(y) PROVE AddMetaInv'
  <2>1. CASE ReembedAll(y)
    BY <2>1, <1>0, LaunchGoesOn, GoOnAddMeta, AddMetaKept DEF ReembedAll, LaunchAndAwait
  <2>2. CASE SyncDocs(y)
    BY <2>2, LaunchGoesOn, GoOnAddMeta, AddMetaKept DEF SyncDocs, LaunchAndAwait
  <2>3. CASE Reembedded(y) \/ Synced(y) \/ SyncDeletesMetadata(y) \/ SyncThrows(y)
    BY <2>3, AddMetaKept DEF Reembedded, Synced, SyncDeletesMetadata, SyncThrows, Tear
  <2>4. CASE SyncDeletesRows(y)
    BY <2>4, AddMetaDeleted DEF SyncDeletesRows
  <2>5. QED BY <1>1, <2>1, <2>2, <2>3, <2>4 DEF SyncStep
<1>2. ASSUME NEW d \in deleting, RemoveRows(d) \/ RemoveMetadata(d) PROVE AddMetaInv'
  <2>1. CASE RemoveRows(d)
    BY <2>1, AddMetaDeleted DEF RemoveRows
  <2>2. CASE RemoveMetadata(d)
    BY <2>2, AddMetaKept DEF RemoveMetadata
  <2>3. QED BY <1>2, <2>1, <2>2
<1>3. ASSUME NEW s \in Sites, AddDocs(s) \/ ReindexDoc(s) PROVE AddMetaInv'
  BY <1>3, LaunchGoesOn, GoOnAddMeta, AddMetaKept DEF AddDocs, ReindexDoc, Call
<1>4. ASSUME NEW s \in Sites, Abort(s) \/ RemoveDocs(s) PROVE AddMetaInv'
  BY <1>4, AddMetaKept DEF Abort, RemoveDocs
<1>5. CASE IndexDocs \/ EditFile \/ InitStatuses \/ RetrieveChunks \/ Reload \/ ReloadUnheard
  BY <1>5, AddMetaKept
  DEF IndexDocs, EditFile, InitStatuses, RetrieveChunks, Reload, ReloadUnheard
<1>6. CASE Restart
  BY <1>6 DEF Restart, AddMetaInv
<1>7. QED BY <1>1, <1>2, <1>3, <1>4, <1>5, <1>6 DEF User

LEMMA RowsStay ==
  ASSUME IndexedSitesHaveRows, sqlite' \subseteq sqlite,
         \A s : Covered(s) => Covered(s)' \/ s \in HalfDeleted',
         \A s \in sqlite' : s \in HalfDeleted => s \in HalfDeleted' \cup torn'
  PROVE  IndexedSitesHaveRows'
  BY DEF IndexedSitesHaveRows, Covered

LEMMA CoveredStays ==
  ASSUME lance \subseteq lance', torn \subseteq torn' PROVE \A s : Covered(s) => Covered(s)'
  BY DEF Covered

(* A step that stops no deletion half way keeps the half-deleted sites.     *)
LEMMA HalfRunsStay ==
  ASSUME NEW s, HalfRun(s),
         \A r \in Runs : pc[r] \in {"clearMeta", "clearMetaAgain"} => pc'[r] = pc[r] /\ job'[r] = job[r]
  PROVE  HalfRun(s)'
  BY DEF HalfRun

LEMMA HalfSyncsStay ==
  ASSUME NEW s, HalfSync(s),
         \A y \in Syncs : spc[y] = "meta" => spc'[y] = "meta" /\ gone'[y] = gone[y]
  PROVE  HalfSync(s)'
  BY NextGoneFacts DEF HalfSync

LEMMA HalfCallsStay ==
  ASSUME NEW s, HalfCall(s), \A d \in deleting : d.half => d \in deleting' PROVE HalfCall(s)'
  BY DEF HalfCall

LEMMA HalfStays ==
  ASSUME \A r \in Runs : pc[r] \in {"clearMeta", "clearMetaAgain"} => pc'[r] = pc[r] /\ job'[r] = job[r],
         \A y \in Syncs : spc[y] = "meta" => spc'[y] = "meta" /\ gone'[y] = gone[y],
         \A d \in deleting : d.half => d \in deleting'
  PROVE  HalfDeleted \subseteq HalfDeleted'
  BY HalfRunsStay, HalfSyncsStay, HalfCallsStay, HalfParts

LEMMA HalfButRun ==
  ASSUME NEW r \in Runs, \A q \in Runs \ {r} : pc'[q] = pc[q] /\ job'[q] = job[q],
         UNCHANGED <<spc, gone, deleting>>
  PROVE  \A s \in HalfDeleted :
           s \in HalfDeleted' \/ (s = Site(r) /\ pc[r] \in {"clearMeta", "clearMetaAgain"})
<1> SUFFICES ASSUME NEW s \in HalfDeleted, ~(s = Site(r) /\ pc[r] \in {"clearMeta", "clearMetaAgain"})
             PROVE  s \in HalfDeleted'
  OBVIOUS
<1>1. HalfRun(s) => HalfRun(s)'
  BY DEF HalfRun
<1>2. QED BY <1>1, HalfSyncsStay, HalfCallsStay, HalfParts

LEMMA HalfButSync ==
  ASSUME NEW y \in Syncs, \A z \in Syncs \ {y} : spc'[z] = spc[z] /\ gone'[z] = gone[z],
         UNCHANGED <<pc, job, deleting>>
  PROVE  \A s \in HalfDeleted : s \in HalfDeleted' \/ (s = NextGone(y) /\ spc[y] = "meta")
<1> SUFFICES ASSUME NEW s \in HalfDeleted, ~(s = NextGone(y) /\ spc[y] = "meta")
             PROVE  s \in HalfDeleted'
  OBVIOUS
<1>1. HalfSync(s) => HalfSync(s)'
  BY NextGoneFacts DEF HalfSync
<1>2. QED BY <1>1, HalfRunsStay, HalfCallsStay, HalfParts

LEMMA HalfButCall ==
  ASSUME NEW d \in deleting, deleting \ {d} \subseteq deleting', UNCHANGED <<pc, job, spc, gone>>
  PROVE  \A s \in HalfDeleted : s \in HalfDeleted' \/ (s = d.site /\ d.half)
<1> SUFFICES ASSUME NEW s \in HalfDeleted, ~(s = d.site /\ d.half) PROVE s \in HalfDeleted'
  OBVIOUS
<1>1. HalfCall(s) => HalfCall(s)'
  BY DEF HalfCall
<1>2. QED BY <1>1, HalfRunsStay, HalfSyncsStay, HalfParts

(* A run that is not half way through a deletion and adds no metadata.      *)
LEMMA RowsOfRun ==
  ASSUME IndexedSitesHaveRows, NEW r \in Runs,
         \A q \in Runs \ {r} : pc'[q] = pc[q] /\ job'[q] = job[q],
         UNCHANGED <<sqlite, spc, gone, deleting>>, lance \subseteq lance', torn \subseteq torn',
         pc[r] \in {"clearMeta", "clearMetaAgain"} => Site(r) \in torn'
  PROVE  IndexedSitesHaveRows'
  BY HalfButRun, CoveredStays, RowsStay

LEMMA RunStepRows ==
  ASSUME TypeOK, AddMetaInv, IndexedSitesHaveRows, NEW r \in Runs, RunStep(r) \/ Progress(r)
  PROVE  IndexedSitesHaveRows'
<1> USE DEF TypeOK, RunType
<1>1. CASE GetProvider(r) \/ Crawled(r)
  BY <1>1, RowsOfRun DEF GetProvider, Crawled
<1>2. CASE Lookup(r)
  BY <1>2, RowsOfRun DEF Lookup, EnterTry
<1>3. CASE AlreadyIndexed(r)
  BY <1>3, RowsOfRun DEF AlreadyIndexed, Return
<1>4. CASE ClearRows(r)
  <2>1. Site(r) \in HalfDeleted'
    BY <1>4, HalfParts DEF ClearRows, HalfRun
  <2>2. \A s : s # Site(r) /\ Covered(s) => Covered(s)'
    BY <1>4, DeleteRowsFacts DEF ClearRows
  <2>3. \A s \in HalfDeleted : s \in HalfDeleted' \/ s = Site(r)
    BY <1>4, HalfButRun DEF ClearRows
  <2>4. sqlite' = sqlite
    BY <1>4 DEF ClearRows
  <2>5. QED BY <2>1, <2>2, <2>3, <2>4, RowsStay
<1>5. CASE ClearMeta(r) \/ ClearMetaAgain(r)
  <2>1. sqlite' = sqlite \ {Site(r)} /\ UNCHANGED <<lance, torn>>
    BY <1>5 DEF ClearMeta, ClearMetaAgain, DeleteMetadata
  <2>2. \A s \in HalfDeleted : s \in HalfDeleted' \/ s = Site(r)
    BY <1>5, HalfButRun DEF ClearMeta, ClearMetaAgain, EnterTry
  <2>3. QED BY <2>1, <2>2, CoveredStays, RowsStay
<1>6. CASE Embedded(r)
  BY <1>6, RowsOfRun DEF Embedded, Checked, Leave, Return, Proceeds
<1>7. CASE NothingEmbedded(r)
  BY <1>7, RowsOfRun DEF NothingEmbedded, Checked, Leave, Return
<1>8. CASE GotFavicon(r)
  BY <1>8, RowsOfRun DEF GotFavicon, Checked, Leave, Return, Proceeds
<1>9. CASE AddRows(r)
  BY <1>9, RowsOfRun DEF AddRows
<1>10. CASE AddMetadata(r)
  <2>1. sqlite' = sqlite \cup {Site(r)} /\ UNCHANGED <<lance, torn>>
    BY <1>10 DEF AddMetadata
  <2>2. Covered(Site(r))
    BY <1>10 DEF AddMetadata, AddMetaInv, Covered
  <2>3. HalfDeleted \subseteq HalfDeleted'
    BY <1>10, HalfButRun DEF AddMetadata, Checked, Leave, Return
  <2>4. QED BY <2>1, <2>2, <2>3 DEF IndexedSitesHaveRows, Covered
<1>11. CASE Rejects(r)
  BY <1>11, RowsOfRun DEF Rejects, Return, Tear, BeforeTry, Calls
<1>12. CASE Throws(r)
  BY <1>12, RowsOfRun DEF Throws, Leave, Return, Tear, InTry, Calls
<1>13. CASE Progress(r)
  BY <1>13, RowsOfRun DEF Progress, Checked, Leave, Return, Proceeds
<1>14. QED
  BY <1>1, <1>2, <1>3, <1>4, <1>5, <1>6, <1>7, <1>8, <1>9, <1>10, <1>11, <1>12, <1>13 DEF RunStep

(* Nothing is deleted, and nobody stops between the halves of a deletion.   *)
LEMMA RowsKept ==
  ASSUME IndexedSitesHaveRows, RunsGoOn, UNCHANGED <<sqlite, lance, torn>>,
         \A y \in Syncs : spc[y] = "meta" => spc'[y] = "meta" /\ gone'[y] = gone[y],
         \A d \in deleting : d.half => d \in deleting'
  PROVE  IndexedSitesHaveRows'
<1>1. HalfDeleted \subseteq HalfDeleted'
  BY HalfStays DEF RunsGoOn
<1>2. QED BY <1>1, CoveredStays, RowsStay

LEMMA SyncStepRows ==
  ASSUME TypeOK, IndexedSitesHaveRows, NEW y \in Syncs, SyncStep(y) PROVE IndexedSitesHaveRows'
<1> USE DEF TypeOK, SyncType
<1>0. ASSUME UNCHANGED <<pc, job>> PROVE RunsGoOn
  BY <1>0 DEF RunsGoOn
<1>1. CASE ReembedAll(y)
  <2>1. RunsGoOn
    BY <1>0, <1>1, LaunchGoesOn DEF ReembedAll, LaunchAndAwait
  <2>2. QED BY <1>1, <2>1, RowsKept DEF ReembedAll, LaunchAndAwait, End
<1>2. CASE SyncDocs(y)
  <2>1. RunsGoOn
    BY <1>2, LaunchGoesOn DEF SyncDocs, LaunchAndAwait
  <2>2. QED BY <1>2, <2>1, RowsKept DEF SyncDocs, LaunchAndAwait
<1>3. CASE Reembedded(y) \/ Synced(y)
  BY <1>0, <1>3, RowsKept DEF Reembedded, Synced, End
<1>4. CASE SyncDeletesRows(y)
  <2>1. NextGone(y) \in HalfDeleted'
    BY <1>4, NextGoneFacts, HalfParts DEF SyncDeletesRows, HalfSync
  <2>2. \A s : s # NextGone(y) /\ Covered(s) => Covered(s)'
    BY <1>4, DeleteRowsFacts DEF SyncDeletesRows
  <2>3. \A s \in HalfDeleted : s \in HalfDeleted' \/ s = NextGone(y)
    BY <1>4, HalfButSync DEF SyncDeletesRows
  <2>4. sqlite' = sqlite
    BY <1>4 DEF SyncDeletesRows
  <2>5. QED BY <2>1, <2>2, <2>3, <2>4, RowsStay
<1>5. CASE SyncDeletesMetadata(y)
  <2>1. sqlite' = sqlite \ {NextGone(y)} /\ UNCHANGED <<lance, torn>>
    BY <1>5 DEF SyncDeletesMetadata, DeleteMetadata
  <2>2. \A s \in HalfDeleted : s \in HalfDeleted' \/ s = NextGone(y)
    BY <1>5, HalfButSync DEF SyncDeletesMetadata, End
  <2>3. QED BY <2>1, <2>2, CoveredStays, RowsStay
<1>6. CASE SyncThrows(y)
  <2>1. sqlite' = sqlite /\ lance' = lance /\ torn \subseteq torn'
    BY <1>6 DEF SyncThrows, Tear
  <2>2. \A s \in HalfDeleted : s \in HalfDeleted' \cup torn'
    BY <1>6, HalfButSync DEF SyncThrows, Tear, End
  <2>3. QED BY <2>1, <2>2, CoveredStays, RowsStay
<1>7. QED BY <1>1, <1>2, <1>3, <1>4, <1>5, <1>6 DEF SyncStep

LEMMA DeletingRows ==
  ASSUME TypeOK, IndexedSitesHaveRows, NEW d \in deleting, RemoveRows(d) \/ RemoveMetadata(d)
  PROVE  IndexedSitesHaveRows'
<1>1. CASE RemoveRows(d)
  <2>1. d.site \in HalfDeleted'
    <3> DEFINE half == [d EXCEPT !.half = TRUE]
    <3>1. half.half /\ half.site = d.site
      BY DEF TypeOK, MemoryType
    <3>2. half \in deleting'
      BY <1>1, Zenon DEF RemoveRows
    <3>3. HalfCall(d.site)'
      BY <3>1, <3>2 DEF HalfCall
    <3>4. QED BY <3>3, HalfParts
  <2>2. \A s : s # d.site /\ Covered(s) => Covered(s)'
    BY <1>1, DeleteRowsFacts DEF RemoveRows
  <2>3. \A s \in HalfDeleted : s \in HalfDeleted' \/ s = d.site
    BY <1>1, HalfButCall DEF RemoveRows
  <2>4. sqlite' = sqlite
    BY <1>1 DEF RemoveRows
  <2>5. QED BY <2>1, <2>2, <2>3, <2>4, RowsStay
<1>2. CASE RemoveMetadata(d)
  <2>1. sqlite' = sqlite \ {d.site} /\ UNCHANGED <<lance, torn>>
    BY <1>2 DEF RemoveMetadata, DeleteMetadata
  <2>2. \A s \in HalfDeleted : s \in HalfDeleted' \/ s = d.site
    BY <1>2, HalfButCall DEF RemoveMetadata
  <2>3. QED BY <2>1, <2>2, CoveredStays, RowsStay
<1>3. QED BY <1>1, <1>2

LEMMA RestRows ==
  ASSUME TypeOK, IndexedSitesHaveRows, User \/ Reload \/ ReloadUnheard
  PROVE  IndexedSitesHaveRows'
<1> USE DEF TypeOK
<1>0. ASSUME UNCHANGED <<pc, job>> PROVE RunsGoOn
  BY <1>0 DEF RunsGoOn
<1>1. ASSUME NEW s \in Sites, AddDocs(s) \/ ReindexDoc(s) PROVE IndexedSitesHaveRows'
  <2>1. PICK call : Call({call})
    BY <1>1 DEF AddDocs, ReindexDoc
  <2>2. QED BY <2>1, LaunchGoesOn, RowsKept DEF Call
<1>2. ASSUME NEW s \in Sites, Abort(s) \/ RemoveDocs(s) PROVE IndexedSitesHaveRows'
  BY <1>0, <1>2, RowsKept DEF Abort, RemoveDocs
<1>3. CASE IndexDocs \/ Reload
  BY <1>0, <1>3, RowsKept, FreeSyncIsFree DEF IndexDocs, Reload, Start, SyncType
<1>4. CASE EditFile \/ InitStatuses \/ RetrieveChunks \/ ReloadUnheard
  BY <1>0, <1>4, RowsKept DEF EditFile, InitStatuses, RetrieveChunks, ReloadUnheard
<1>5. CASE Restart
  BY <1>5, CoveredStays, RowsStay DEF Restart, Tear
<1>6. QED BY <1>1, <1>2, <1>3, <1>4, <1>5 DEF User

-----------------------------------------------------------------------------

LEMMA InitInv == Init => Inv
<1> SUFFICES ASSUME Init PROVE Inv
  OBVIOUS
<1>1. file \in Confs
  <2>1. PICK e \in Providers, docs \in [Sites -> {<<>>} \cup {<<rev>> : rev \in Revs}] :
          file = [docs |-> docs, e |-> e]
    BY DEF Init
  <2>2. docs \in Docs
    <3>1. \A s \in Sites : docs[s] = <<>> \/ \E rev \in Revs : docs[s] = <<rev>>
      BY <2>1
    <3>2. <<>> \in Seq(Revs) /\ \A rev \in Revs : <<rev>> \in Seq(Revs)
      OBVIOUS
    <3>3. QED BY <3>1, <3>2 DEF Docs
  <2>3. QED BY <2>1, <2>2 DEF Confs
<1>2. NoDocs \in Docs /\ file.docs \in Docs
  BY <1>1 DEF NoDocs, Docs, Confs
<1>3. TypeOK
  BY <1>1, <1>2 DEF Init, TypeOK, DiskType, MemoryType, RunType, SyncType, Shown, Steps
<1>4. SpinnerHasARun /\ AddMetaInv
  BY DEF Init, SpinnerHasARun, AddMetaInv
<1>5. IndexedSitesHaveRows
  <2>1. ASSUME NEW s \in sqlite PROVE \E x \in lance : x.site = s
    <3> DEFINE row == [table |-> file.e, site |-> s, by |-> file.e]
    <3>1. row \in lance
      BY Zenon DEF Init
    <3>2. QED BY <3>1
  <2>2. QED BY <2>1 DEF IndexedSitesHaveRows
<1>6. QED BY <1>3, <1>4, <1>5 DEF Inv

LEMMA NextInv == Inv /\ [Next]_vars => Inv'
<1> SUFFICES ASSUME Inv, [Next]_vars PROVE Inv'
  OBVIOUS
<1>1. ASSUME NEW r \in Runs, RunStep(r) \/ Progress(r) PROVE Inv'
  BY <1>1, RunStepType, RunStepSpinner, RunStepAddMeta, RunStepRows DEF Inv
<1>2. ASSUME NEW y \in Syncs, SyncStep(y) PROVE Inv'
  BY <1>2, SyncStepType, OtherStepSpinner, OtherStepAddMeta, SyncStepRows DEF Inv
<1>3. ASSUME NEW d \in deleting, RemoveRows(d) \/ RemoveMetadata(d) PROVE Inv'
  BY <1>3, DeletingType, OtherStepSpinner, OtherStepAddMeta, DeletingRows DEF Inv
<1>4. ASSUME User \/ Reload \/ ReloadUnheard PROVE Inv'
  BY <1>4, RestTyped, OtherStepSpinner, OtherStepAddMeta, RestRows DEF Inv
<1>5. CASE UNCHANGED vars
  <2>1. HalfDeleted' = HalfDeleted
    BY <1>5, HalfStays, HalfParts DEF vars, memory, HalfDeleted, NextGone
  <2>2. QED
    BY <1>5, <2>1 DEF vars, memory, Inv, TypeOK, DiskType, MemoryType, RunType, SyncType,
       SpinnerHasARun, AddMetaInv, IndexedSitesHaveRows
<1>6. QED BY <1>1, <1>2, <1>3, <1>4, <1>5 DEF Next, System

LEMMA Invariance == Spec => []Inv
  BY InitInv, NextInv, PTL DEF Spec

(* A site shown as being indexed always has a run that will put an end to   *)
(* it: the abort, the failures and the runs of the same site at once that   *)
(* DocsService allows never leave the spinner of the docs list turning.     *)
THEOREM SpinnersEnd == Spec => []SpinnerHasARun
<1>1. Inv => SpinnerHasARun
  BY DEF Inv
<1>2. QED BY Invariance, <1>1, PTL

(* A site with metadata has rows to search, or a deletion of it is half     *)
(* done, was cut short or came between the rows and the metadata of a run:  *)
(* what the order of the writes in DocsService is for.                      *)
THEOREM IndexedSitesAreSearchable == Spec => []IndexedSitesHaveRows
<1>1. Inv => IndexedSitesHaveRows
  BY DEF Inv
<1>2. QED BY Invariance, <1>1, PTL

=============================================================================
