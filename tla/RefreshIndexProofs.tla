------------------------- MODULE RefreshIndexProofs -------------------------
(***************************************************************************)
(* Type correctness of RefreshIndex, the truth of fresh catalog rows, and  *)
(* what undisturbed full refreshes achieve: for any number of files, texts, *)
(* branches and runs.  Then what cancelling and pausing a refresh guarantee, *)
(* for any number of calls and segments (IndexingControl).  At the end, that *)
(* the tables of the indexes follow their catalogs (TagIndexes).            *)
(***************************************************************************)
EXTENDS RefreshConvergence, IndexingControl, TagIndexes, FiniteSetTheorems, TLAPS

USE DEF world, tables, scope, plan, ops, memory

LEMMA AnyBranchType == ASSUME TypeOK PROVE AnyBranch \in Branches
  BY DEF AnyBranch, TypeOK

LEMMA KindTypes ==
  /\ \A i : KindOfAdd(i) \in Writes
  /\ \A i : KindOfRemove(i) \in Kinds \ Writes
  BY DEF KindOfAdd, KindOfRemove, Kinds, Writes

LEMMA OpsType ==
  ASSUME TypeOK, NEW r \in Runs
  PROVE  AddOps(r) \subseteq Op /\ RemoveOps(r) \subseteq Op
<1>1. add[r] \subseteq Item /\ remove[r] \subseteq Item
  BY DEF TypeOK
<1>2. ASSUME NEW k \in Kinds, NEW i \in Item PROVE OpOf(k, i) \in Op
  BY DEF OpOf, Op, Item
<1>3. QED BY <1>1, <1>2, KindTypes DEF AddOps, RemoveOps, Writes, Kinds

LEMMA CurrentType ==
  ASSUME TypeOK, NEW p \in Paths
  PROVE  Current(p) \in Item
<1>1. Text(p) \in Contents
  BY SentinelAssumption DEF Text, Exists, TypeOK, File
<1>2. QED BY <1>1 DEF Current, Item

LEMMA ItemOfType ==
  ASSUME NEW rows, rows \subseteq Row
  PROVE  {ItemOf(x) : x \in rows} \subseteq Item
  BY DEF ItemOf, Item, Row

LEMMA RestType ==
  ASSUME TypeOK, NEW r \in Runs, NEW x
  PROVE  Rest(r, x) \subseteq Item
<1>1. RowsOf(r, x.path) \ {x} \subseteq Row
  BY DEF TypeOK, RowsOf
<1>2. QED BY <1>1, ItemOfType DEF Rest

-----------------------------------------------------------------------------
(* The type invariant.                                                     *)

LEMMA InitType == Init => TypeOK
<1> SUFFICES ASSUME Init PROVE TypeOK
  OBVIOUS
<1>1. disk \in [Paths -> File \cup {NoFile}]
  BY DEF Init, File
<1>2. AnyBranch \in Branches
  BY DEF Init, AnyBranch
<1>3. QED BY <1>1, <1>2 DEF Init, TypeOK, Pc, NoStats

LEMMA ForgetType ==
  ASSUME TypeOK, NEW r \in Runs, Forget(r), UNCHANGED <<world, tables>>
  PROVE  TypeOK'
  BY AnyBranchType DEF Forget, TypeOK, NoStats, Pc

LEMMA WorldType == ASSUME TypeOK, World PROVE TypeOK'
<1>1. ASSUME NEW p \in Paths, NEW c \in Contents, WriteFile(p, c) PROVE TypeOK'
  BY <1>1 DEF WriteFile, TypeOK, File
<1>2. ASSUME NEW p \in Paths, NEW c \in Contents, Edit(p, c) PROVE TypeOK'
  BY <1>2 DEF Edit, TypeOK
<1>3. ASSUME NEW p \in Paths, DeleteFile(p) PROVE TypeOK'
  BY <1>3 DEF DeleteFile, TypeOK
<1>4. ASSUME NEW p \in Paths, Save(p) PROVE TypeOK'
  <2>1. [content |-> buffer[p], mtime |-> clock + 1] \in File
    BY <1>4 DEF Save, TypeOK, File
  <2>2. QED BY <1>4, <2>1 DEF Save, TypeOK
<1>5. ASSUME NEW b \in Branches, NEW new \in [Paths -> Contents \cup {NoFile}],
             Checkout(b, new)
      PROVE  TypeOK'
  <2>1. disk' \in [Paths -> File \cup {NoFile}]
    BY <1>5 DEF Checkout, TypeOK, File, Exists
  <2>2. QED BY <1>5, <2>1 DEF Checkout, TypeOK
<1>6. QED BY <1>1, <1>2, <1>3, <1>4, <1>5 DEF World

LEMMA PlanningType ==
  ASSUME TypeOK, NEW r \in Runs
  PROVE  /\ Begin(r) => TypeOK'
         /\ GetBranch(r) \/ Stat(r) \/ Plan(r) => TypeOK'
         /\ \A p \in Paths :
              ReadNew(r, p) \/ SkipFresh(r, p) \/ ReadSame(r, p) \/ ReadChanged(r, p)
                => TypeOK'
<1>1. ASSUME Start(r) PROVE TypeOK'
  BY <1>1 DEF Start, TypeOK, Pc
<1>2. ASSUME NEW p \in Paths, StartFile(r, p) PROVE TypeOK'
  BY <1>2 DEF StartFile, TypeOK, Pc
<1>3. ASSUME GetBranch(r) PROVE TypeOK'
  BY <1>3 DEF GetBranch, TypeOK, Pc
<1>4. ASSUME Stat(r) PROVE TypeOK'
  <2>1. MTimes(files[r]) \in [Paths -> Nat]
    BY <1>4 DEF Stat, MTimes, TypeOK, Exists, File
  <2>2. QED BY <1>4, <2>1 DEF Stat, TypeOK, Pc
<1>5. ASSUME Plan(r) PROVE TypeOK'
  <2>1. Unlisted(r) \subseteq Row
    BY DEF Unlisted, TypeOK
  <2>2. {ItemOf(x) : x \in Unlisted(r)} \subseteq Item
    BY <2>1, ItemOfType
  <2>3. QED BY <1>5, <2>2 DEF Plan, TypeOK, Pc
<1>6. ASSUME NEW p \in Paths, ReadNew(r, p) PROVE TypeOK'
  BY <1>6, CurrentType DEF ReadNew, Reading, TypeOK
<1>7. ASSUME NEW p \in Paths, SkipFresh(r, p) PROVE TypeOK'
  BY <1>7, RestType DEF SkipFresh, Reading, TypeOK
<1>8. ASSUME NEW p \in Paths, ReadSame(r, p) PROVE TypeOK'
  BY <1>8, RestType, CurrentType DEF ReadSame, Reading, TypeOK
<1>9. ASSUME NEW p \in Paths, ReadChanged(r, p) PROVE TypeOK'
  <2>1. ASSUME NEW x \in RowsOf(r, p) PROVE ItemOf(x) \in Item
    BY DEF RowsOf, TypeOK, ItemOf, Item, Row
  <2>2. QED BY <1>9, <2>1, RestType, CurrentType DEF ReadChanged, Reading, TypeOK
<1>10. QED BY <1>1, <1>2, <1>3, <1>4, <1>5, <1>6, <1>7, <1>8, <1>9 DEF Begin

LEMMA MarkRowType ==
  ASSUME NEW rows, rows \subseteq Row, NEW o \in Op, NEW t \in Nat
  PROVE  MarkRow(rows, o, t) \subseteq Row
  BY DEF MarkRow, ReplaceRow, DeleteRow, Row, Op

LEMMA UpdateRowsType ==
  ASSUME NEW rows, rows \subseteq Row, NEW i \in Item, NEW t \in Nat
  PROVE  UpdateRows(rows, i, t) \subseteq Row
  BY DEF UpdateRows, Row, Item

LEMMA UpdatingType ==
  ASSUME TypeOK, NEW r \in Runs
  PROVE  /\ SplitFull(r) \/ SplitFile(r) \/ NextBatch(r) => TypeOK'
         /\ \A o : MarkCatalog(r, o) \/ MarkGlobal(r, o) => TypeOK'
         /\ \A i : Touch(r, i) => TypeOK'
<1>1. ASSUME SplitFull(r) PROVE TypeOK'
  BY <1>1, OpsType DEF SplitFull, TypeOK, Pc
<1>2. ASSUME SplitFile(r) PROVE TypeOK'
  BY <1>2, OpsType DEF SplitFile, Computes, TypeOK, Pc
<1>3. ASSUME NextBatch(r) PROVE TypeOK'
  BY <1>3 DEF NextBatch, TypeOK
<1>4. ASSUME NEW o, MarkCatalog(r, o) PROVE TypeOK'
  <2>1. o \in Op /\ stamp[r] \in Nat /\ tag[r] \in Branches
    BY <1>4 DEF MarkCatalog, TypeOK
  <2>2. MarkRow(catalog[tag[r]], o, LastUpdated(r)) \subseteq Row
    BY <2>1, MarkRowType DEF LastUpdated, TypeOK
  <2>3. QED BY <1>4, <2>1, <2>2 DEF MarkCatalog, TypeOK
<1>5. ASSUME NEW o, MarkGlobal(r, o) PROVE TypeOK'
  <2>1. o \in Op /\ tag[r] \in Branches
    BY <1>5 DEF MarkGlobal, TypeOK
  <2>2. MarkCache(gcache, o, tag[r]) \subseteq Contents \X Branches
    BY <2>1 DEF MarkCache, TypeOK, Op
  <2>3. QED BY <1>5, <2>2 DEF MarkGlobal, TypeOK
<1>6. ASSUME NEW i, Touch(r, i) PROVE TypeOK'
  <2>1. i \in Item /\ stamp[r] \in Nat /\ tag[r] \in Branches
    BY <1>6 DEF Touch, TypeOK
  <2>2. UpdateRows(catalog[tag[r]], i, LastUpdated(r)) \subseteq Row
    BY <2>1, UpdateRowsType DEF LastUpdated, TypeOK
  <2>3. QED BY <1>6, <2>1, <2>2 DEF Touch, TypeOK
<1>7. QED BY <1>1, <1>2, <1>3, <1>4, <1>5, <1>6

LEMMA EndingType ==
  ASSUME TypeOK, NEW r \in Runs, Finish(r) \/ Fail(r)
  PROVE  TypeOK'
  BY ForgetType DEF Finish, Fail, StatFails, NothingToCompute, TouchFails, Stop

LEMMA NextType == TypeOK /\ [Next]_vars => TypeOK'
<1> SUFFICES ASSUME TypeOK, [Next]_vars PROVE TypeOK'
  OBVIOUS
<1>1. CASE World
  BY <1>1, WorldType
<1>2. ASSUME NEW r \in Runs, Begin(r) PROVE TypeOK'
  BY <1>2, PlanningType
<1>3. ASSUME NEW r \in Runs, Progress(r) PROVE TypeOK'
  BY <1>3, PlanningType, UpdatingType DEF Progress
<1>4. ASSUME NEW r \in Runs, Finish(r) \/ Fail(r) PROVE TypeOK'
  BY <1>4, EndingType
<1>5. CASE UNCHANGED vars
  BY <1>5 DEF vars, TypeOK
<1>6. QED BY <1>1, <1>2, <1>3, <1>4, <1>5 DEF Next

(* Every variable keeps its type: in particular a cache key is always the   *)
(* key of some text, never the absence of one.                              *)
THEOREM TypeCorrect == Spec => []TypeOK
  BY InitType, NextType, PTL DEF Spec

-----------------------------------------------------------------------------
(* Fresh rows are truthful.                                                *)

(* A change of the workspace is later than every stamp already taken.      *)
LEMMA WorldKeepsTruth ==
  ASSUME TypeOK, World, NEW i, i.path \in Paths, NEW t \in Nat, t <= clock,
         Truthful(i, t)
  PROVE  Truthful(i, t)'
<1> DEFINE p == i.path
<1>1. CASE \E q \in Paths, c \in Contents : WriteFile(q, c)
  BY <1>1 DEF WriteFile, Truthful, Exists, TypeOK
<1>2. CASE \E q \in Paths, c \in Contents : Edit(q, c)
  BY <1>2, SentinelAssumption DEF Edit, Truthful, Exists, TypeOK
<1>3. CASE \E q \in Paths : DeleteFile(q)
  BY <1>3 DEF DeleteFile, Truthful, Exists, TypeOK
<1>4. CASE \E q \in Paths : Save(q)
  BY <1>4 DEF Save, Truthful, Exists, TypeOK
<1>5. CASE \E b \in Branches, new \in [Paths -> Contents \cup {NoFile}] : Checkout(b, new)
  <2>1. PICK new \in [Paths -> Contents \cup {NoFile}] :
          disk' = [q \in Paths |->
                     IF new[q] = NoFile THEN NoFile
                     ELSE IF Exists(q) /\ disk[q].content = new[q] THEN disk[q]
                     ELSE [content |-> new[q], mtime |-> clock + 1]]
    BY <1>5 DEF Checkout
  <2>2. buffer' = buffer /\ clock \in Nat
    BY <1>5 DEF Checkout, TypeOK
  <2>3. \/ disk'[p] = NoFile
        \/ disk'[p] = disk[p]
        \/ disk'[p].mtime = clock + 1
    BY <2>1
  <2>4. QED BY <2>2, <2>3 DEF Truthful, Exists
<1>6. QED BY <1>1, <1>2, <1>3, <1>4, <1>5 DEF World

LEMMA WorldKeepsFresh == ASSUME TypeOK, FreshInv, World PROVE FreshInv'
<1>1. /\ UNCHANGED <<tables, memory>>
      /\ clock' \in Nat /\ clock <= clock'
  BY DEF World, WriteFile, Edit, DeleteFile, Save, Checkout, TypeOK
<1>2. FreshRowsTruthful'
  <2> SUFFICES ASSUME NEW b \in Branches, NEW x \in catalog[b]
               PROVE  Truthful(x, x.last)'
    BY <1>1 DEF FreshRowsTruthful
  <2>1. x.path \in Paths /\ x.last \in Nat
    BY DEF TypeOK, Row
  <2>2. x.last <= clock /\ Truthful(x, x.last)
    BY DEF FreshInv, StampsPast, FreshRowsTruthful
  <2>3. QED BY <2>1, <2>2, WorldKeepsTruth
<1>3. PlansTruthful'
  <2> SUFFICES ASSUME NEW r \in Runs
               PROVE  /\ \A i \in add[r] \cup touch[r] : Truthful(i, stamp[r])'
                      /\ \A o \in todo[r] \cup batch[r] :
                           o.kind \in Writes => Truthful(o, stamp[r])'
    BY <1>1 DEF PlansTruthful
  <2>1. PICK t \in Nat : t = stamp[r] /\ t = stamp'[r] /\ t <= clock
    BY <1>1 DEF TypeOK, FreshInv, StampsPast
  <2>2. ASSUME NEW i \in add[r] \cup touch[r] PROVE Truthful(i, stamp[r])'
    <3> i.path \in Paths
      BY DEF TypeOK, Item
    <3>1. Truthful(i, stamp[r])
      BY DEF FreshInv, PlansTruthful
    <3>2. Truthful(i, t)'
      BY <2>1, <3>1, WorldKeepsTruth
    <3>3. QED BY <2>1, <3>2 DEF Truthful, Exists
  <2>3. ASSUME NEW o \in todo[r] \cup batch[r], o.kind \in Writes
        PROVE  Truthful(o, stamp[r])'
    <3> o.path \in Paths
      BY DEF TypeOK, Op
    <3>1. Truthful(o, stamp[r])
      BY <2>3 DEF FreshInv, PlansTruthful
    <3>2. Truthful(o, t)'
      BY <2>1, <3>1, WorldKeepsTruth
    <3>3. QED BY <2>1, <3>2 DEF Truthful, Exists
  <2>4. QED BY <2>2, <2>3
<1>4. StampsPast'
  BY <1>1 DEF FreshInv, StampsPast, TypeOK, Row
<1>5. NothingPlannedYet'
  BY <1>1 DEF FreshInv, NothingPlannedYet
<1>6. QED BY <1>2, <1>3, <1>4, <1>5 DEF FreshInv

-----------------------------------------------------------------------------
(* Steps of a run leave the workspace alone.  Each keeps the three parts.  *)

LEMMA StillWorld ==
  ASSUME UNCHANGED world, NEW i, NEW t
  PROVE  Truthful(i, t)' <=> Truthful(i, t)
  BY DEF Truthful, Exists

LEMMA CurrentTruthful ==
  ASSUME TypeOK, NEW p \in Paths, NEW t
  PROVE  Truthful(Current(p), t)
  BY SentinelAssumption DEF Truthful, Current, Text, Exists

LEMMA ForgetKeepsFresh ==
  ASSUME TypeOK, FreshInv, NEW r \in Runs, Forget(r), UNCHANGED <<world, tables>>
  PROVE  FreshInv'
<1>1. FreshRowsTruthful'
  BY StillWorld DEF FreshInv, FreshRowsTruthful
<1>2. PlansTruthful'
  BY DEF FreshInv, PlansTruthful, Forget, TypeOK, Truthful, Exists
<1>3. StampsPast'
  BY DEF FreshInv, StampsPast, Forget, TypeOK
<1>4. NothingPlannedYet'
  BY DEF FreshInv, NothingPlannedYet, Forget, TypeOK
<1>5. QED BY <1>1, <1>2, <1>3, <1>4 DEF FreshInv

(* While a run plans, the tables do not change and only `add` and `touch`  *)
(* grow, by the path just read.                                            *)
LEMMA PlanningKeepsFresh ==
  ASSUME TypeOK, FreshInv, NEW r \in Runs,
         UNCHANGED <<world, tables>>,
         UNCHANGED <<todo, batch>>,
         NothingPlannedYet',
         \A q \in Runs : stamp'[q] <= clock,
         \A q \in Runs :
           \/ UNCHANGED <<stamp[q], add[q], touch[q], todo[q], batch[q]>>
           \/ /\ stamp'[q] = stamp[q]
              /\ \E p \in Paths : /\ add'[q] \subseteq add[q] \cup {Current(p)}
                                  /\ touch'[q] \subseteq touch[q] \cup {Current(p)}
           \/ add'[q] = {} /\ touch'[q] = {} /\ todo[q] = {} /\ batch[q] = {}
  PROVE  FreshInv'
<1>1. FreshRowsTruthful'
  BY StillWorld DEF FreshInv, FreshRowsTruthful
<1>2. PlansTruthful'
  BY CurrentTruthful, SMTT(20) DEF FreshInv, PlansTruthful, Truthful, Exists
<1>3. StampsPast'
  BY DEF FreshInv, StampsPast, TypeOK
<1>4. QED BY <1>1, <1>2, <1>3 DEF FreshInv

LEMMA PlanningSteps ==
  ASSUME TypeOK, FreshInv, NEW r \in Runs
  PROVE  /\ Begin(r) => FreshInv'
         /\ GetBranch(r) \/ Stat(r) \/ Plan(r) => FreshInv'
         /\ \A p \in Paths :
              ReadNew(r, p) \/ SkipFresh(r, p) \/ ReadSame(r, p) \/ ReadChanged(r, p)
                => FreshInv'
<1>1. \A q \in Runs : stamp[q] <= clock
  BY DEF FreshInv, StampsPast
<1>2. ASSUME Begin(r) \/ GetBranch(r) \/ Stat(r) PROVE FreshInv'
  <2>1. UNCHANGED <<world, tables, stamp, plan, ops>>
    BY <1>2 DEF Begin, Start, StartFile, GetBranch, Stat
  <2>2. NothingPlannedYet'
    BY <1>2 DEF Begin, Start, StartFile, GetBranch, Stat, Active, FreshInv,
                NothingPlannedYet, Unplanned, TypeOK
  <2>3. QED BY <1>1, <2>1, <2>2, PlanningKeepsFresh
<1>3. ASSUME Plan(r) PROVE FreshInv'
  <2>1. add[r] = {} /\ touch[r] = {} /\ todo[r] = {} /\ batch[r] = {}
    BY <1>3 DEF FreshInv, NothingPlannedYet, Plan, Unplanned
  <2>2. UNCHANGED <<world, tables, add, touch, ops>>
    BY <1>3 DEF Plan
  <2>3. /\ stamp'[r] = clock
        /\ \A q \in Runs \ {r} : stamp'[q] = stamp[q]
    BY <1>3 DEF Plan, TypeOK
  <2>4. \A q \in Runs : stamp'[q] <= clock
    BY <1>1, <2>3 DEF TypeOK
  <2>5. NothingPlannedYet'
    BY <1>3 DEF Plan, FreshInv, NothingPlannedYet, Unplanned, TypeOK
  <2>6. QED BY <2>1, <2>2, <2>3, <2>4, <2>5, PlanningKeepsFresh
<1>4. ASSUME NEW p \in Paths,
             ReadNew(r, p) \/ SkipFresh(r, p) \/ ReadSame(r, p) \/ ReadChanged(r, p)
      PROVE  FreshInv'
  <2>1. UNCHANGED <<world, tables, stamp, todo, batch>>
    BY <1>4 DEF Reading, ReadNew, SkipFresh, ReadSame, ReadChanged
  <2>2. \A q \in Runs :
          /\ add'[q] \subseteq add[q] \cup {Current(p)}
          /\ touch'[q] \subseteq touch[q] \cup {Current(p)}
    <3>1. CASE ReadNew(r, p)
      BY <3>1 DEF ReadNew, TypeOK
    <3>2. CASE SkipFresh(r, p)
      BY <3>2 DEF SkipFresh
    <3>3. CASE ReadSame(r, p)
      BY <3>3 DEF ReadSame, TypeOK
    <3>4. CASE ReadChanged(r, p)
      BY <3>4 DEF ReadChanged, TypeOK
    <3>5. QED BY <1>4, <3>1, <3>2, <3>3, <3>4
  <2>3. NothingPlannedYet'
    <3>1. pc[r] = "read" /\ UNCHANGED <<pc, todo, batch>>
      BY <1>4 DEF Reading, ReadNew, SkipFresh, ReadSame, ReadChanged
    <3>2. \A q \in Runs \ {r} : UNCHANGED <<add[q], touch[q]>>
      BY <1>4 DEF ReadNew, SkipFresh, ReadSame, ReadChanged, TypeOK
    <3>3. QED BY <3>1, <3>2 DEF FreshInv, NothingPlannedYet, Unplanned
  <2>4. QED BY <1>1, <2>1, <2>2, <2>3, PlanningKeepsFresh
<1>5. QED BY <1>2, <1>3, <1>4

LEMMA AddOpsTruthful ==
  ASSUME TypeOK, FreshInv, NEW r \in Runs, NEW o \in AddOps(r) \cup RemoveOps(r),
         o.kind \in Writes
  PROVE  Truthful(o, stamp[r])
<1>1. o \in AddOps(r)
  BY KindTypes DEF RemoveOps, OpOf
<1>2. PICK i \in add[r] : o.path = i.path /\ o.key = i.key
  BY <1>1 DEF AddOps, OpOf
<1>3. Truthful(i, stamp[r])
  BY DEF FreshInv, PlansTruthful
<1>4. QED BY <1>2, <1>3 DEF Truthful

LEMMA SplitSteps ==
  ASSUME TypeOK, FreshInv, NEW r \in Runs, SplitFull(r) \/ SplitFile(r) \/ NextBatch(r)
  PROVE  FreshInv'
<1>1. UNCHANGED <<world, tables, stamp, add>>
  BY DEF SplitFull, SplitFile, NextBatch
<1>2. FreshRowsTruthful' /\ StampsPast'
  BY <1>1, StillWorld DEF FreshInv, FreshRowsTruthful, StampsPast
<1>3. /\ \A q \in Runs : touch'[q] \subseteq touch[q]
      /\ \A q \in Runs \ {r} : UNCHANGED <<pc[q], touch[q], todo[q], batch[q]>>
      /\ pc'[r] = "update"
  BY DEF SplitFull, SplitFile, NextBatch, TypeOK
<1>4. \A o \in todo'[r] \cup batch'[r] : o.kind \in Writes => Truthful(o, stamp[r])
  <2>1. CASE SplitFull(r)
    BY <2>1, AddOpsTruthful DEF SplitFull, TypeOK, FreshInv, NothingPlannedYet, Planned
  <2>2. CASE SplitFile(r)
    BY <2>2, AddOpsTruthful DEF SplitFile, TypeOK, FreshInv, NothingPlannedYet, Planned, Computes
  <2>3. CASE NextBatch(r)
    BY <2>3 DEF NextBatch, TypeOK, FreshInv, PlansTruthful
  <2>4. QED BY <2>1, <2>2, <2>3
<1>5. PlansTruthful'
  BY <1>1, <1>3, <1>4 DEF FreshInv, PlansTruthful, Truthful, Exists
<1>6. NothingPlannedYet'
  BY <1>1, <1>3 DEF FreshInv, NothingPlannedYet, Unplanned
<1>7. QED BY <1>2, <1>5, <1>6 DEF FreshInv

(* A row enters the catalog with an item's key and the run's stamp.        *)
LEMMA MarkRowRows ==
  ASSUME NEW rows, NEW o, NEW t, NEW x \in MarkRow(rows, o, t)
  PROVE  \/ x \in rows
         \/ o.kind \in Writes /\ x = [path |-> o.path, key |-> o.key, last |-> t]
  BY DEF MarkRow, ReplaceRow, DeleteRow, Writes

LEMMA UpdateRowsRows ==
  ASSUME NEW rows, NEW i, NEW t, NEW x \in UpdateRows(rows, i, t)
  PROVE  x \in rows \/ x = [path |-> i.path, key |-> i.key, last |-> t]
  BY DEF UpdateRows

LEMMA RowsKeepFresh ==
  ASSUME TypeOK, FreshInv, NEW r \in Runs, NEW i, Truthful(i, stamp[r]),
         UNCHANGED <<world, stamp, pc, add>>,
         \A q \in Runs : touch'[q] \subseteq touch[q],
         UNCHANGED todo,
         \A q \in Runs : batch'[q] \subseteq batch[q],
         \A b \in Branches : \A x \in catalog'[b] :
           x \in catalog[b] \/ x = [path |-> i.path, key |-> i.key, last |-> stamp[r]]
  PROVE  FreshInv'
<1> DEFINE row == [path |-> i.path, key |-> i.key, last |-> stamp[r]]
<1>1. Truthful(row, row.last)
  BY DEF Truthful
<1>2. FreshRowsTruthful'
  <2> SUFFICES ASSUME NEW b \in Branches, NEW x \in catalog'[b]
               PROVE  Truthful(x, x.last)'
    BY DEF FreshRowsTruthful
  <2>1. Truthful(x, x.last)
    BY <1>1 DEF FreshInv, FreshRowsTruthful
  <2>2. QED BY <2>1, StillWorld
<1>3. PlansTruthful'
  BY DEF FreshInv, PlansTruthful, Truthful, Exists
<1>4. StampsPast'
  BY DEF FreshInv, StampsPast
<1>5. NothingPlannedYet'
  BY DEF FreshInv, NothingPlannedYet
<1>6. QED BY <1>2, <1>3, <1>4, <1>5 DEF FreshInv

(* Rows of other branches stay, and a deletion brings none.                *)
LEMMA RowsDeletedKeepFresh ==
  ASSUME TypeOK, FreshInv,
         UNCHANGED <<world, stamp, pc, add, touch, todo>>,
         \A q \in Runs : batch'[q] \subseteq batch[q],
         \A b \in Branches : catalog'[b] \subseteq catalog[b]
  PROVE  FreshInv'
<1>1. FreshRowsTruthful'
  BY StillWorld DEF FreshInv, FreshRowsTruthful
<1>2. PlansTruthful'
  BY DEF FreshInv, PlansTruthful, Truthful, Exists
<1>3. StampsPast'
  BY DEF FreshInv, StampsPast
<1>4. NothingPlannedYet'
  BY DEF FreshInv, NothingPlannedYet
<1>5. QED BY <1>1, <1>2, <1>3, <1>4 DEF FreshInv

LEMMA MarkingSteps ==
  ASSUME TypeOK, FreshInv, NEW r \in Runs
  PROVE  /\ \A o : MarkCatalog(r, o) => FreshInv'
         /\ \A o : MarkGlobal(r, o) => FreshInv'
         /\ \A i : Touch(r, i) => FreshInv'
<1>1. ASSUME NEW o, MarkCatalog(r, o) PROVE FreshInv'
  <2>1. /\ UNCHANGED <<world, stamp, pc, add, touch, todo>>
        /\ \A q \in Runs : batch'[q] \subseteq batch[q]
        /\ o \in batch[r] /\ tag[r] \in Branches
    BY <1>1 DEF MarkCatalog, TypeOK
  <2>2. \A b \in Branches : \A x \in catalog'[b] :
          \/ x \in catalog[b]
          \/ o.kind \in Writes /\ x = [path |-> o.path, key |-> o.key, last |-> stamp[r]]
    BY <1>1, <2>1, MarkRowRows DEF MarkCatalog, LastUpdated, TypeOK
  <2>3. CASE o.kind \in Writes
    <3>1. Truthful(o, stamp[r])
      BY <2>1, <2>3 DEF FreshInv, PlansTruthful
    <3>2. QED BY <2>1, <2>2, <3>1, RowsKeepFresh
  <2>4. CASE o.kind \notin Writes
    BY <2>1, <2>2, <2>4, RowsDeletedKeepFresh
  <2>5. QED BY <2>3, <2>4
<1>2. ASSUME NEW o, MarkGlobal(r, o) PROVE FreshInv'
  BY <1>2, RowsDeletedKeepFresh DEF MarkGlobal
<1>3. ASSUME NEW i, Touch(r, i) PROVE FreshInv'
  <2>1. /\ UNCHANGED <<world, stamp, pc, add, todo, batch>>
        /\ \A q \in Runs : touch'[q] \subseteq touch[q]
        /\ i \in touch[r] /\ tag[r] \in Branches
    BY <1>3 DEF Touch, TypeOK
  <2>2. \A b \in Branches : \A x \in catalog'[b] :
          x \in catalog[b] \/ x = [path |-> i.path, key |-> i.key, last |-> stamp[r]]
    BY <1>3, <2>1, UpdateRowsRows DEF Touch, LastUpdated, TypeOK
  <2>3. Truthful(i, stamp[r])
    BY <2>1 DEF FreshInv, PlansTruthful
  <2>4. QED BY <2>1, <2>2, <2>3, RowsKeepFresh
<1>4. QED BY <1>1, <1>2, <1>3

LEMMA InitFresh == Init => FreshInv
  BY DEF Init, FreshInv, FreshRowsTruthful, PlansTruthful, StampsPast, NothingPlannedYet

LEMMA NextFresh == TypeOK /\ FreshInv /\ [Next]_vars => FreshInv'
<1> SUFFICES ASSUME TypeOK, FreshInv, [Next]_vars PROVE FreshInv'
  OBVIOUS
<1>1. CASE World
  BY <1>1, WorldKeepsFresh
<1>2. ASSUME NEW r \in Runs, Begin(r) PROVE FreshInv'
  BY <1>2, PlanningSteps
<1>3. ASSUME NEW r \in Runs, Progress(r) PROVE FreshInv'
  BY <1>3, PlanningSteps, SplitSteps, MarkingSteps DEF Progress
<1>4. ASSUME NEW r \in Runs, Finish(r) \/ Fail(r) PROVE FreshInv'
  BY <1>4, ForgetKeepsFresh
     DEF Finish, Fail, StatFails, NothingToCompute, TouchFails, Stop
<1>5. CASE UNCHANGED vars
  BY <1>5, StillWorld, RowsDeletedKeepFresh DEF vars
<1>6. QED BY <1>1, <1>2, <1>3, <1>4, <1>5 DEF Next

(* In an editor whose unsaved edits are saved or kept, never thrown away,   *)
(* a row the next refresh would skip as up to date has the key of the       *)
(* file's text: however many runs overlap, whatever is written or checked   *)
(* out while they read, and wherever each is cut off.                       *)
THEOREM FreshRowsStayTruthful == Spec => []FreshRowsTruthful
<1>1. Init => TypeOK /\ FreshInv
  BY InitType, InitFresh
<1>2. TypeOK /\ FreshInv /\ [Next]_vars => (TypeOK /\ FreshInv)'
  BY NextType, NextFresh
<1>3. TypeOK /\ FreshInv => FreshRowsTruthful
  BY DEF FreshInv
<1>4. QED BY <1>1, <1>2, <1>3, PTL DEF Spec

-----------------------------------------------------------------------------
(* Undisturbed refreshes.                                                  *)

Right(i) == Exists(i.path) /\ i.key = disk[i.path].content

CatalogUnique == \A b \in Branches : \A x, y \in catalog[b] : SameEntry(x, y) => x = y

Undone(r) == todo[r] \cup batch[r]

(* A run that nothing has disturbed is the only one.                       *)
WholeAlone ==
  /\ calm \in 0 .. 2 /\ whole \subseteq Runs
  /\ \A r \in whole : Active(r) /\ full[r] /\ \A q \in Runs \ {r} : ~Active(q)
  /\ calm > 0 => \A q \in Runs : Active(q) => q \in whole

(* It works with the files and the catalog as they are.                    *)
PlanRight(r) ==
  /\ pc[r] \in {"branch", "stat", "plan"} => files[r] = {p \in Paths : Exists(p)}
  /\ pc[r] # "branch" => tag[r] = branch
  /\ pc[r] \in {"plan", "read"} => \A p \in files[r] : Exists(p) /\ stats[r][p] = disk[p].mtime
  /\ pc[r] = "read" => saved[r] = catalog[branch]
  /\ \A i \in add[r] \cup touch[r] : Right(i)
  /\ \A o \in Undone(r) : o.kind \in Writes => Right(o)

(* Each row that is wrong will be removed.                                 *)
StaleGoes(r) ==
  /\ pc[r] = "read" =>
       \A x \in saved[r] : Right(x) \/ x.path \in files[r] \/ ItemOf(x) \in remove[r]
  /\ pc[r] = "update" =>
       \A x \in catalog[branch] :
         Right(x) \/ \E o \in Undone(r) : o.kind \notin Writes /\ SameEntry(x, o)

(* Where no row is wrong, none is removed, and each file has its row or    *)
(* will get it.                                                            *)
FilesStay(r) ==
  /\ pc[r] = "read" =>
       /\ remove[r] = {}
       /\ \A p \in Paths : Exists(p) =>
            p \in files[r] \/ Current(p) \in add[r] \/ Indexed(p, disk[p].content)
  /\ pc[r] = "update" =>
       /\ \A o \in Undone(r) : o.kind \in Writes
       /\ \A p \in Paths : Exists(p) =>
            \/ Indexed(p, disk[p].content)
            \/ \E o \in Undone(r) : o.path = p /\ o.key = disk[p].content

NoStale    == \A x \in catalog[branch] : Right(x)
AllIndexed == \A p \in Paths : Exists(p) => Indexed(p, disk[p].content)

RunInv(r) == PlanRight(r) /\ StaleGoes(r) /\ (calm > 0 => FilesStay(r))
CalmInv   == (calm > 0 => NoStale) /\ (calm = 2 => AllIndexed)

ConvInv ==
  /\ TypeOK /\ FreshInv /\ CatalogUnique /\ WholeAlone
  /\ NoUnsavedEdits => CalmInv /\ \A r \in whole : RunInv(r)

LEMMA SavedText ==
  ASSUME NoUnsavedEdits, NEW p \in Paths, Exists(p)
  PROVE  Text(p) = disk[p].content /\ Right(Current(p))
  BY DEF NoUnsavedEdits, Text, Right, Current, Exists

(* The steps of a run that only read.                                      *)
LEMMA StartingStep ==
  ASSUME ConvInv, NoUnsavedEdits, NEW r \in whole, GetBranch(r) \/ Stat(r), UNCHANGED calm
  PROVE  RunInv(r)' /\ CalmInv'
<1> r \in Runs
  BY DEF ConvInv, WholeAlone
<1>1. RunInv(r) /\ CalmInv /\ TypeOK /\ NothingPlannedYet
  BY DEF ConvInv, FreshInv
<1>2. UNCHANGED <<world, tables, add, touch, todo, batch, files, saved>> /\ pc'[r] \in {"stat", "plan"}
  BY <1>1 DEF GetBranch, Stat, TypeOK
<1>3. CalmInv'
  BY <1>1, <1>2 DEF CalmInv, NoStale, Right, Exists, AllIndexed, Indexed
<1>4. PlanRight(r)'
  <2>1. CASE GetBranch(r)
    BY <1>1, <1>2, <2>1 DEF GetBranch, RunInv, PlanRight, Right, Exists, Undone, TypeOK
  <2>2. CASE Stat(r)
    <3>1. stats'[r] = MTimes(files[r]) /\ pc[r] = "stat" /\ UNCHANGED tag
      BY <1>1, <2>2 DEF Stat, TypeOK
    <3>2. files[r] \subseteq Paths
      BY <1>1 DEF TypeOK
    <3>3. QED BY <1>1, <1>2, <2>2, <3>1, <3>2 DEF Stat, RunInv, PlanRight, Right, Exists, Undone, MTimes
  <2>3. QED BY <2>1, <2>2
<1>5. StaleGoes(r)' /\ FilesStay(r)'
  BY <1>2 DEF StaleGoes, FilesStay
<1>6. QED BY <1>3, <1>4, <1>5 DEF RunInv

LEMMA PlanMadeStep ==
  ASSUME ConvInv, NoUnsavedEdits, NEW r \in whole, Plan(r), UNCHANGED calm
  PROVE  RunInv(r)' /\ CalmInv'
<1> r \in Runs
  BY DEF ConvInv, WholeAlone
<1>1. RunInv(r) /\ CalmInv /\ TypeOK
  BY DEF ConvInv
<1>2. /\ UNCHANGED <<world, tables, tag, files, stats, add, touch, ops>>
      /\ pc[r] = "plan" /\ pc'[r] = "read" /\ saved'[r] = catalog[tag[r]]
      /\ remove'[r] = {ItemOf(x) : x \in Unlisted(r)}
  BY <1>1 DEF Plan, TypeOK
<1>3. tag[r] = branch /\ files[r] = {p \in Paths : Exists(p)}
  BY <1>1, <1>2 DEF RunInv, PlanRight
<1>4. CalmInv'
  BY <1>1, <1>2 DEF CalmInv, NoStale, Right, Exists, AllIndexed, Indexed
<1>5. PlanRight(r)'
  BY <1>1, <1>2, <1>3 DEF RunInv, PlanRight, Right, Exists, Undone
<1>6. StaleGoes(r)'
  BY <1>2, <1>3 DEF StaleGoes, Unlisted
<1>7. ASSUME calm > 0 PROVE FilesStay(r)'
  <2>1. Unlisted(r) = {}
    BY <1>1, <1>3, <1>7 DEF Unlisted, CalmInv, NoStale, Right, TypeOK, Row
  <2>2. QED BY <1>2, <1>3, <2>1 DEF FilesStay, Exists
<1>8. QED BY <1>4, <1>5, <1>6, <1>7 DEF RunInv

Reads(r, p) == ReadNew(r, p) \/ SkipFresh(r, p) \/ ReadSame(r, p) \/ ReadChanged(r, p)

(* A row that is skipped as fresh is right, and the others of the file go. *)
LEMMA RowsRead ==
  ASSUME ConvInv, NoUnsavedEdits, NEW r \in whole, NEW p \in Paths, Reads(r, p)
  PROVE  /\ p \in files[r] /\ pc[r] = "read" /\ Exists(p)
         /\ remove[r] \subseteq remove'[r] /\ add[r] \subseteq add'[r]
         /\ add'[r] \cup touch'[r] \subseteq add[r] \cup touch[r] \cup {Current(p)}
         /\ \A x \in RowsOf(r, p) : Right(x) \/ ItemOf(x) \in remove'[r]
         /\ NoStale => /\ remove'[r] = remove[r]
                       /\ Current(p) \in add'[r] \/ Indexed(p, disk[p].content)
<1> r \in Runs
  BY DEF ConvInv, WholeAlone
<1>1. PlanRight(r) /\ TypeOK /\ FreshInv /\ CatalogUnique
  BY DEF ConvInv, RunInv
<1>2. p \in files[r] /\ pc[r] = "read" /\ tag[r] = branch /\ saved[r] = catalog[branch]
      /\ Exists(p) /\ stats[r][p] = disk[p].mtime /\ branch \in Branches
  BY <1>1 DEF Reads, ReadNew, SkipFresh, ReadSame, ReadChanged, Reading, PlanRight, TypeOK
<1>3. Text(p) = disk[p].content
  BY <1>2, SavedText
<1>4. ASSUME NEW x \in RowsOf(r, p)
      PROVE  /\ x.path = p /\ x \in catalog[branch]
             /\ \A y \in RowsOf(r, p) : y = x \/ ItemOf(y) \in Rest(r, x)
             /\ NoStale => x.key = Text(p) /\ Rest(r, x) = {}
  <2>1. x.path = p /\ x \in catalog[branch]
    BY <1>2 DEF RowsOf
  <2>2. \A y \in RowsOf(r, p) : y = x \/ ItemOf(y) \in Rest(r, x)
    BY <2>1 DEF Rest
  <2>3. ASSUME NoStale PROVE x.key = Text(p) /\ RowsOf(r, p) \ {x} = {}
    BY <1>1, <1>2, <1>3, <2>1, <2>3 DEF NoStale, Right, RowsOf, CatalogUnique, SameEntry
  <2>4. QED BY <2>1, <2>2, <2>3 DEF Rest
<1>5. CASE ReadNew(r, p)
  BY <1>1, <1>2, <1>5 DEF ReadNew, TypeOK
<1>6. CASE SkipFresh(r, p)
  <2>1. PICK x \in RowsOf(r, p) : /\ ~NeedsHash(x, stats[r][p])
                                  /\ remove' = [remove EXCEPT ![r] = @ \cup Rest(r, x)]
    BY <1>6 DEF SkipFresh
  <2>2. x.last \in Nat /\ disk[p].mtime \in Nat
    BY <1>1, <1>2, <1>4 DEF TypeOK, Row, File, Exists
  <2>3. Truthful(x, x.last) /\ disk[p].mtime <= x.last
    BY <1>1, <1>2, <1>4, <2>1, <2>2 DEF NeedsHash, FreshInv, FreshRowsTruthful
  <2>4. Right(x)
    BY <1>2, <1>4, <2>3 DEF Truthful, Right, NoUnsavedEdits
  <2>5. NoStale => Indexed(p, disk[p].content)
    BY <1>3, <1>4 DEF Indexed
  <2>6. remove'[r] = remove[r] \cup Rest(r, x) /\ UNCHANGED <<add, touch>>
    BY <1>1, <1>6, <2>1 DEF SkipFresh, TypeOK
  <2>7. QED BY <1>2, <1>4, <2>4, <2>5, <2>6
<1>7. CASE ReadSame(r, p)
  <2>1. PICK x \in RowsOf(r, p) : /\ x.key = Text(p)
                                  /\ remove' = [remove EXCEPT ![r] = @ \cup Rest(r, x)]
    BY <1>7 DEF ReadSame
  <2>2. Right(x) /\ Indexed(p, disk[p].content)
    BY <1>2, <1>3, <1>4, <2>1 DEF Right, Indexed
  <2>3. /\ remove'[r] = remove[r] \cup Rest(r, x) /\ UNCHANGED add
        /\ touch'[r] = touch[r] \cup {Current(p)}
    BY <1>1, <1>7, <2>1 DEF ReadSame, TypeOK
  <2>4. QED BY <1>2, <1>4, <2>2, <2>3
<1>8. CASE ReadChanged(r, p)
  <2>1. PICK x \in RowsOf(r, p) :
          /\ x.key # Text(p)
          /\ remove' = [remove EXCEPT ![r] = @ \cup Rest(r, x) \cup {ItemOf(x)}]
    BY <1>8 DEF ReadChanged
  <2>2. /\ remove'[r] = remove[r] \cup Rest(r, x) \cup {ItemOf(x)} /\ UNCHANGED touch
        /\ add'[r] = add[r] \cup {Current(p)}
    BY <1>1, <1>8, <2>1 DEF ReadChanged, TypeOK
  <2>3. QED BY <1>2, <1>4, <2>1, <2>2
<1>9. QED BY <1>5, <1>6, <1>7, <1>8 DEF Reads

LEMMA ReadStep ==
  ASSUME ConvInv, NoUnsavedEdits, NEW r \in whole, NEW p \in Paths, Reads(r, p), UNCHANGED calm
  PROVE  RunInv(r)' /\ CalmInv'
<1> r \in Runs
  BY DEF ConvInv, WholeAlone
<1>1. RunInv(r) /\ CalmInv /\ TypeOK
  BY DEF ConvInv
<1>2. /\ UNCHANGED <<world, tables, pc, tag, stats, saved, ops>>
      /\ files'[r] = files[r] \ {p}
  BY <1>1 DEF Reads, ReadNew, SkipFresh, ReadSame, ReadChanged, Reading, TypeOK
<1>3. /\ p \in files[r] /\ pc[r] = "read" /\ Exists(p)
      /\ remove[r] \subseteq remove'[r] /\ add[r] \subseteq add'[r]
      /\ add'[r] \cup touch'[r] \subseteq add[r] \cup touch[r] \cup {Current(p)}
      /\ \A x \in RowsOf(r, p) : Right(x) \/ ItemOf(x) \in remove'[r]
      /\ NoStale => /\ remove'[r] = remove[r]
                    /\ Current(p) \in add'[r] \/ Indexed(p, disk[p].content)
  BY RowsRead
<1>4. Right(Current(p))
  BY <1>3, SavedText
<1>5. CalmInv'
  BY <1>1, <1>2 DEF CalmInv, NoStale, Right, Exists, AllIndexed, Indexed
<1>6. PlanRight(r)'
  BY <1>1, <1>2, <1>3, <1>4 DEF RunInv, PlanRight, Right, Exists, Undone
<1>7. StaleGoes(r)'
  BY <1>1, <1>2, <1>3 DEF RunInv, StaleGoes, Right, Exists, RowsOf
<1>8. ASSUME calm > 0 PROVE FilesStay(r)'
  <2>1. NoStale /\ FilesStay(r)
    BY <1>1, <1>8 DEF CalmInv, RunInv
  <2>2. \A q \in Paths : Current(q)' = Current(q)
    BY <1>2 DEF Current, Text, Exists
  <2>3. ASSUME NEW q \in Paths, Exists(q)
        PROVE  q \in files'[r] \/ Current(q) \in add'[r] \/ Indexed(q, disk[q].content)
    BY <1>2, <1>3, <2>1, <2>3 DEF FilesStay
  <2>4. QED BY <1>2, <1>3, <2>1, <2>2, <2>3 DEF FilesStay, Exists, Indexed
<1>9. QED BY <1>2, <1>5, <1>6, <1>7, <1>8 DEF RunInv

LEMMA SplitStep ==
  ASSUME ConvInv, NoUnsavedEdits, NEW r \in whole, SplitFull(r), UNCHANGED calm
  PROVE  RunInv(r)' /\ CalmInv'
<1> r \in Runs
  BY DEF ConvInv, WholeAlone
<1>1. RunInv(r) /\ CalmInv /\ TypeOK /\ NothingPlannedYet
  BY DEF ConvInv, FreshInv
<1>2. /\ UNCHANGED <<world, tables, tag, stats, saved, files, plan>> /\ pc'[r] = "update"
      /\ pc[r] = "read" /\ files[r] = {} /\ todo'[r] = AddOps(r) \cup RemoveOps(r)
      /\ batch'[r] = {} /\ saved[r] = catalog[branch] /\ tag[r] = branch
  BY <1>1 DEF SplitFull, Planned, TypeOK, NothingPlannedYet, RunInv, PlanRight
<1>3. /\ \A i \in add[r] : \E o \in AddOps(r) : o.path = i.path /\ o.key = i.key
      /\ \A o \in AddOps(r) : o.kind \in Writes /\ Right(o)
  <2>1. \A i \in add[r] : Right(i)
    BY <1>1 DEF RunInv, PlanRight
  <2>2. ASSUME NEW i \in add[r] PROVE \E o \in AddOps(r) : o.path = i.path /\ o.key = i.key
    <3>1. OpOf(KindOfAdd(i), i) \in AddOps(r)
      BY DEF AddOps
    <3>2. QED BY <3>1 DEF OpOf
  <2>3. ASSUME NEW o \in AddOps(r) PROVE o.kind \in Writes /\ Right(o)
    <3>1. PICK i \in add[r] : o = OpOf(KindOfAdd(i), i)
      BY DEF AddOps
    <3>2. o.kind = KindOfAdd(i) /\ o.path = i.path /\ o.key = i.key
      BY <3>1 DEF OpOf
    <3>3. QED BY <2>1, <3>2, KindTypes DEF Right
  <2>4. QED BY <2>2, <2>3
<1>4. /\ \A i \in remove[r] : \E o \in RemoveOps(r) : o.path = i.path /\ o.key = i.key
      /\ \A o \in RemoveOps(r) : o.kind \notin Writes
      /\ remove[r] = {} => RemoveOps(r) = {}
  <2>1. ASSUME NEW i \in remove[r] PROVE \E o \in RemoveOps(r) : o.path = i.path /\ o.key = i.key
    <3>1. OpOf(KindOfRemove(i), i) \in RemoveOps(r)
      BY DEF RemoveOps
    <3>2. QED BY <3>1 DEF OpOf
  <2>2. ASSUME NEW o \in RemoveOps(r) PROVE o.kind \notin Writes
    <3>1. PICK i \in remove[r] : o = OpOf(KindOfRemove(i), i)
      BY DEF RemoveOps
    <3>2. QED BY <3>1, KindTypes DEF OpOf
  <2>3. QED BY <2>1, <2>2 DEF RemoveOps
<1>5. CalmInv'
  BY <1>1, <1>2 DEF CalmInv, NoStale, Right, Exists, AllIndexed, Indexed
<1>6. PlanRight(r)'
  BY <1>1, <1>2, <1>3, <1>4 DEF RunInv, PlanRight, Right, Exists, Undone
<1>7. StaleGoes(r)'
  <2>1. ASSUME NEW x \in catalog[branch], ~Right(x)
        PROVE  \E o \in RemoveOps(r) : o.kind \notin Writes /\ SameEntry(x, o)
    <3>1. ItemOf(x) \in remove[r]
      BY <1>1, <1>2, <2>1 DEF RunInv, StaleGoes
    <3>2. QED BY <1>4, <3>1 DEF ItemOf, SameEntry
  <2>2. QED BY <1>2, <2>1 DEF StaleGoes, Right, Exists, Undone
<1>8. ASSUME calm > 0 PROVE FilesStay(r)'
  <2>1. FilesStay(r)
    BY <1>1, <1>8 DEF RunInv
  <2>2. \A o \in Undone(r)' : o.kind \in Writes
    BY <1>2, <1>3, <1>4, <2>1 DEF FilesStay, Undone
  <2>3. ASSUME NEW p \in Paths, Exists(p), ~Indexed(p, disk[p].content)
        PROVE  \E o \in Undone(r)' : o.path = p /\ o.key = disk[p].content
    <3>1. Current(p) \in add[r]
      BY <1>2, <2>1, <2>3 DEF FilesStay
    <3>2. PICK o \in AddOps(r) : o.path = p /\ o.key = disk[p].content
      BY <1>3, <2>3, <3>1, SavedText DEF Current
    <3>3. QED BY <1>2, <3>2 DEF Undone
  <2>4. QED BY <1>2, <2>2, <2>3 DEF FilesStay, Exists, Indexed
<1>9. QED BY <1>2, <1>5, <1>6, <1>7, <1>8 DEF RunInv

LEMMA BatchStep ==
  ASSUME ConvInv, NoUnsavedEdits, NEW r \in whole, NextBatch(r), UNCHANGED calm
  PROVE  RunInv(r)' /\ CalmInv'
<1> r \in Runs
  BY DEF ConvInv, WholeAlone
<1>1. RunInv(r) /\ CalmInv /\ TypeOK
  BY DEF ConvInv
<1>2. UNCHANGED <<world, tables, pc, scope, plan>> /\ Undone(r)' = Undone(r)
  BY <1>1 DEF NextBatch, Undone, TypeOK
<1>3. CalmInv'
  BY <1>1, <1>2 DEF CalmInv, NoStale, Right, Exists, AllIndexed, Indexed
<1>4. RunInv(r)'
  BY <1>1, <1>2 DEF RunInv, PlanRight, StaleGoes, FilesStay, Right, Exists, Indexed, Current, Text
<1>5. QED BY <1>3, <1>4

LEMMA MarkStep ==
  ASSUME ConvInv, NoUnsavedEdits, NEW r \in whole, NEW o, MarkCatalog(r, o), UNCHANGED calm
  PROVE  RunInv(r)' /\ CalmInv'
<1> r \in Runs
  BY DEF ConvInv, WholeAlone
<1> DEFINE new == [path |-> o.path, key |-> o.key, last |-> stamp[r]]
<1>1. RunInv(r) /\ CalmInv /\ TypeOK
  BY DEF ConvInv
<1>2. /\ UNCHANGED <<world, pc, scope, plan, todo>> /\ pc[r] = "update"
      /\ o \in batch[r] /\ batch'[r] = batch[r] \ {o} /\ tag[r] = branch
  BY <1>1 DEF MarkCatalog, TypeOK, RunInv, PlanRight
<1>3. o \in Undone(r) /\ Undone(r)' \subseteq Undone(r) /\ Undone(r) \subseteq Undone(r)' \cup {o}
  BY <1>2 DEF Undone
<1>4. catalog'[branch] = MarkRow(catalog[branch], o, stamp[r])
  BY <1>1, <1>2 DEF MarkCatalog, LastUpdated, TypeOK
<1>5. CASE o.kind \in Writes
  <2>1. catalog'[branch] = {x \in catalog[branch] : ~SameEntry(x, o)} \cup {new}
    BY <1>4, <1>5 DEF MarkRow, ReplaceRow, Writes
  <2>2. Right(o) /\ Right(new)
    BY <1>1, <1>3, <1>5 DEF RunInv, PlanRight, Right
  <2>3. \A p \in Paths : Indexed(p, disk[p].content) => Indexed(p, disk[p].content)'
    <3> SUFFICES ASSUME NEW p \in Paths, Indexed(p, disk[p].content)
                 PROVE  Indexed(p, disk[p].content)'
      OBVIOUS
    <3>1. PICK x \in catalog[branch] : x.path = p /\ x.key = disk[p].content
      BY DEF Indexed
    <3>2. \E y \in catalog'[branch] : y.path = x.path /\ y.key = x.key
      <4>1. new \in catalog'[branch] /\ new.path = o.path /\ new.key = o.key
        BY <2>1
      <4> HIDE DEF new
      <4>2. QED BY <2>1, <3>1, <4>1 DEF SameEntry
    <3>3. QED BY <1>2, <3>1, <3>2 DEF Indexed
  <2>4. Exists(o.path) => Indexed(o.path, disk[o.path].content)'
    BY <1>2, <2>1, <2>2 DEF Indexed, Right
  <2>5. CalmInv'
    BY <1>1, <1>2, <2>1, <2>2, <2>3 DEF CalmInv, NoStale, Right, Exists, AllIndexed
  <2>6. PlanRight(r)'
    BY <1>1, <1>2, <1>3 DEF RunInv, PlanRight, Right, Exists
  <2>7. StaleGoes(r)'
    BY <1>1, <1>2, <1>3, <1>5, <2>1, <2>2 DEF RunInv, StaleGoes, Right, Exists
  <2>8. ASSUME calm > 0 PROVE FilesStay(r)'
    <3>1. FilesStay(r)
      BY <1>1, <2>8 DEF RunInv
    <3>2. ASSUME NEW p \in Paths, Exists(p)
          PROVE  \/ Indexed(p, disk[p].content)'
                 \/ \E q \in Undone(r)' : q.path = p /\ q.key = disk[p].content
      BY <1>2, <1>3, <2>2, <2>3, <2>4, <3>1, <3>2 DEF FilesStay, Right
    <3>3. QED BY <1>2, <1>3, <3>1, <3>2 DEF FilesStay, Exists
  <2>9. QED BY <1>2, <2>5, <2>6, <2>7, <2>8 DEF RunInv
<1>6. CASE o.kind \notin Writes
  <2>1. catalog'[branch] = {x \in catalog[branch] : ~SameEntry(x, o)}
    BY <1>4, <1>6 DEF MarkRow, DeleteRow, Writes
  <2>2. ~(calm > 0)
    BY <1>1, <1>2, <1>3, <1>6 DEF RunInv, FilesStay
  <2>3. PlanRight(r)'
    BY <1>1, <1>2, <1>3 DEF RunInv, PlanRight, Right, Exists
  <2>4. StaleGoes(r)'
    BY <1>1, <1>2, <1>3, <2>1 DEF RunInv, StaleGoes, Right, Exists
  <2>5. QED BY <2>2, <2>3, <2>4 DEF RunInv, CalmInv
<1>7. QED BY <1>5, <1>6

LEMMA TouchStep ==
  ASSUME ConvInv, NoUnsavedEdits, NEW r \in whole, NEW i \in touch[r], Touch(r, i), UNCHANGED calm
  PROVE  RunInv(r)' /\ CalmInv'
<1> r \in Runs
  BY DEF ConvInv, WholeAlone
<1>1. RunInv(r) /\ CalmInv /\ TypeOK
  BY DEF ConvInv
<1>2. /\ UNCHANGED <<world, pc, scope, add, remove, ops>> /\ pc[r] = "update"
      /\ touch'[r] \subseteq touch[r] /\ tag[r] = branch /\ Undone(r) = {} /\ Undone(r)' = {}
  BY <1>1 DEF Touch, AllMarked, Undone, TypeOK, RunInv, PlanRight
<1>3. catalog'[branch] = UpdateRows(catalog[branch], i, stamp[r])
  BY <1>1, <1>2 DEF Touch, LastUpdated, TypeOK
<1>4. Right(i)
  BY <1>1 DEF RunInv, PlanRight
<1>5. \A x \in catalog'[branch] : x \in catalog[branch] \/ (x.path = i.path /\ x.key = i.key)
  BY <1>3 DEF UpdateRows
<1>6. ASSUME NEW p \in Paths, Indexed(p, disk[p].content) PROVE Indexed(p, disk[p].content)'
  <2>1. PICK x \in catalog[branch] : x.path = p /\ x.key = disk[p].content
    BY <1>6 DEF Indexed
  <2>2. CASE p # i.path
    BY <1>2, <1>3, <2>1, <2>2 DEF Indexed, UpdateRows
  <2>3. CASE p = i.path
    <3>1. [path |-> i.path, key |-> i.key, last |-> stamp[r]] \in catalog'[branch]
      BY <1>3, <2>1, <2>3 DEF UpdateRows
    <3>2. QED BY <1>2, <1>4, <2>3, <3>1 DEF Indexed, Right
  <2>4. QED BY <2>2, <2>3
<1>7. CalmInv'
  BY <1>1, <1>2, <1>4, <1>5, <1>6 DEF CalmInv, NoStale, Right, Exists, AllIndexed
<1>8. PlanRight(r)'
  BY <1>1, <1>2 DEF RunInv, PlanRight, Right, Exists
<1>9. StaleGoes(r)'
  BY <1>1, <1>2, <1>4, <1>5 DEF RunInv, StaleGoes, Right, Exists
<1>10. (calm > 0 => FilesStay(r))'
  BY <1>1, <1>2, <1>6 DEF RunInv, FilesStay, Exists
<1>11. QED BY <1>7, <1>8, <1>9, <1>10 DEF RunInv

(* Whatever overlaps, a path has one row for each key.                     *)
LEMMA CatalogStaysUnique ==
  ASSUME TypeOK, CatalogUnique, [Next]_vars
  PROVE  CatalogUnique'
<1>1. ASSUME NEW r \in Runs, NEW o, MarkCatalog(r, o) PROVE CatalogUnique'
  <2>1. tag[r] \in Branches
    BY DEF TypeOK
  <2>2. ASSUME NEW b \in Branches
        PROVE  catalog'[b] = IF b = tag[r] THEN MarkRow(catalog[b], o, stamp[r]) ELSE catalog[b]
    BY <1>1, <2>1 DEF MarkCatalog, LastUpdated, TypeOK
  <2>3. ASSUME NEW b \in Branches, NEW x \in catalog'[b], NEW y \in catalog'[b], SameEntry(x, y)
        PROVE  x = y
    <3>1. x \in catalog[b] /\ y \in catalog[b] => x = y
      BY <2>3 DEF CatalogUnique
    <3>2. CASE b # tag[r]
      BY <2>2, <2>3, <3>1, <3>2
    <3>3. CASE b = tag[r]
      <4>1. \A z \in catalog'[b] : \/ z \in catalog[b] /\ ~SameEntry(z, o)
                                  \/ z = [path |-> o.path, key |-> o.key, last |-> stamp[r]]
        BY <2>2, <3>3 DEF MarkRow, ReplaceRow, DeleteRow
      <4>2. QED BY <2>3, <3>1, <4>1 DEF SameEntry
    <3>4. QED BY <3>2, <3>3
  <2>4. QED BY <2>3 DEF CatalogUnique, SameEntry
<1>2. ASSUME NEW r \in Runs, NEW i, Touch(r, i) PROVE CatalogUnique'
  <2>1. tag[r] \in Branches /\ ~UpdateConflicts(catalog[tag[r]], i)
    BY <1>2 DEF TypeOK, Touch
  <2>2. ASSUME NEW b \in Branches
        PROVE  catalog'[b] = IF b = tag[r] THEN UpdateRows(catalog[b], i, stamp[r]) ELSE catalog[b]
    BY <1>2, <2>1 DEF Touch, LastUpdated, TypeOK
  <2>3. ASSUME NEW b \in Branches, NEW x \in catalog'[b], NEW y \in catalog'[b], SameEntry(x, y)
        PROVE  x = y
    <3>1. x \in catalog[b] /\ y \in catalog[b] => x = y
      BY <2>3 DEF CatalogUnique
    <3>2. CASE b # tag[r]
      BY <2>2, <2>3, <3>1, <3>2
    <3>3. CASE b = tag[r]
      <4>1. \A z \in catalog'[b] : \/ z \in catalog[b] /\ z.path # i.path
                                  \/ z = [path |-> i.path, key |-> i.key, last |-> stamp[r]]
        <5>1. catalog'[b] = UpdateRows(catalog[b], i, stamp[r])
          BY <2>2, <3>3
        <5>2. QED BY <5>1 DEF UpdateRows
      <4>2. QED BY <2>3, <3>1, <4>1 DEF SameEntry
    <3>4. QED BY <3>2, <3>3
  <2>4. QED BY <2>3 DEF CatalogUnique, SameEntry
<1>3. CASE UNCHANGED catalog
  BY <1>3 DEF CatalogUnique
<1>4. CASE World
  BY <1>3, <1>4 DEF World, WriteFile, Edit, DeleteFile, Save, Checkout
<1>5. ASSUME NEW r \in Runs, Begin(r) \/ Finish(r) \/ Fail(r) PROVE CatalogUnique'
  BY <1>3, <1>5 DEF Begin, Start, StartFile, Finish, Fail, StatFails, NothingToCompute, TouchFails, Stop
<1>6. ASSUME NEW r \in Runs, Progress(r) PROVE CatalogUnique'
  BY <1>1, <1>2, <1>3, <1>6 DEF Progress, GetBranch, Stat, Plan, ReadNew, SkipFresh, ReadSame,
     ReadChanged, Reading, SplitFull, SplitFile, NextBatch, MarkGlobal
<1>7. QED BY <1>3, <1>4, <1>5, <1>6 DEF Next, vars

LEMMA ConvNextIsNext == [ConvNext]_convVars => [Next]_vars
  BY DEF ConvNext, convVars, Next, Begin

(* A run that has taken a step was under way before, and still is.         *)
LEMMA ProgressStep ==
  ASSUME ConvInv, NEW q \in Runs, Progress(q), UNCHANGED <<calm, whole>>
  PROVE  ConvInv'
<1>1. TypeOK /\ FreshInv /\ CatalogUnique /\ WholeAlone /\ [Next]_vars
  BY DEF ConvInv, Next
<1>2. TypeOK' /\ FreshInv' /\ CatalogUnique'
  BY <1>1, NextType, NextFresh, CatalogStaysUnique
<1>3. UNCHANGED world
  BY DEF Progress, GetBranch, Stat, Plan, ReadNew, SkipFresh, ReadSame, ReadChanged, Reading,
         SplitFull, SplitFile, NextBatch, MarkCatalog, MarkGlobal, Touch
<1>4. CASE \E o \in marked[q] : MarkGlobal(q, o)
  <2>1. UNCHANGED <<world, catalog, pc, scope, plan, todo, batch>>
    BY <1>4 DEF MarkGlobal
  <2>2. WholeAlone' /\ NoUnsavedEdits' = NoUnsavedEdits
    BY <1>1, <2>1 DEF WholeAlone, Active, NoUnsavedEdits
  <2>3. ASSUME NoUnsavedEdits PROVE CalmInv'
    BY <2>1, <2>3 DEF ConvInv, CalmInv, NoStale, Right, Exists, AllIndexed, Indexed
  <2>4. ASSUME NoUnsavedEdits, NEW r \in whole PROVE RunInv(r)'
    BY <2>1, <2>4 DEF ConvInv, RunInv, PlanRight, StaleGoes, FilesStay, Right, Exists, Indexed,
                      Undone, Current, Text
  <2>5. QED BY <1>2, <2>2, <2>3, <2>4 DEF ConvInv
<1>5. CASE ~\E o \in marked[q] : MarkGlobal(q, o)
  <2>1. /\ Active(q) /\ Active(q)' /\ UNCHANGED full /\ \A p \in Runs \ {q} : pc'[p] = pc[p]
    BY <1>1, <1>5 DEF Progress, GetBranch, Stat, Plan, ReadNew, SkipFresh, ReadSame, ReadChanged,
       Reading, SplitFull, SplitFile, Planned, NextBatch, MarkCatalog, Touch, AllMarked, Active, TypeOK
  <2>2. WholeAlone'
    BY <1>1, <2>1 DEF WholeAlone, Active
  <2>3. NoUnsavedEdits' = NoUnsavedEdits
    BY <1>3 DEF NoUnsavedEdits
  <2>4. CASE q \notin whole
    <3>1. whole = {} /\ calm = 0
      BY <1>1, <2>1, <2>4 DEF WholeAlone
    <3>2. QED BY <1>2, <2>2, <3>1 DEF ConvInv, CalmInv
  <2>5. CASE q \in whole
    <3>1. whole = {q} /\ full[q]
      BY <1>1, <2>1, <2>5 DEF WholeAlone
    <3>2. ASSUME NoUnsavedEdits PROVE RunInv(q)' /\ CalmInv'
      BY <1>5, <2>5, <3>1, <3>2, StartingStep, PlanMadeStep, ReadStep, SplitStep, BatchStep, MarkStep,
         TouchStep DEF Progress, Reads, SplitFile
    <3>3. QED BY <1>2, <2>2, <2>3, <3>1, <3>2 DEF ConvInv
  <2>6. QED BY <2>4, <2>5
<1>6. QED BY <1>4, <1>5

LEMMA StartStep ==
  ASSUME ConvInv, NEW r \in Runs, Start(r),
         whole' = IF Others(r) = {} THEN {r} ELSE {},
         calm' = IF Others(r) = {} THEN calm ELSE 0
  PROVE  ConvInv'
<1>1. TypeOK /\ FreshInv /\ CatalogUnique /\ WholeAlone /\ [Next]_vars
  BY DEF ConvInv, Next, Begin
<1>2. TypeOK' /\ FreshInv' /\ CatalogUnique'
  BY <1>1, NextType, NextFresh, CatalogStaysUnique
<1>3. /\ UNCHANGED <<world, tables, plan, ops>> /\ pc[r] = "idle" /\ pc'[r] = "branch"
      /\ full'[r] = TRUE /\ files'[r] = {p \in Paths : Exists(p)}
      /\ \A q \in Runs \ {r} : pc'[q] = pc[q]
  BY <1>1 DEF Start, Active, TypeOK
<1>4. CASE Others(r) # {}
  BY <1>2, <1>3, <1>4 DEF ConvInv, WholeAlone, CalmInv
<1>5. CASE Others(r) = {}
  <2>1. WholeAlone'
    BY <1>1, <1>3, <1>5 DEF WholeAlone, Others, Active
  <2>2. NoUnsavedEdits' = NoUnsavedEdits
    BY <1>3 DEF NoUnsavedEdits
  <2>3. ASSUME NoUnsavedEdits PROVE CalmInv'
    BY <1>3, <1>5, <2>3 DEF ConvInv, CalmInv, NoStale, Right, Exists, AllIndexed, Indexed
  <2>4. add[r] = {} /\ touch[r] = {} /\ Undone(r) = {}
    BY <1>1, <1>3 DEF FreshInv, NothingPlannedYet, Unplanned, Undone
  <2>5. RunInv(r)'
    BY <1>3, <2>4 DEF RunInv, PlanRight, StaleGoes, FilesStay, Exists, Undone
  <2>6. QED BY <1>2, <1>5, <2>1, <2>2, <2>3, <2>5 DEF ConvInv
<1>6. QED BY <1>4, <1>5

LEMMA FinishStep ==
  ASSUME ConvInv, NEW r \in Runs, Finish(r), whole' = whole \ {r},
         calm' = IF r \in whole /\ calm < 2 THEN calm + 1 ELSE calm
  PROVE  ConvInv'
<1>1. TypeOK /\ FreshInv /\ CatalogUnique /\ WholeAlone /\ [Next]_vars
  BY DEF ConvInv, Next
<1>2. TypeOK' /\ FreshInv' /\ CatalogUnique'
  BY <1>1, NextType, NextFresh, CatalogStaysUnique
<1>3. /\ UNCHANGED <<world, tables>> /\ pc[r] = "update" /\ Undone(r) = {}
      /\ pc'[r] = "idle" /\ \A q \in Runs \ {r} : pc'[q] = pc[q]
  BY <1>1 DEF Finish, AllMarked, Forget, Undone, TypeOK
<1>4. CASE r \notin whole
  <2>1. whole = {} /\ calm = 0
    BY <1>1, <1>3, <1>4 DEF WholeAlone, Active
  <2>2. QED BY <1>2, <1>4, <2>1 DEF ConvInv, WholeAlone, CalmInv
<1>5. CASE r \in whole
  <2>1. whole' = {} /\ calm' \in 0 .. 2 /\ \A q \in Runs : ~Active(q)'
    BY <1>1, <1>3, <1>5 DEF WholeAlone, Active
  <2>2. NoUnsavedEdits' = NoUnsavedEdits
    BY <1>3 DEF NoUnsavedEdits
  <2>3. ASSUME NoUnsavedEdits PROVE CalmInv'
    <3>1. RunInv(r)
      BY <1>5, <2>3 DEF ConvInv
    <3>2. NoStale /\ (calm > 0 => AllIndexed)
      BY <1>3, <3>1 DEF RunInv, StaleGoes, FilesStay, NoStale, AllIndexed
    <3>3. NoStale' /\ (AllIndexed => AllIndexed')
      BY <1>3, <3>2 DEF NoStale, Right, Exists, AllIndexed, Indexed
    <3>4. calm' = 2 => calm > 0
      BY <1>1 DEF WholeAlone
    <3>5. QED BY <3>2, <3>3, <3>4 DEF CalmInv
  <2>4. QED BY <1>2, <2>1, <2>2, <2>3 DEF ConvInv, WholeAlone
<1>6. QED BY <1>4, <1>5

LEMMA ConvStep == ConvInv /\ [ConvNext]_convVars => ConvInv'
<1> SUFFICES ASSUME ConvInv, [ConvNext]_convVars PROVE ConvInv'
  OBVIOUS
<1>1. TypeOK' /\ FreshInv' /\ CatalogUnique'
  BY ConvNextIsNext, NextType, NextFresh, CatalogStaysUnique DEF ConvInv
<1>2. CASE Disturbed
  BY <1>1, <1>2 DEF Disturbed, ConvInv, WholeAlone, CalmInv
<1>3. CASE UNCHANGED convVars
  <2>1. UNCHANGED <<world, tables, memory, calm, whole>>
    BY <1>3 DEF convVars, vars
  <2>2. WholeAlone' /\ NoUnsavedEdits' = NoUnsavedEdits
    BY <2>1 DEF ConvInv, WholeAlone, Active, NoUnsavedEdits
  <2>3. ASSUME NoUnsavedEdits PROVE CalmInv'
    BY <2>1, <2>3 DEF ConvInv, CalmInv, NoStale, Right, Exists, AllIndexed, Indexed
  <2>4. ASSUME NoUnsavedEdits, NEW r \in whole PROVE RunInv(r)'
    BY <2>1, <2>4 DEF ConvInv, RunInv, PlanRight, StaleGoes, FilesStay, Right, Exists, Indexed,
                      Undone, Current, Text
  <2>5. QED BY <1>1, <2>1, <2>2, <2>3, <2>4 DEF ConvInv
<1>4. ASSUME NEW r \in Runs, Progress(r), UNCHANGED <<calm, whole>> PROVE ConvInv'
  BY <1>4, ProgressStep
<1>5. QED BY <1>2, <1>3, <1>4, StartStep, FinishStep DEF ConvNext

LEMMA ConvInvariance == ConvSpec => []ConvInv
<1>1. ConvInit => ConvInv
  <2>1. Init => TypeOK /\ FreshInv
    BY InitType, InitFresh
  <2>2. QED BY <2>1 DEF ConvInit, Init, ConvInv, CatalogUnique, WholeAlone, Active, CalmInv
<1>2. QED BY <1>1, ConvStep, PTL DEF ConvSpec

(* However far behind the catalog was, whatever crashed, was stopped or    *)
(* overlapped before: an undisturbed full refresh of refreshDirs leaves no  *)
(* row of a deleted file and none with an outdated key.                    *)
THEOREM RefreshClearsStaleRows == ConvSpec => []OneRefreshLeavesNoStaleRow
<1>1. ConvInv => OneRefreshLeavesNoStaleRow
  BY DEF ConvInv, CalmInv, NoStale, Right, OneRefreshLeavesNoStaleRow
<1>2. QED BY <1>1, ConvInvariance, PTL

(* A second one brings the catalog in line with the workspace.             *)
THEOREM SecondRefreshConverges == ConvSpec => []TwoRefreshesConverge
<1>1. ConvInv => TwoRefreshesConverge
  BY DEF ConvInv, CalmInv, NoStale, AllIndexed, Right, CatalogMatchesDisk, TwoRefreshesConverge
<1>2. QED BY <1>1, ConvInvariance, PTL

-----------------------------------------------------------------------------
(* IndexingControl.                                                        *)

USE DEF run, history, Goto

ControlInv == ControlTypeOK /\ CancelInv /\ PauseInv

LEMMA InitControl == ControlInit => ControlInv
<1> SUFFICES ASSUME ControlInit PROVE ControlInv
  OBVIOUS
<1>1. ControlTypeOK
  BY ControlAssumption DEF ControlInit, ControlTypeOK, Stages
<1>2. CancelInv /\ PauseInv
  BY DEF ControlInit, CancelInv, PauseInv
<1>3. QED BY <1>1, <1>2 DEF ControlInv

LEMMA BeginFullControl ==
  ASSUME ControlInv, NEW r \in Calls, BeginFull(r), UNCHANGED ready,
         booted' \in BOOLEAN, paused' \in BOOLEAN, paused => paused'
  PROVE  ControlInv'
<1>1. ControlTypeOK'
  BY ControlAssumption DEF ControlInv, ControlTypeOK, BeginFull, Stages
<1>2. CancelInv'
  BY DEF ControlInv, ControlTypeOK, CancelInv, BeginFull
<1>3. PauseInv'
  BY DEF ControlInv, ControlTypeOK, PauseInv, BeginFull
<1>4. QED BY <1>1, <1>2, <1>3 DEF ControlInv

LEMMA UserControl == ASSUME ControlInv, User PROVE ControlInv'
<1>1. ASSUME NEW r \in Calls, CallFull(r) PROVE ControlInv'
  BY <1>1, BeginFullControl DEF CallFull, ControlInv, ControlTypeOK
<1>2. ASSUME NEW r \in Calls, CallFiles(r) \/ SkipFiles(r) PROVE ControlInv'
  <2>1. ControlTypeOK'
    BY <1>2, ControlAssumption DEF CallFiles, SkipFiles, ControlInv, ControlTypeOK, Stages
  <2>2. CancelInv'
    BY <1>2 DEF CallFiles, SkipFiles, ControlInv, ControlTypeOK, CancelInv
  <2>3. PauseInv'
    BY <1>2 DEF CallFiles, SkipFiles, ControlInv, ControlTypeOK, PauseInv
  <2>4. QED BY <2>1, <2>2, <2>3 DEF ControlInv
<1>3. ASSUME NEW v \in BOOLEAN, SetPaused(v) PROVE ControlInv'
  BY <1>3 DEF SetPaused, ControlInv, ControlTypeOK, CancelInv, PauseInv
<1>4. QED BY <1>1, <1>2, <1>3 DEF User

LEMMA BootControl == ASSUME ControlInv, Resolve \/ Boot PROVE ControlInv'
<1>1. CASE Resolve
  BY <1>1 DEF Resolve, ControlInv, ControlTypeOK, CancelInv, PauseInv
<1>2. CASE Boot /\ PauseOnStart
  BY <1>2 DEF Boot, ControlInv, ControlTypeOK, CancelInv, PauseInv
<1>3. CASE Boot /\ ~PauseOnStart
  BY <1>3, BeginFullControl, ControlAssumption DEF Boot, ControlInv, ControlTypeOK
<1>4. QED BY <1>1, <1>2, <1>3

LEMMA RunStepControlType == ASSUME ControlTypeOK, NEW r \in Calls, RunStep(r) PROVE ControlTypeOK'
<1>1. CASE Resume(r) \/ ResumeThrows(r)
  BY <1>1 DEF Resume, ResumeThrows, ControlTypeOK, Stages
<1>2. CASE Work(r)
  BY <1>2 DEF Work, ControlTypeOK, Stages
<1>3. CASE WorkEnds(r) \/ WorkThrows(r) \/ Wake(r)
  BY <1>3 DEF WorkEnds, WorkThrows, Wake, ControlTypeOK, Stages
<1>4. CASE Check(r)
  BY <1>4 DEF Check, AfterYield, ControlTypeOK, Stages
<1>5. CASE End(r)
  BY <1>5 DEF End, ControllerAfter, ControlTypeOK, Stages
<1>6. QED BY <1>1, <1>2, <1>3, <1>4, <1>5 DEF RunStep

(* The check is what matters: a run that has made its extra segment goes    *)
(* from there to its end, because the abort is looked at before the pause.  *)
LEMMA RunStepCancel == ASSUME ControlInv, NEW r \in Calls, RunStep(r) PROVE CancelInv'
<1>1. CASE Resume(r) \/ ResumeThrows(r)
  BY <1>1 DEF Resume, ResumeThrows, ControlInv, ControlTypeOK, CancelInv
<1>2. CASE Work(r)
  BY <1>2 DEF Work, Watched, ControlInv, ControlTypeOK, CancelInv
<1>3. CASE WorkEnds(r) \/ WorkThrows(r) \/ Wake(r)
  BY <1>3 DEF WorkEnds, WorkThrows, Wake, ControlInv, ControlTypeOK, CancelInv
<1>4. CASE Check(r)
  BY <1>4 DEF Check, AfterYield, Cancelled, ControlInv, ControlTypeOK, CancelInv
<1>5. CASE End(r)
  BY <1>5 DEF End, ControlInv, ControlTypeOK, CancelInv
<1>6. QED BY <1>1, <1>2, <1>3, <1>4, <1>5 DEF RunStep

LEMMA RunStepPause == ASSUME ControlInv, NEW r \in Calls, RunStep(r) PROVE PauseInv'
<1>1. CASE Resume(r) \/ ResumeThrows(r)
  BY <1>1 DEF Resume, ResumeThrows, ControlInv, ControlTypeOK, PauseInv
<1>2. CASE Work(r)
  BY <1>2 DEF Work, ControlInv, ControlTypeOK, PauseInv
<1>3. CASE WorkEnds(r) \/ WorkThrows(r) \/ Wake(r)
  BY <1>3 DEF WorkEnds, WorkThrows, Wake, ControlInv, ControlTypeOK, PauseInv
<1>4. CASE Check(r)
  BY <1>4 DEF Check, AfterYield, ControlInv, ControlTypeOK, PauseInv
<1>5. CASE End(r)
  BY <1>5 DEF End, ControlInv, ControlTypeOK, PauseInv
<1>6. QED BY <1>1, <1>2, <1>3, <1>4, <1>5 DEF RunStep

LEMMA NextControl == ControlInv /\ [ControlNext]_controlVars => ControlInv'
<1> SUFFICES ASSUME ControlInv, [ControlNext]_controlVars PROVE ControlInv'
  OBVIOUS
<1>1. CASE Resolve \/ Boot
  BY <1>1, BootControl
<1>2. CASE User
  BY <1>2, UserControl
<1>3. ASSUME NEW r \in Calls, RunStep(r) PROVE ControlInv'
  BY <1>3, RunStepControlType, RunStepCancel, RunStepPause DEF ControlInv
<1>4. CASE UNCHANGED controlVars
  BY <1>4 DEF controlVars, ControlInv, ControlTypeOK, CancelInv, PauseInv
<1>5. QED BY <1>1, <1>2, <1>3, <1>4 DEF ControlNext

(* Every variable keeps its type; no run does more segments than it has.    *)
THEOREM ControlTypeCorrect == ControlSpec => []ControlTypeOK
<1>1. ControlInv => ControlTypeOK
  BY DEF ControlInv
<1>2. QED BY <1>1, InitControl, NextControl, PTL DEF ControlSpec

(* However many refreshes are called, aborted and paused, a full refresh    *)
(* whose signal has been aborted begins at most one more segment.           *)
THEOREM CancelledRunsStop == ControlSpec => []CancelledRunStops
<1>1. ControlInv => CancelledRunStops
  BY DEF ControlInv, ControlTypeOK, CancelInv, CancelledRunStops
<1>2. QED BY <1>1, InitControl, NextControl, PTL DEF ControlSpec

(* Until a pause is lifted, each run begins at most one more segment.       *)
THEOREM PausedRunsRest == ControlSpec => []PausedRunRests
<1>1. ControlInv => PausedRunRests
  <2> SUFFICES ASSUME ControlInv, NEW r \in Calls PROVE late[r] <= 1
    BY DEF PausedRunRests
  <2>1. late[r] = 0 \/ late[r] = 1
    BY DEF ControlInv, PauseInv
  <2>2. QED BY <2>1
<1>2. QED BY <1>1, InitControl, NextControl, PTL DEF ControlSpec

-----------------------------------------------------------------------------
(* The tagged indexes.  They follow their catalog under two conditions,    *)
(* which the code does not see to.  A text is only ever the text of one    *)
(* file, its owner: keys are compared without the path when a refresh asks *)
(* who has an artifact, and with it when rows are looked up.               *)
TextsOwned(owner) == \A p \in Paths : Exists(p) => owner[Text(p)] = p

(* And a refresh that takes out rows of a file which it also adds, as it   *)
(* may when the file has several, adds no more files than a batch holds:   *)
(* otherwise the rows may go in one batch, and be looked up in a later one. *)
AddsFit ==
  \A r \in Runs : \/ add[r] \cap remove[r] = {}
                  \/ IsFiniteSet(add[r]) /\ Cardinality(add[r]) <= FilesPerBatch

(* The plan of a run.  Runs come one by one and the workspace rests while  *)
(* one is under way, so that what it has read is still so.                 *)
Owns(owner, x) == owner[x.key] = x.path

Listed(x, b) == \E y \in catalog[b] : SameEntry(y, x)

Blank(r) ==
  /\ pc[r] = "idle"
  /\ add[r] = {} /\ remove[r] = {} /\ touch[r] = {}
  /\ todo[r] = {} /\ batch[r] = {} /\ marked[r] = {}

NothingAhead(r) ==
  /\ pc[r] \in Unplanned => add[r] = {} /\ remove[r] = {} /\ touch[r] = {}
  /\ pc[r] # "update" => todo[r] = {} /\ batch[r] = {} /\ marked[r] = {}

FilesThere(r) == pc[r] \in {"plan", "read"} => \A p \in files[r] : Exists(p)

AddsCurrent(r) == \A i \in add[r] : Exists(i.path) /\ i.key = Text(i.path)

RemovesOwned(owner, r) == \A i \in remove[r] : Owns(owner, i)

OpsPlanned(r) ==
  \A o \in todo[r] \cup batch[r] \cup marked[r] :
    /\ o.kind \in Writes => ItemOf(o) \in add[r]
    /\ o.kind \notin Writes => ItemOf(o) \in remove[r]

Scanned(r) ==
  pc[r] = "read" =>
    /\ saved[r] = catalog[tag[r]]
    /\ \A i \in remove[r] \cup touch[r] : i.path \notin files[r]
    /\ \A i \in remove[r] : Listed(i, tag[r])

TouchesListed(r) == \A i \in touch[r] : i \notin remove[r] /\ Listed(i, tag[r])

RunScanned(owner, r) ==
  /\ NothingAhead(r) /\ FilesThere(r) /\ AddsCurrent(r) /\ RemovesOwned(owner, r)
  /\ OpsPlanned(r) /\ Scanned(r) /\ TouchesListed(r)

OneRun == \A q, r \in Runs : Active(q) /\ Active(r) => q = r

RowsOwned(owner) ==
  /\ \A b \in Branches : \A x \in catalog[b] : Owns(owner, x)
  /\ \A i \in cut : Owns(owner, i)

RowsUnique == \A b \in Branches : \A x, y \in catalog[b] : SameEntry(x, y) => x = y

ScanInv(owner) ==
  OneRun /\ RowsOwned(owner) /\ RowsUnique /\ \A r \in Runs : RunScanned(owner, r)

LEMMA BlankIsScanned ==
  ASSUME NEW owner, NEW r \in Runs
  PROVE  /\ Blank(r) => RunScanned(owner, r)
         /\ RunScanned(owner, r) /\ ~Active(r) => Blank(r)
  BY DEF Blank, RunScanned, NothingAhead, FilesThere, AddsCurrent, RemovesOwned, OpsPlanned,
         Scanned, TouchesListed, Active, Unplanned

(* A step of one run leaves the others, which rest, as they are.           *)
LEMMA OthersRest ==
  ASSUME NEW owner, ScanInv(owner), NEW r \in Runs, Alone(r),
         \A q \in Runs \ {r} :
           UNCHANGED <<pc[q], add[q], remove[q], touch[q], todo[q], batch[q], marked[q]>>,
         RowsOwned(owner)', RowsUnique', RunScanned(owner, r)'
  PROVE  ScanInv(owner)'
<1>1. ASSUME NEW q \in Runs \ {r} PROVE Blank(q)'
  BY <1>1, BlankIsScanned DEF ScanInv, Alone, Blank
<1>2. ASSUME NEW q \in Runs \ {r} PROVE RunScanned(owner, q)'
  BY <1>1 DEF Blank, RunScanned, NothingAhead, FilesThere, AddsCurrent, RemovesOwned,
              OpsPlanned, Scanned, TouchesListed, Unplanned
<1>3. OneRun'
  BY <1>1 DEF OneRun, Active, Blank
<1>4. QED BY <1>2, <1>3 DEF ScanInv

LEMMA ScanWorld ==
  ASSUME NEW owner, TypeOK, ScanInv(owner), World, Quiet, UNCHANGED cut
  PROVE  ScanInv(owner)'
<1>1. UNCHANGED <<tables, memory>>
  BY DEF World, WriteFile, Edit, DeleteFile, Save, Checkout
<1>2. RowsOwned(owner)' /\ RowsUnique' /\ OneRun'
  BY <1>1 DEF ScanInv, RowsOwned, RowsUnique, OneRun, Active, Owns
<1>3. ASSUME NEW r \in Runs PROVE RunScanned(owner, r)'
  <2>1. Blank(r)
    BY BlankIsScanned DEF ScanInv, Quiet
  <2>2. QED
    BY <1>1, <2>1 DEF Blank, RunScanned, NothingAhead, FilesThere, AddsCurrent, RemovesOwned,
                      OpsPlanned, Scanned, TouchesListed, Unplanned
<1>4. QED BY <1>2, <1>3 DEF ScanInv

(* A run that ends keeps nothing.                                          *)
LEMMA ForgetIsBlank ==
  ASSUME TypeOK, NEW r \in Runs, Forget(r)
  PROVE  /\ Blank(r)'
         /\ \A q \in Runs \ {r} :
              UNCHANGED <<pc[q], add[q], remove[q], touch[q], todo[q], batch[q], marked[q]>>
  BY DEF Forget, Blank, TypeOK

LEMMA ScanForget ==
  ASSUME NEW owner, TypeOK, ScanInv(owner), NEW r \in Runs, Alone(r), Forget(r),
         UNCHANGED <<world, tables>>,
         \A i \in cut' : Owns(owner, i)
  PROVE  ScanInv(owner)'
<1>1. RowsOwned(owner)' /\ RowsUnique'
  BY DEF ScanInv, RowsOwned, RowsUnique, Owns
<1>2. RunScanned(owner, r)'
  BY ForgetIsBlank DEF Blank, RunScanned, NothingAhead, FilesThere, AddsCurrent, RemovesOwned,
                       OpsPlanned, Scanned, TouchesListed, Unplanned
<1>3. QED BY <1>1, <1>2, ForgetIsBlank, OthersRest

LEMMA ScanLeaves ==
  ASSUME NEW owner, TypeOK, ScanInv(owner), NEW r \in Runs, Alone(r), Leaves(r), UNCHANGED cut
  PROVE  ScanInv(owner)'
<1>1. Forget(r) /\ UNCHANGED <<world, tables>>
  BY DEF Leaves, Finish, StatFails, NothingToCompute, TouchFails
<1>2. \A i \in cut' : Owns(owner, i)
  BY DEF ScanInv, RowsOwned
<1>3. QED BY <1>1, <1>2, ScanForget

LEMMA RowsStay ==
  ASSUME NEW owner, ScanInv(owner), UNCHANGED <<catalog, cut>>
  PROVE  RowsOwned(owner)' /\ RowsUnique'
  BY DEF ScanInv, RowsOwned, RowsUnique, Owns

LEMMA ScanBegin ==
  ASSUME NEW owner, TypeOK, ScanInv(owner), NEW r \in Runs, Alone(r),
         Begin(r) \/ GetBranch(r) \/ Stat(r), UNCHANGED cut
  PROVE  ScanInv(owner)'
<1>1. /\ UNCHANGED <<world, tables, plan, ops>>
      /\ pc[r] \in Unplanned /\ pc'[r] \in Unplanned /\ pc'[r] # "idle"
      /\ \A q \in Runs \ {r} : UNCHANGED pc[q]
  BY DEF Begin, Start, StartFile, GetBranch, Stat, Active, Unplanned, TypeOK
<1>2. Blank(r)' \/ (pc'[r] \in Unplanned /\ add'[r] = {} /\ remove'[r] = {} /\ touch'[r] = {}
                      /\ todo'[r] = {} /\ batch'[r] = {} /\ marked'[r] = {})
  BY <1>1 DEF ScanInv, RunScanned, NothingAhead, Unplanned
<1>3. FilesThere(r)'
  BY DEF FilesThere, Begin, Start, StartFile, GetBranch, Stat, TypeOK, Exists
<1>4. RunScanned(owner, r)'
  BY <1>2, <1>3 DEF Blank, RunScanned, NothingAhead, AddsCurrent, RemovesOwned,
                    OpsPlanned, Scanned, TouchesListed, Unplanned
<1>5. QED BY <1>1, <1>4, RowsStay, OthersRest

LEMMA ScanPlan ==
  ASSUME NEW owner, TypeOK, ScanInv(owner), NEW r \in Runs, Alone(r), Plan(r), UNCHANGED cut
  PROVE  ScanInv(owner)'
<1>1. /\ UNCHANGED <<world, tables, tag, files, add, touch, ops>>
      /\ pc[r] = "plan" /\ pc'[r] = "read"
      /\ saved'[r] = catalog[tag[r]]
      /\ remove'[r] = {ItemOf(x) : x \in Unlisted(r)}
      /\ \A q \in Runs \ {r} : UNCHANGED <<pc[q], remove[q]>>
  BY DEF Plan, TypeOK
<1>2. add[r] = {} /\ touch[r] = {} /\ todo[r] = {} /\ batch[r] = {} /\ marked[r] = {}
  BY <1>1 DEF ScanInv, RunScanned, NothingAhead, Unplanned
<1>3. tag[r] \in Branches
  BY DEF TypeOK
<1>4. \A i \in remove'[r] : Owns(owner, i) /\ i.path \notin files[r] /\ Listed(i, tag[r])
  <2> SUFFICES ASSUME NEW x \in Unlisted(r)
               PROVE  LET i == ItemOf(x)
                      IN  Owns(owner, i) /\ i.path \notin files[r] /\ Listed(i, tag[r])
    BY <1>1
  <2>1. x \in catalog[tag[r]] /\ x.path \notin files[r]
    BY DEF Unlisted
  <2>2. Owns(owner, x)
    BY <1>3, <2>1 DEF ScanInv, RowsOwned
  <2>3. QED BY <2>1, <2>2 DEF Owns, ItemOf, Listed, SameEntry
<1>5. FilesThere(r)' /\ Scanned(r)'
  <2>1. FilesThere(r)
    BY DEF ScanInv, RunScanned
  <2>2. QED BY <1>1, <1>2, <1>4, <2>1 DEF FilesThere, Scanned, Listed, Exists
<1>6. NothingAhead(r)' /\ AddsCurrent(r)' /\ OpsPlanned(r)' /\ TouchesListed(r)'
  BY <1>1, <1>2 DEF NothingAhead, AddsCurrent, OpsPlanned, TouchesListed, Unplanned
<1>7. RemovesOwned(owner, r)'
  BY <1>4 DEF RemovesOwned, Owns
<1>8. RunScanned(owner, r)'
  BY <1>5, <1>6, <1>7 DEF RunScanned
<1>9. QED BY <1>1, <1>8, RowsStay, OthersRest

(* What becomes of the rows of a file when it is read.                     *)
LEMMA ScanRead ==
  ASSUME NEW owner, TypeOK, ScanInv(owner), NEW r \in Runs, Alone(r), UNCHANGED cut,
         NEW p \in Paths,
         ReadNew(r, p) \/ SkipFresh(r, p) \/ ReadSame(r, p) \/ ReadChanged(r, p)
  PROVE  ScanInv(owner)'
<1>1. /\ Reading(r, p)
      /\ UNCHANGED <<world, tables, pc, tag, saved, ops>>
      /\ pc[r] = "read" /\ p \in files[r] /\ files'[r] = files[r] \ {p}
      /\ \A q \in Runs \ {r} : UNCHANGED <<add[q], remove[q], touch[q]>>
  BY DEF ReadNew, SkipFresh, ReadSame, ReadChanged, Reading, TypeOK
<1>2. tag[r] \in Branches
  BY DEF TypeOK
<1>3. /\ saved[r] = catalog[tag[r]]
      /\ todo[r] = {} /\ batch[r] = {} /\ marked[r] = {}
      /\ \A i \in remove[r] \cup touch[r] : i.path \notin files[r]
      /\ \A i \in remove[r] : Listed(i, tag[r]) /\ Owns(owner, i)
      /\ Exists(p)
  BY <1>1 DEF ScanInv, RunScanned, Scanned, NothingAhead, RemovesOwned, FilesThere
<1>4. ASSUME NEW y \in RowsOf(r, p)
      PROVE  ItemOf(y).path = p /\ Listed(ItemOf(y), tag[r]) /\ Owns(owner, ItemOf(y))
  <2>1. y \in catalog[tag[r]] /\ y.path = p
    BY <1>3 DEF RowsOf
  <2>2. Owns(owner, y)
    BY <1>2, <2>1 DEF ScanInv, RowsOwned
  <2>3. QED BY <2>1, <2>2 DEF ItemOf, Listed, SameEntry, Owns
<1>5. /\ add'[r] \subseteq add[r] \cup {Current(p)}
      /\ remove'[r] \subseteq remove[r] \cup {ItemOf(y) : y \in RowsOf(r, p)}
      /\ \/ touch'[r] = touch[r]
         \/ /\ touch'[r] = touch[r] \cup {Current(p)}
            /\ Listed(Current(p), tag[r]) /\ Current(p) \notin remove'[r]
  <2>1. CASE ReadNew(r, p)
    BY <2>1 DEF ReadNew, TypeOK
  <2>2. ASSUME NEW x, x \in RowsOf(r, p) PROVE x.path = p
    BY <2>2 DEF RowsOf
  <2>3. CASE SkipFresh(r, p)
    BY <2>2, <2>3 DEF SkipFresh, Rest, TypeOK
  <2>4. CASE ReadChanged(r, p)
    BY <2>2, <2>4 DEF ReadChanged, Rest, TypeOK
  <2>5. CASE ReadSame(r, p)
    <3>1. PICK x \in RowsOf(r, p) :
            x.key = Text(p) /\ remove' = [remove EXCEPT ![r] = @ \cup Rest(r, x)]
      BY <2>5 DEF ReadSame
    <3>2. x \in catalog[tag[r]] /\ x.path = p
      BY <1>3 DEF RowsOf
    <3>3. Listed(Current(p), tag[r]) /\ SameEntry(x, Current(p))
      BY <3>1, <3>2 DEF Listed, Current, SameEntry
    <3>4. ASSUME NEW y \in RowsOf(r, p) \ {x} PROVE ItemOf(y) # Current(p)
      <4>1. y \in catalog[tag[r]]
        BY <1>3 DEF RowsOf
      <4>2. ~SameEntry(y, x)
        BY <1>2, <3>2, <4>1 DEF ScanInv, RowsUnique
      <4>3. QED BY <3>1, <3>2, <4>2 DEF SameEntry, ItemOf, Current
    <3>5. Current(p) \notin remove[r]
      BY <1>1, <1>3 DEF Current
    <3>6. remove'[r] = remove[r] \cup {ItemOf(y) : y \in RowsOf(r, p) \ {x}}
      BY <3>1, <3>2 DEF Rest, TypeOK
    <3>7. add' = add /\ touch'[r] = touch[r] \cup {Current(p)}
      BY <2>5 DEF ReadSame, TypeOK
    <3>8. QED BY <3>3, <3>4, <3>5, <3>6, <3>7
  <2>6. QED BY <2>1, <2>3, <2>4, <2>5
<1>6. Current(p).path = p /\ Current(p).key = Text(p)
  BY DEF Current
<1>7. \A i \in remove'[r] : Listed(i, tag[r]) /\ Owns(owner, i) /\ i.path \notin files'[r]
  BY <1>1, <1>3, <1>4, <1>5
<1>8. Scanned(r)' /\ RemovesOwned(owner, r)'
  <2>1. \A i \in touch'[r] : i.path \notin files'[r]
    BY <1>1, <1>3, <1>5, <1>6
  <2>2. QED BY <1>1, <1>3, <1>7, <2>1 DEF Scanned, RemovesOwned, Listed, Owns
<1>9. NothingAhead(r)' /\ FilesThere(r)' /\ OpsPlanned(r)'
  <2>1. FilesThere(r)
    BY DEF ScanInv, RunScanned
  <2>2. QED BY <1>1, <1>3, <2>1 DEF NothingAhead, FilesThere, OpsPlanned, Unplanned, Exists
<1>10. AddsCurrent(r)'
  <2>1. AddsCurrent(r)
    BY DEF ScanInv, RunScanned
  <2>2. QED BY <1>1, <1>3, <1>5, <1>6, <2>1 DEF AddsCurrent, Exists, Text
<1>11. TouchesListed(r)'
  <2> SUFFICES ASSUME NEW i \in touch'[r] PROVE i \notin remove'[r] /\ Listed(i, tag[r])
    BY <1>1 DEF TouchesListed, Listed
  <2>1. CASE i \in touch[r]
    <3>1. i \notin remove[r] /\ Listed(i, tag[r])
      BY <2>1 DEF ScanInv, RunScanned, TouchesListed
    <3>2. i.path # p
      BY <1>1, <1>3, <2>1
    <3>3. QED BY <1>4, <1>5, <3>1, <3>2
  <2>2. CASE i \notin touch[r]
    BY <1>5, <2>2
  <2>3. QED BY <2>1, <2>2
<1>12. RunScanned(owner, r)'
  BY <1>8, <1>9, <1>10, <1>11 DEF RunScanned
<1>13. QED BY <1>1, <1>12, RowsStay, OthersRest

(* What a run plans to do, from what it is to add and remove.              *)
LEMMA OpsFrom ==
  ASSUME TypeOK, NEW r \in Runs
  PROVE  /\ \A o \in AddOps(r) :
              /\ o.kind \in Writes /\ ItemOf(o) \in add[r]
              /\ o.kind = KindOfAdd(ItemOf(o)) /\ KindOfAdd(ItemOf(o)) = KindOfAdd(o)
         /\ \A o \in RemoveOps(r) :
              /\ o.kind \notin Writes /\ ItemOf(o) \in remove[r]
              /\ KindOfRemove(ItemOf(o)) = o.kind /\ KindOfRemove(ItemOf(o)) = KindOfRemove(o)
<1>1. ASSUME NEW i \in Item, NEW k PROVE ItemOf(OpOf(k, i)) = i /\ OpOf(k, i).kind = k
                                         /\ OpOf(k, i).key = i.key
  BY DEF Item, ItemOf, OpOf
<1>2. add[r] \subseteq Item /\ remove[r] \subseteq Item
  BY DEF TypeOK
<1>3. ASSUME NEW o \in AddOps(r)
      PROVE  /\ o.kind \in Writes /\ ItemOf(o) \in add[r]
             /\ o.kind = KindOfAdd(ItemOf(o)) /\ KindOfAdd(ItemOf(o)) = KindOfAdd(o)
  <2>1. PICK i \in add[r] : o = OpOf(KindOfAdd(i), i)
    BY DEF AddOps
  <2>2. ItemOf(o) = i /\ o.kind = KindOfAdd(i) /\ o.key = i.key
    BY <1>1, <1>2, <2>1
  <2>3. QED BY <2>2, KindTypes DEF KindOfAdd
<1>4. ASSUME NEW o \in RemoveOps(r)
      PROVE  /\ o.kind \notin Writes /\ ItemOf(o) \in remove[r]
             /\ KindOfRemove(ItemOf(o)) = o.kind /\ KindOfRemove(ItemOf(o)) = KindOfRemove(o)
  <2>1. PICK i \in remove[r] : o = OpOf(KindOfRemove(i), i)
    BY DEF RemoveOps
  <2>2. ItemOf(o) = i /\ o.kind = KindOfRemove(i) /\ o.key = i.key
    BY <1>1, <1>2, <2>1
  <2>3. QED BY <2>2, KindTypes DEF KindOfRemove
<1>5. QED BY <1>3, <1>4

LEMMA ScanSplit ==
  ASSUME NEW owner, TypeOK, ScanInv(owner), NEW r \in Runs, Alone(r), UNCHANGED cut,
         SplitFull(r) \/ SplitFile(r) \/ NextBatch(r)
  PROVE  ScanInv(owner)'
<1>1. /\ UNCHANGED <<world, tables, tag, files, saved, add, remove, marked>>
      /\ pc'[r] = "update" /\ touch'[r] \subseteq touch[r]
      /\ \A q \in Runs \ {r} : UNCHANGED <<pc[q], touch[q], todo[q], batch[q]>>
  BY DEF SplitFull, SplitFile, NextBatch, TypeOK
<1>2. todo'[r] \cup batch'[r] \cup marked'[r]
        \subseteq todo[r] \cup batch[r] \cup marked[r] \cup AddOps(r) \cup RemoveOps(r)
  BY DEF SplitFull, SplitFile, NextBatch, TypeOK, Computes
<1>3. RunScanned(owner, r)
  BY DEF ScanInv
<1>4. OpsPlanned(r)'
  <2> SUFFICES ASSUME NEW o \in todo'[r] \cup batch'[r] \cup marked'[r]
               PROVE  /\ o.kind \in Writes => ItemOf(o) \in add[r]
                      /\ o.kind \notin Writes => ItemOf(o) \in remove[r]
    BY <1>1 DEF OpsPlanned
  <2>1. QED BY <1>2, <1>3, OpsFrom DEF RunScanned, OpsPlanned
<1>5. /\ NothingAhead(r)' /\ FilesThere(r)' /\ AddsCurrent(r)' /\ RemovesOwned(owner, r)'
      /\ Scanned(r)'
  BY <1>1, <1>3 DEF RunScanned, NothingAhead, FilesThere, AddsCurrent, RemovesOwned, Scanned,
                    Unplanned, Exists, Text, Owns
<1>6. TouchesListed(r)'
  BY <1>1, <1>3 DEF RunScanned, TouchesListed, Listed
<1>7. RunScanned(owner, r)'
  BY <1>4, <1>5, <1>6 DEF RunScanned
<1>8. QED BY <1>1, <1>7, RowsStay, OthersRest

-----------------------------------------------------------------------------
(* Rows, as items are marked and touched.                                  *)

LEMMA OpOwned ==
  ASSUME NEW owner, TypeOK, ScanInv(owner), TextsOwned(owner), NEW r \in Runs,
         NEW o \in todo[r] \cup batch[r] \cup marked[r]
  PROVE  /\ Owns(owner, o) /\ o \in Op
         /\ o.kind \in Writes => o.key = Text(o.path) /\ Exists(o.path)
<1>1. o \in Op /\ add[r] \subseteq Item /\ RunScanned(owner, r)
  BY DEF TypeOK, ScanInv
<1>2. o.path \in Paths
  BY <1>1 DEF Op
<1>3. CASE o.kind \in Writes
  <2>1. ItemOf(o) \in add[r]
    BY <1>1, <1>3 DEF RunScanned, OpsPlanned
  <2>2. Exists(o.path) /\ o.key = Text(o.path)
    BY <1>1, <2>1 DEF RunScanned, AddsCurrent, ItemOf
  <2>3. QED BY <1>1, <1>2, <2>2 DEF TextsOwned, Owns
<1>4. CASE o.kind \notin Writes
  BY <1>1, <1>4 DEF RunScanned, OpsPlanned, RemovesOwned, ItemOf, Owns
<1>5. QED BY <1>1, <1>3, <1>4

(* The entries of a branch after an item is marked.                        *)
LEMMA MarkedRows ==
  ASSUME NEW owner, TypeOK, RowsOwned(owner), RowsUnique, UNCHANGED cut,
         NEW b \in Branches, NEW o, NEW t, Owns(owner, o),
         catalog' = [catalog EXCEPT ![b] = MarkRow(@, o, t)]
  PROVE  /\ RowsOwned(owner)' /\ RowsUnique'
         /\ \A c \in Branches \ {b} : catalog'[c] = catalog[c]
         /\ \A x : Listed(x, b)' <=> \/ Listed(x, b) /\ ~SameEntry(x, o)
                                     \/ o.kind \in Writes /\ SameEntry(x, o)
<1> DEFINE new == [path |-> o.path, key |-> o.key, last |-> t]
           old == {x \in catalog[b] : ~SameEntry(x, o)}
<1>1. /\ catalog'[b] = IF o.kind \in Writes THEN old \cup {new} ELSE old
      /\ \A c \in Branches \ {b} : catalog'[c] = catalog[c]
  BY DEF TypeOK, MarkRow, ReplaceRow, DeleteRow, Writes
<1>2. new.path = o.path /\ new.key = o.key
  OBVIOUS
<1> HIDE DEF new
<1>3. RowsOwned(owner)'
  BY <1>1, <1>2 DEF RowsOwned, Owns
<1>4. RowsUnique'
  BY <1>1, <1>2 DEF RowsUnique, SameEntry
<1>5. ASSUME NEW x
      PROVE  Listed(x, b)' <=> \/ Listed(x, b) /\ ~SameEntry(x, o)
                               \/ o.kind \in Writes /\ SameEntry(x, o)
  BY <1>1, <1>2 DEF Listed, SameEntry
<1>6. QED BY <1>1, <1>3, <1>4, <1>5

LEMMA ScanMark ==
  ASSUME NEW owner, TypeOK, ScanInv(owner), TextsOwned(owner), NEW r \in Runs, Alone(r),
         NEW o, MarkCatalog(r, o), UNCHANGED cut
  PROVE  /\ ScanInv(owner)' /\ Owns(owner, o) /\ o \in Op
         /\ \A c \in Branches \ {tag[r]} : catalog'[c] = catalog[c]
         /\ \A x : Listed(x, tag[r])' <=> \/ Listed(x, tag[r]) /\ ~SameEntry(x, o)
                                          \/ o.kind \in Writes /\ SameEntry(x, o)
<1>1. /\ pc[r] = "update" /\ o \in batch[r] /\ UNCHANGED <<world, gcache, pc, scope, plan, todo>>
      /\ catalog' = [catalog EXCEPT ![tag[r]] = MarkRow(@, o, LastUpdated(r))]
      /\ batch'[r] = batch[r] \ {o} /\ marked'[r] = marked[r] \cup {o}
      /\ \A q \in Runs \ {r} : UNCHANGED <<batch[q], marked[q]>>
  BY DEF MarkCatalog, TypeOK
<1>2. Owns(owner, o) /\ o \in Op /\ tag[r] \in Branches
  BY <1>1, OpOwned DEF TypeOK
<1>3. /\ RowsOwned(owner)' /\ RowsUnique'
      /\ \A c \in Branches \ {tag[r]} : catalog'[c] = catalog[c]
      /\ \A x : Listed(x, tag[r])' <=> \/ Listed(x, tag[r]) /\ ~SameEntry(x, o)
                                       \/ o.kind \in Writes /\ SameEntry(x, o)
  BY <1>1, <1>2, MarkedRows DEF ScanInv
<1>4. RunScanned(owner, r)
  BY DEF ScanInv
<1>5. /\ NothingAhead(r)' /\ FilesThere(r)' /\ AddsCurrent(r)' /\ RemovesOwned(owner, r)'
      /\ OpsPlanned(r)' /\ Scanned(r)'
  BY <1>1, <1>4 DEF RunScanned, NothingAhead, FilesThere, AddsCurrent, RemovesOwned, OpsPlanned,
                    Scanned, Unplanned, Exists, Text, Owns
<1>6. TouchesListed(r)'
  <2> SUFFICES ASSUME NEW i \in touch[r] PROVE i \notin remove[r] /\ Listed(i, tag[r])'
    BY <1>1 DEF TouchesListed, Listed
  <2>1. i \notin remove[r] /\ Listed(i, tag[r]) /\ i \in Item
    BY <1>4 DEF RunScanned, TouchesListed, TypeOK
  <2>2. o.kind \notin Writes => ItemOf(o) \in remove[r]
    BY <1>1, <1>4 DEF RunScanned, OpsPlanned
  <2>3. o.kind \notin Writes => ~SameEntry(i, o)
    BY <2>1, <2>2 DEF SameEntry, ItemOf, Item
  <2>4. QED BY <1>3, <2>1, <2>3
<1>7. RunScanned(owner, r)'
  BY <1>5, <1>6 DEF RunScanned
<1>8. ScanInv(owner)'
  BY <1>1, <1>3, <1>7, OthersRest
<1>9. QED BY <1>2, <1>3, <1>8

LEMMA ScanMarkGlobal ==
  ASSUME NEW owner, TypeOK, ScanInv(owner), NEW r \in Runs, Alone(r),
         NEW o, MarkGlobal(r, o), UNCHANGED cut
  PROVE  ScanInv(owner)'
<1>1. /\ UNCHANGED <<world, catalog, pc, scope, plan, todo, batch>>
      /\ marked'[r] = marked[r] \ {o}
      /\ \A q \in Runs \ {r} : UNCHANGED marked[q]
  BY DEF MarkGlobal, TypeOK
<1>2. RunScanned(owner, r)
  BY DEF ScanInv
<1>3. RunScanned(owner, r)'
  BY <1>1, <1>2 DEF RunScanned, NothingAhead, FilesThere, AddsCurrent, RemovesOwned, OpsPlanned,
                    Scanned, TouchesListed, Listed, Unplanned, Exists, Text, Owns
<1>4. QED BY <1>1, <1>3, RowsStay, OthersRest

(* A row that is touched changes its time stamp only.                      *)
LEMMA ScanTouch ==
  ASSUME NEW owner, TypeOK, ScanInv(owner), NEW r \in Runs, Alone(r), NEW i,
         Touch(r, i), UNCHANGED cut
  PROVE  ScanInv(owner)' /\ \A b \in Branches : \A x : Listed(x, b)' <=> Listed(x, b)
<1> DEFINE b == tag[r]
           new == [path |-> i.path, key |-> i.key, last |-> LastUpdated(r)]
<1>1. /\ i \in touch[r] /\ UNCHANGED <<world, gcache, pc, scope, add, remove, ops>>
      /\ ~UpdateConflicts(catalog[b], i)
      /\ catalog' = [catalog EXCEPT ![b] = UpdateRows(@, i, LastUpdated(r))]
      /\ touch'[r] = touch[r] \ {i} /\ \A q \in Runs \ {r} : UNCHANGED touch[q]
  BY DEF Touch, TypeOK
<1>2. b \in Branches /\ RunScanned(owner, r)
  BY DEF TypeOK, ScanInv
<1>3. PICK x \in catalog[b] : SameEntry(x, i)
  BY <1>1, <1>2 DEF RunScanned, TouchesListed, Listed
<1>4. \A y \in catalog[b] : y.path = i.path => y = x
  BY <1>1, <1>3 DEF UpdateConflicts, SameEntry
<1>5. /\ catalog'[b] = {y \in catalog[b] : y.path # i.path} \cup {new}
      /\ \A c \in Branches \ {b} : catalog'[c] = catalog[c]
  BY <1>1, <1>2, <1>3 DEF UpdateRows, TypeOK, SameEntry
<1>6. new.path = x.path /\ new.key = x.key /\ x.path = i.path /\ x.key = i.key
  BY <1>3 DEF SameEntry
<1> HIDE DEF new
<1>7. Owns(owner, x)
  BY <1>2 DEF ScanInv, RowsOwned
<1>8. RowsOwned(owner)' /\ RowsUnique'
  BY <1>5, <1>6, <1>7 DEF ScanInv, RowsOwned, RowsUnique, Owns, SameEntry
<1>9. ASSUME NEW c \in Branches, NEW y PROVE Listed(y, c)' <=> Listed(y, c)
  <2>1. CASE c # b
    BY <1>5, <2>1 DEF Listed
  <2>2. CASE c = b
    BY <1>4, <1>5, <1>6, <2>2 DEF Listed, SameEntry
  <2>3. QED BY <2>1, <2>2
<1>10. pc[r] = "update" /\ tag' = tag
  BY <1>1 DEF Touch, AllMarked
<1>11. /\ NothingAhead(r)' /\ FilesThere(r)' /\ AddsCurrent(r)' /\ RemovesOwned(owner, r)'
       /\ OpsPlanned(r)' /\ Scanned(r)'
  BY <1>1, <1>2, <1>10 DEF RunScanned, NothingAhead, FilesThere, AddsCurrent, RemovesOwned,
                           OpsPlanned, Scanned, Unplanned, Exists, Text, Owns
<1>12. TouchesListed(r)'
  <2> SUFFICES ASSUME NEW j \in touch'[r] PROVE j \notin remove[r] /\ Listed(j, b)'
    BY <1>1, <1>10 DEF TouchesListed, Listed
  <2>1. j \notin remove[r] /\ Listed(j, b)
    BY <1>1, <1>2 DEF RunScanned, TouchesListed
  <2>2. QED BY <1>2, <1>9, <1>10, <2>1 DEF Listed
<1>13. RunScanned(owner, r)'
  BY <1>11, <1>12 DEF RunScanned
<1>14. ScanInv(owner)'
  BY <1>1, <1>8, <1>13, OthersRest
<1>15. QED BY <1>9, <1>14

-----------------------------------------------------------------------------
(* The catalogs and the global cache agree, but for what is being marked   *)
(* and for versions whose update was cut off.                              *)
Removes == {"del", "removeTag"}

Marked(x, b, kinds) ==
  \E r \in Runs : tag[r] = b /\ \E o \in marked[r] : o.kind \in kinds /\ SameEntry(o, x)

RowsCached ==
  \A b \in Branches : \A x \in catalog[b] :
    ItemOf(x) \in cut \/ <<x.key, b>> \in gcache \/ Marked(x, b, Writes)

CacheListed ==
  \A b \in Branches : \A k \in Contents : <<k, b>> \in gcache =>
    \/ \E x \in catalog[b] : x.key = k
    \/ \E i \in cut : i.key = k
    \/ \E r \in Runs : tag[r] = b /\ \E o \in marked[r] : o.kind \notin Writes /\ o.key = k

MarksListed(r) == \A o \in marked[r] : o.kind \in Writes <=> Listed(o, tag[r])

MarksInTurn(r) ==
  \A o \in marked[r], q \in batch[r] : o.kind \notin Writes => q.kind \notin Writes

(* What is planned to be deleted, no other branch lists.                   *)
DelsAlone(r) ==
  \A o \in todo[r] \cup batch[r] : o.kind = "del" =>
    \A b \in Branches \ {tag[r]} : \A x \in catalog[b] : x.key = o.key => ItemOf(x) \in cut

(* What is also to be removed is not added in a later batch.               *)
AddsFirst(r) ==
  batch[r] # {} => \A o \in todo[r] : o.kind = "addTag" => ItemOf(o) \notin remove[r]

RunMarks(r) == MarksListed(r) /\ MarksInTurn(r) /\ DelsAlone(r) /\ AddsFirst(r)

MarkInv == RowsCached /\ CacheListed /\ \A r \in Runs : RunMarks(r)

NoOps(r) == todo[r] = {} /\ batch[r] = {} /\ marked[r] = {}

LEMMA SameItem == ASSUME NEW x, NEW y PROVE SameEntry(x, y) <=> ItemOf(x) = ItemOf(y)
<1>1. ItemOf(x).path = x.path /\ ItemOf(x).key = x.key /\ ItemOf(y).path = y.path /\ ItemOf(y).key = y.key
  BY DEF ItemOf
<1>2. ItemOf(x) = ItemOf(y) => SameEntry(x, y)
  BY <1>1 DEF SameEntry
<1>3. SameEntry(x, y) => ItemOf(x) = ItemOf(y)
  BY DEF SameEntry, ItemOf
<1>4. QED BY <1>2, <1>3

LEMMA RestingOps ==
  ASSUME NEW owner, ScanInv(owner), NEW q \in Runs, ~Active(q) \/ pc[q] # "update"
  PROVE  NoOps(q)
  BY DEF ScanInv, RunScanned, NothingAhead, Active, NoOps

(* Steps that neither mark nor plan.                                       *)
LEMMA MarksStay ==
  ASSUME MarkInv, UNCHANGED <<gcache, cut>>,
         \A b \in Branches : \A x : Listed(x, b)' <=> Listed(x, b),
         \A q \in Runs : \/ NoOps(q) /\ NoOps(q)'
                         \/ UNCHANGED <<tag[q], remove[q], todo[q], batch[q], marked[q]>>,
         tag \in [Runs -> Branches]
  PROVE  MarkInv'
<1>1. ASSUME NEW b \in Branches
      PROVE  /\ \A x \in catalog'[b] : \E y \in catalog[b] : SameEntry(y, x)
             /\ \A x \in catalog[b] : \E y \in catalog'[b] : SameEntry(y, x)
  <2>1. \A x \in catalog'[b] : Listed(x, b)'
    BY DEF Listed, SameEntry
  <2>2. \A x \in catalog[b] : Listed(x, b)
    BY DEF Listed, SameEntry
  <2>3. QED BY <2>1, <2>2 DEF Listed
<1>2. RowsCached'
  <2> SUFFICES ASSUME NEW b \in Branches, NEW x \in catalog'[b]
               PROVE  ItemOf(x) \in cut \/ <<x.key, b>> \in gcache \/ Marked(x, b, Writes)'
    BY DEF RowsCached
  <2>1. PICK y \in catalog[b] : SameEntry(y, x)
    BY <1>1
  <2>2. ItemOf(y) = ItemOf(x) /\ y.key = x.key
    BY <2>1, SameItem DEF SameEntry
  <2>3. ItemOf(y) \in cut \/ <<y.key, b>> \in gcache \/ Marked(y, b, Writes)
    BY DEF MarkInv, RowsCached
  <2>4. ASSUME Marked(y, b, Writes) PROVE Marked(x, b, Writes)'
    <3>1. PICK q \in Runs : tag[q] = b /\ \E o \in marked[q] : o.kind \in Writes /\ SameEntry(o, y)
      BY <2>4 DEF Marked
    <3>2. UNCHANGED <<tag[q], marked[q]>>
      BY <3>1 DEF NoOps
    <3>3. QED BY <2>1, <3>1, <3>2 DEF Marked, SameEntry
  <2>5. QED BY <2>2, <2>3, <2>4
<1>3. CacheListed'
  <2> SUFFICES ASSUME NEW b \in Branches, NEW k \in Contents, <<k, b>> \in gcache
               PROVE  \/ \E x \in catalog'[b] : x.key = k
                      \/ \E i \in cut : i.key = k
                      \/ \E r \in Runs : tag'[r] = b /\ \E o \in marked'[r] :
                           o.kind \notin Writes /\ o.key = k
    BY DEF CacheListed
  <2>1. \/ \E x \in catalog[b] : x.key = k
        \/ \E i \in cut : i.key = k
        \/ \E r \in Runs : tag[r] = b /\ \E o \in marked[r] : o.kind \notin Writes /\ o.key = k
    BY DEF MarkInv, CacheListed
  <2>2. CASE \E x \in catalog[b] : x.key = k
    BY <1>1, <2>2 DEF SameEntry
  <2>3. CASE \E r \in Runs : tag[r] = b /\ \E o \in marked[r] : o.kind \notin Writes /\ o.key = k
    BY <2>3 DEF NoOps
  <2>4. QED BY <2>1, <2>2, <2>3
<1>4. ASSUME NEW q \in Runs PROVE RunMarks(q)'
  <2>1. CASE NoOps(q)'
    BY <2>1 DEF NoOps, RunMarks, MarksListed, MarksInTurn, DelsAlone, AddsFirst
  <2>2. CASE UNCHANGED <<tag[q], remove[q], todo[q], batch[q], marked[q]>>
    <3>1. RunMarks(q)
      BY DEF MarkInv
    <3>2. MarksListed(q)'
      BY <2>2, <3>1 DEF RunMarks, MarksListed, Listed
    <3>3. MarksInTurn(q)' /\ AddsFirst(q)'
      BY <2>2, <3>1 DEF RunMarks, MarksInTurn, AddsFirst
    <3>4. DelsAlone(q)'
      <4> SUFFICES ASSUME NEW o \in todo[q] \cup batch[q], o.kind = "del",
                          NEW b \in Branches \ {tag[q]}, NEW x \in catalog'[b], x.key = o.key
                   PROVE  ItemOf(x) \in cut
        BY <2>2 DEF DelsAlone
      <4>1. PICK y \in catalog[b] : SameEntry(y, x)
        BY <1>1
      <4>2. ItemOf(y) = ItemOf(x) /\ y.key = o.key
        BY <4>1, SameItem DEF SameEntry
      <4>3. QED BY <3>1, <4>2 DEF RunMarks, DelsAlone
    <3>5. QED BY <3>2, <3>3, <3>4 DEF RunMarks
  <2>3. QED BY <2>1, <2>2
<1>5. QED BY <1>2, <1>3, <1>4 DEF MarkInv

LEMMA OtherMarksRest ==
  ASSUME NEW owner, ScanInv(owner), NEW r \in Runs, Alone(r),
         \A q \in Runs \ {r} : UNCHANGED <<todo[q], batch[q], marked[q]>>
  PROVE  \A q \in Runs \ {r} : NoOps(q) /\ NoOps(q)' /\ RunMarks(q)'
<1> SUFFICES ASSUME NEW q \in Runs \ {r} PROVE NoOps(q) /\ NoOps(q)' /\ RunMarks(q)'
  OBVIOUS
<1>1. NoOps(q) /\ NoOps(q)'
  BY RestingOps DEF Alone, NoOps
<1>2. QED
  BY <1>1 DEF NoOps, RunMarks, MarksListed, MarksInTurn, DelsAlone, AddsFirst

(* What another branch has, keeps an artifact from being deleted.          *)
LEMMA TwoTags ==
  ASSUME NEW k, NEW b \in Branches, NEW c \in Branches, b # c, <<k, b>> \in gcache,
         <<k, c>> \in gcache
  PROVE  Cardinality(TagsOf(k)) > 1
<1>1. IsFiniteSet(Branches) /\ TagsOf(k) \in SUBSET Branches
  BY PartsAssumption DEF TagsOf
<1>2. IsFiniteSet(TagsOf(k))
  BY <1>1, FS_Subset
<1>3. {b} \cup {c} \in SUBSET TagsOf(k)
  BY DEF TagsOf
<1>4. IsFiniteSet({b}) /\ Cardinality({b}) = 1
  BY FS_Singleton
<1>5. Cardinality({b} \cup {c}) = 2
  <2>1. Cardinality({b} \cup {c}) = IF c \in {b} THEN Cardinality({b}) ELSE Cardinality({b}) + 1
    BY <1>4, FS_AddElement, ZenonT(60)
  <2>2. QED BY <1>4, <2>1
<1>6. Cardinality({b} \cup {c}) <= Cardinality(TagsOf(k))
  BY <1>2, <1>3, FS_Subset
<1>7. Cardinality(TagsOf(k)) \in Nat
  BY <1>2, FS_CardinalityType
<1>8. QED BY <1>5, <1>6, <1>7

LEMMA MarksSplit ==
  ASSUME NEW owner, TypeOK, ScanInv(owner), MarkInv, NEW r \in Runs, Alone(r), UNCHANGED cut,
         SplitFull(r) \/ SplitFile(r)
  PROVE  MarkInv'
<1>1. /\ UNCHANGED <<tables, tag, remove, marked>>
      /\ pc[r] = "read"
      /\ \A q \in Runs \ {r} : UNCHANGED <<todo[q], batch[q], marked[q]>>
  BY DEF SplitFull, SplitFile, Planned, TypeOK
<1>2. RunScanned(owner, r) /\ tag[r] \in Branches
  BY DEF ScanInv, TypeOK
<1>3. NoOps(r)
  BY <1>1, RestingOps
<1>4. ASSUME NEW q \in Runs PROVE marked[q] = {}
  BY <1>3, RestingOps DEF NoOps, Alone
<1>5. /\ batch'[r] = {} \/ todo'[r] = {}
      /\ marked'[r] = {}
      /\ \A o \in todo'[r] \cup batch'[r] : o.kind = "del" => o \in RemoveOps(r)
  <2>1. \A o \in AddOps(r) : o.kind # "del"
    BY OpsFrom DEF Writes
  <2>2. CASE SplitFull(r)
    <3>1. todo'[r] = AddOps(r) \cup RemoveOps(r) /\ batch'[r] = {} /\ marked'[r] = {}
      BY <1>3, <2>2 DEF SplitFull, NoOps, TypeOK
    <3>2. QED BY <2>1, <3>1
  <2>3. CASE SplitFile(r)
    <3>1. todo'[r] = {} /\ batch'[r] = Computes(r) /\ marked'[r] = {}
      BY <1>3, <2>3 DEF SplitFile, NoOps, TypeOK
    <3>2. QED BY <3>1 DEF Computes
  <2>4. QED BY <2>2, <2>3
<1>6. DelsAlone(r)'
  <2> SUFFICES ASSUME NEW o \in RemoveOps(r), o.kind = "del",
                      NEW b \in Branches \ {tag[r]}, NEW x \in catalog[b], x.key = o.key,
                      ItemOf(x) \notin cut
               PROVE  FALSE
    BY <1>1, <1>5 DEF DelsAlone
  <2>1. /\ ItemOf(o) \in remove[r] /\ KindOfRemove(o) = "del"
    BY OpsFrom
  <2>2. Owns(owner, ItemOf(o)) /\ Listed(ItemOf(o), tag[r])
    BY <1>1, <1>2, <2>1 DEF RunScanned, RemovesOwned, Scanned
  <2>3. PICK y \in catalog[tag[r]] : SameEntry(y, ItemOf(o))
    BY <2>2 DEF Listed
  <2>4. Owns(owner, x)
    BY DEF ScanInv, RowsOwned
  <2>5. SameEntry(y, x) /\ y.key = o.key
    BY <2>2, <2>3, <2>4 DEF Owns, SameEntry, ItemOf
  <2>6. ItemOf(y) = ItemOf(x)
    BY <2>5, SameItem
  <2>7. <<o.key, b>> \in gcache
    BY <1>4 DEF MarkInv, RowsCached, Marked
  <2>8. <<o.key, tag[r]>> \in gcache
    BY <1>2, <1>4, <2>5, <2>6 DEF MarkInv, RowsCached, Marked
  <2>9. Cardinality(TagsOf(o.key)) > 1
    BY <1>2, <2>7, <2>8, TwoTags
  <2>10. QED BY <2>1, <2>9 DEF KindOfRemove
<1>7. RunMarks(r)'
  BY <1>5, <1>6 DEF RunMarks, MarksListed, MarksInTurn, AddsFirst
<1>8. RowsCached' /\ CacheListed'
  BY <1>1 DEF MarkInv, RowsCached, CacheListed, Marked
<1>9. QED BY <1>1, <1>7, <1>8, OtherMarksRest DEF MarkInv

LEMMA MarksNext ==
  ASSUME NEW owner, TypeOK, ScanInv(owner), MarkInv, AddsFit, NEW r \in Runs, Alone(r),
         UNCHANGED cut, NextBatch(r)
  PROVE  MarkInv'
<1>1. PICK b \in SUBSET todo[r] :
        /\ IsBatch(todo[r], b)
        /\ batch' = [batch EXCEPT ![r] = b]
        /\ todo' = [todo EXCEPT ![r] = @ \ b]
  BY DEF NextBatch
<1>2. UNCHANGED <<tables, tag, remove, marked>> /\ marked[r] = {}
  BY DEF NextBatch
<1>3. batch'[r] = b /\ todo'[r] = todo[r] \ b
  BY <1>1 DEF TypeOK
<1>4. \A q \in Runs \ {r} : UNCHANGED <<todo[q], batch[q], marked[q]>>
  BY <1>1, <1>2 DEF TypeOK
<1>5. AddsFirst(r)'
  <2> SUFFICES ASSUME NEW o \in todo[r] \ b, o.kind = "addTag", ItemOf(o) \in remove[r]
               PROVE  FALSE
    BY <1>2, <1>3 DEF AddsFirst
  <2> DEFINE S == OfKind(todo[r], "addTag")
             T == OfKind(b, "addTag")
             f == [q \in S |-> ItemOf(q)]
  <2>1. \A q \in S : ItemOf(q) \in add[r] /\ q \in Op
    BY DEF ScanInv, RunScanned, OpsPlanned, OfKind, Writes, TypeOK
  <2>2. o \in S /\ T \in SUBSET S /\ o \notin T
    BY DEF OfKind
  <2>3. IsFiniteSet(add[r]) /\ Cardinality(add[r]) <= FilesPerBatch
    BY <2>1, <2>2 DEF AddsFit
  <2>4. \A q, s \in S : ItemOf(q) = ItemOf(s) => q = s
    BY <2>1 DEF OfKind, ItemOf, Op
  <2>5. f \in Injection(S, add[r])
    BY <2>1, <2>4 DEF Injection, IsInjective
  <2>6. IsFiniteSet(S) /\ Cardinality(S) <= Cardinality(add[r])
    <3> HIDE DEF f, S
    <3>1. QED BY <2>3, <2>5, FS_Injection
  <2>7. /\ Cardinality(S) \in Nat /\ Cardinality(add[r]) \in Nat /\ FilesPerBatch \in Nat
        /\ Cardinality(T) = IF Cardinality(S) < FilesPerBatch THEN Cardinality(S) ELSE FilesPerBatch
    <3>1. "addTag" \in Kinds
      BY DEF Kinds
    <3>2. QED BY <1>1, <2>3, <2>6, <3>1, FS_CardinalityType, BoundAssumption DEF IsBatch
  <2>8. Cardinality(S) = Cardinality(T)
    BY <2>3, <2>6, <2>7
  <2>9. S = T
    BY <2>2, <2>6, <2>8, FS_Subset
  <2>10. QED BY <2>2, <2>9
<1>6. DelsAlone(r)'
  <2>1. DelsAlone(r)
    BY DEF MarkInv, RunMarks
  <2>2. QED BY <1>2, <1>3, <2>1 DEF DelsAlone
<1>7. RunMarks(r)'
  BY <1>2, <1>5, <1>6 DEF RunMarks, MarksListed, MarksInTurn
<1>8. RowsCached' /\ CacheListed'
  BY <1>2 DEF MarkInv, RowsCached, CacheListed, Marked
<1>9. QED BY <1>4, <1>7, <1>8, OtherMarksRest DEF MarkInv

LEMMA MarksMark ==
  ASSUME NEW owner, TypeOK, ScanInv(owner), MarkInv, TextsOwned(owner), NEW r \in Runs, Alone(r),
         UNCHANGED cut, NEW o, MarkCatalog(r, o)
  PROVE  MarkInv'
<1>1. /\ o \in batch[r] /\ InTurn(r, o) /\ UNCHANGED <<gcache, tag, remove, todo>>
      /\ batch'[r] = batch[r] \ {o} /\ marked'[r] = marked[r] \cup {o}
      /\ \A q \in Runs \ {r} : UNCHANGED <<batch[q], marked[q]>>
  BY DEF MarkCatalog, TypeOK
<1>2. tag[r] \in Branches /\ RunMarks(r) /\ o \in Op
  BY <1>1 DEF TypeOK, MarkInv
<1>3. /\ \A c \in Branches \ {tag[r]} : catalog'[c] = catalog[c]
      /\ \A x : Listed(x, tag[r])' <=> \/ Listed(x, tag[r]) /\ ~SameEntry(x, o)
                                       \/ o.kind \in Writes /\ SameEntry(x, o)
  BY ScanMark
<1>4. \A q \in batch[r] \cup marked[r] : q.kind \in Writes => o.kind \in Writes
  BY <1>1, <1>2 DEF InTurn, Before, Writes, Op, Kinds
<1>5. RowsCached'
  <2> SUFFICES ASSUME NEW b \in Branches, NEW x \in catalog'[b]
               PROVE  ItemOf(x) \in cut \/ <<x.key, b>> \in gcache \/ Marked(x, b, Writes)'
    BY <1>1 DEF RowsCached
  <2>1. ASSUME NEW y \in catalog[b], SameEntry(y, x)
        PROVE  ItemOf(x) \in cut \/ <<x.key, b>> \in gcache \/ Marked(x, b, Writes)'
    <3>1. ItemOf(y) = ItemOf(x) /\ y.key = x.key /\ \A q : SameEntry(q, y) => SameEntry(q, x)
      BY <2>1, SameItem DEF SameEntry
    <3>2. ItemOf(y) \in cut \/ <<y.key, b>> \in gcache \/ Marked(y, b, Writes)
      BY DEF MarkInv, RowsCached
    <3>3. ASSUME Marked(y, b, Writes) PROVE Marked(x, b, Writes)'
      <4>1. PICK q \in Runs : tag[q] = b /\ \E s \in marked[q] : s.kind \in Writes /\ SameEntry(s, y)
        BY <3>3 DEF Marked
      <4>2. marked[q] \subseteq marked'[q] /\ tag'[q] = b
        BY <1>1, <4>1
      <4>3. QED BY <3>1, <4>1, <4>2 DEF Marked
    <3>4. QED BY <3>1, <3>2, <3>3
  <2>2. CASE b # tag[r]
    BY <1>3, <2>1, <2>2 DEF SameEntry
  <2>3. CASE b = tag[r]
    <3>1. Listed(x, b)'
      BY DEF Listed, SameEntry
    <3>2. CASE Listed(x, b)
      BY <2>1, <3>2 DEF Listed
    <3>3. CASE o.kind \in Writes /\ SameEntry(x, o)
      <4>1. o \in marked'[r] /\ tag'[r] = b /\ SameEntry(o, x)
        BY <1>1, <2>3, <3>3 DEF SameEntry
      <4>2. QED BY <3>3, <4>1 DEF Marked
    <3>4. QED BY <1>1, <1>3, <2>3, <3>1, <3>2, <3>3
  <2>4. QED BY <2>2, <2>3
<1>6. CacheListed'
  <2> SUFFICES ASSUME NEW b \in Branches, NEW k \in Contents, <<k, b>> \in gcache
               PROVE  \/ \E x \in catalog'[b] : x.key = k
                      \/ \E i \in cut : i.key = k
                      \/ \E q \in Runs : tag[q] = b /\ \E s \in marked'[q] :
                           s.kind \notin Writes /\ s.key = k
    BY <1>1 DEF CacheListed
  <2>1. \/ \E x \in catalog[b] : x.key = k
        \/ \E i \in cut : i.key = k
        \/ \E q \in Runs : tag[q] = b /\ \E s \in marked[q] : s.kind \notin Writes /\ s.key = k
    BY DEF MarkInv, CacheListed
  <2>2. CASE \E q \in Runs : tag[q] = b /\ \E s \in marked[q] : s.kind \notin Writes /\ s.key = k
    BY <1>1, <2>2
  <2>3. ASSUME NEW x \in catalog[b], x.key = k, b = tag[r]
        PROVE  \/ \E y \in catalog'[b] : y.key = k
               \/ \E s \in marked'[r] : s.kind \notin Writes /\ s.key = k
    <3>1. Listed(x, b)
      BY DEF Listed, SameEntry
    <3>2. CASE Listed(x, b)'
      BY <2>3, <3>2 DEF Listed, SameEntry
    <3>3. CASE ~Listed(x, b)'
      <4>1. SameEntry(x, o) /\ o.kind \notin Writes
        BY <1>1, <1>3, <2>3, <3>1, <3>3
      <4>2. QED BY <1>1, <2>3, <4>1 DEF SameEntry
    <3>4. QED BY <3>2, <3>3
  <2>4. CASE \E x \in catalog[b] : x.key = k
    <3>1. CASE b = tag[r]
      BY <2>3, <2>4, <3>1
    <3>2. CASE b # tag[r]
      BY <1>3, <2>4, <3>2
    <3>3. QED BY <3>1, <3>2
  <2>5. QED BY <2>1, <2>2, <2>4
<1>7. MarksListed(r)'
  <2> SUFFICES ASSUME NEW q \in marked'[r] PROVE q.kind \in Writes <=> Listed(q, tag[r])'
    BY <1>1 DEF MarksListed, Listed
  <2>1. CASE q = o
    <3>1. SameEntry(q, o)
      BY <2>1 DEF SameEntry
    <3>2. QED BY <1>3, <2>1, <3>1
  <2>2. CASE q # o
    <3>1. q \in marked[r] /\ (q.kind \in Writes <=> Listed(q, tag[r]))
      BY <1>1, <1>2, <2>2 DEF RunMarks, MarksListed
    <3>2. q.kind \in Writes <=> o.kind \in Writes
      BY <1>1, <1>2, <1>4, <3>1 DEF RunMarks, MarksInTurn
    <3>3. QED BY <1>3, <3>1, <3>2
  <2>3. QED BY <2>1, <2>2
<1>8. MarksInTurn(r)'
  BY <1>1, <1>2, <1>4 DEF RunMarks, MarksInTurn
<1>9. DelsAlone(r)' /\ AddsFirst(r)'
  <2>1. DelsAlone(r)'
    BY <1>1, <1>2, <1>3 DEF RunMarks, DelsAlone
  <2>2. AddsFirst(r)'
    BY <1>1, <1>2 DEF RunMarks, AddsFirst
  <2>3. QED BY <2>1, <2>2
<1>10. RunMarks(r)'
  BY <1>7, <1>8, <1>9 DEF RunMarks
<1>11. QED BY <1>1, <1>5, <1>6, <1>10, OtherMarksRest DEF MarkInv

LEMMA MarksGlobal ==
  ASSUME NEW owner, TypeOK, ScanInv(owner), MarkInv, TextsOwned(owner), NEW r \in Runs, Alone(r),
         UNCHANGED cut, NEW o, MarkGlobal(r, o)
  PROVE  MarkInv'
<1>1. /\ o \in marked[r] /\ UNCHANGED <<catalog, tag, remove, todo, batch>>
      /\ gcache' = IF o.kind \in Writes THEN gcache \cup {<<o.key, tag[r]>>}
                                        ELSE gcache \ {<<o.key, tag[r]>>}
      /\ marked'[r] = marked[r] \ {o}
      /\ \A q \in Runs \ {r} : UNCHANGED marked[q]
  BY DEF MarkGlobal, MarkCache, Writes, TypeOK
<1>2. tag[r] \in Branches /\ RunMarks(r) /\ Owns(owner, o)
  BY <1>1, OpOwned DEF TypeOK, MarkInv
<1>3. \A q \in Runs \ {r} : marked[q] = {} /\ marked'[q] = {}
  BY <1>1, RestingOps DEF Alone, NoOps
<1>4. RowsCached'
  <2> SUFFICES ASSUME NEW b \in Branches, NEW x \in catalog[b], ItemOf(x) \notin cut
               PROVE  <<x.key, b>> \in gcache' \/ Marked(x, b, Writes)'
    BY <1>1 DEF RowsCached
  <2>1. <<x.key, b>> \in gcache \/ Marked(x, b, Writes)
    BY DEF MarkInv, RowsCached
  <2>2. CASE <<x.key, b>> \in gcache
    <3>1. CASE o.kind \in Writes \/ <<x.key, b>> # <<o.key, tag[r]>>
      BY <1>1, <2>2, <3>1
    <3>2. CASE o.kind \notin Writes /\ b = tag[r] /\ x.key = o.key
      <4>1. Owns(owner, x)
        BY DEF ScanInv, RowsOwned
      <4>2. SameEntry(x, o)
        BY <1>2, <3>2, <4>1 DEF Owns, SameEntry
      <4>3. Listed(o, tag[r])
        BY <3>2, <4>2 DEF Listed
      <4>4. QED BY <1>1, <1>2, <3>2, <4>3 DEF RunMarks, MarksListed
    <3>3. QED BY <3>1, <3>2
  <2>3. CASE Marked(x, b, Writes)
    <3>1. tag[r] = b /\ \E q \in marked[r] : q.kind \in Writes /\ SameEntry(q, x)
      BY <1>3, <2>3 DEF Marked
    <3>2. PICK q \in marked[r] : q.kind \in Writes /\ SameEntry(q, x)
      BY <3>1
    <3>3. CASE q = o
      BY <1>1, <3>1, <3>2, <3>3 DEF SameEntry
    <3>4. CASE q # o
      <4>1. q \in marked'[r] /\ tag'[r] = b
        BY <1>1, <3>1, <3>2, <3>4
      <4>2. QED BY <3>2, <4>1 DEF Marked
    <3>5. QED BY <3>3, <3>4
  <2>4. QED BY <2>1, <2>2, <2>3
<1>5. CacheListed'
  <2> SUFFICES ASSUME NEW b \in Branches, NEW k \in Contents, <<k, b>> \in gcache'
               PROVE  \/ \E x \in catalog[b] : x.key = k
                      \/ \E i \in cut : i.key = k
                      \/ \E q \in Runs : tag[q] = b /\ \E s \in marked'[q] :
                           s.kind \notin Writes /\ s.key = k
    BY <1>1 DEF CacheListed
  <2>1. CASE <<k, b>> \notin gcache
    <3>1. o.kind \in Writes /\ k = o.key /\ b = tag[r]
      BY <1>1, <2>1
    <3>2. Listed(o, b)
      BY <1>1, <1>2, <3>1 DEF RunMarks, MarksListed
    <3>3. QED BY <3>1, <3>2 DEF Listed, SameEntry
  <2>2. CASE <<k, b>> \in gcache
    <3>1. \/ \E x \in catalog[b] : x.key = k
          \/ \E i \in cut : i.key = k
          \/ \E q \in Runs : tag[q] = b /\ \E s \in marked[q] : s.kind \notin Writes /\ s.key = k
      BY <2>2 DEF MarkInv, CacheListed
    <3>2. ASSUME NEW q \in Runs, tag[q] = b, NEW s \in marked[q], s.kind \notin Writes, s.key = k
          PROVE  s \in marked'[q]
      BY <1>1, <1>3, <3>2
    <3>3. QED BY <3>1, <3>2
  <2>3. QED BY <2>1, <2>2
<1>6. RunMarks(r)'
  BY <1>1, <1>2 DEF RunMarks, MarksListed, MarksInTurn, DelsAlone, AddsFirst, Listed
<1>7. QED BY <1>1, <1>4, <1>5, <1>6, OtherMarksRest DEF MarkInv

(* A run that is cut off leaves what it was marking to the versions that    *)
(* were cut off.                                                           *)
LEMMA MarksCutOff ==
  ASSUME NEW owner, TypeOK, ScanInv(owner), MarkInv, NEW r \in Runs, Alone(r),
         Forget(r), UNCHANGED tables,
         cut' = cut \cup {ItemOf(o) : o \in batch[r] \cup marked[r]}
  PROVE  MarkInv'
<1>1. /\ NoOps(r)' /\ UNCHANGED <<catalog, gcache>>
      /\ \A q \in Runs \ {r} : UNCHANGED <<tag[q], todo[q], batch[q], marked[q]>>
  BY DEF Forget, NoOps, TypeOK
<1>2. \A q \in Runs \ {r} : marked[q] = {}
  BY RestingOps DEF Alone, NoOps
<1>3. RunMarks(r)'
  BY <1>1 DEF NoOps, RunMarks, MarksListed, MarksInTurn, DelsAlone, AddsFirst
<1>4. RowsCached'
  <2> SUFFICES ASSUME NEW b \in Branches, NEW x \in catalog[b]
               PROVE  ItemOf(x) \in cut' \/ <<x.key, b>> \in gcache
    BY <1>1 DEF RowsCached
  <2>1. ItemOf(x) \in cut \/ <<x.key, b>> \in gcache \/ Marked(x, b, Writes)
    BY DEF MarkInv, RowsCached
  <2>2. ASSUME Marked(x, b, Writes) PROVE ItemOf(x) \in cut'
    <3>1. PICK o \in marked[r] : SameEntry(o, x)
      BY <1>2, <2>2 DEF Marked
    <3>2. ItemOf(o) = ItemOf(x)
      BY <3>1, SameItem
    <3>3. ItemOf(o) \in cut'
      OBVIOUS
    <3>4. QED BY <3>2, <3>3
  <2>3. QED BY <2>1, <2>2
<1>5. CacheListed'
  <2> SUFFICES ASSUME NEW b \in Branches, NEW k \in Contents, <<k, b>> \in gcache
               PROVE  (\E x \in catalog[b] : x.key = k) \/ \E i \in cut' : i.key = k
    BY <1>1 DEF CacheListed
  <2>1. \/ \E x \in catalog[b] : x.key = k
        \/ \E i \in cut : i.key = k
        \/ \E o \in marked[r] : o.key = k
    BY <1>2 DEF MarkInv, CacheListed
  <2>2. ASSUME NEW o \in marked[r], o.key = k PROVE ItemOf(o) \in cut' /\ ItemOf(o).key = k
    BY <2>2 DEF ItemOf
  <2>3. QED BY <2>1, <2>2
<1>6. QED BY <1>1, <1>3, <1>4, <1>5, OtherMarksRest DEF MarkInv

-----------------------------------------------------------------------------
(* The steps of a run that are the same for all indexes.                   *)
PlanStep(r) == Begin(r) \/ Planning(r) \/ Between(r) \/ Leaves(r)

LEMMA PlanStepIsNext == ASSUME NEW r \in Runs, PlanStep(r) PROVE Next
<1>1. Begin(r) \/ Progress(r) \/ Finish(r) \/ Fail(r)
  BY DEF PlanStep, Planning, Between, Leaves, Progress, Fail
<1>2. QED BY <1>1 DEF Next

LEMMA PlanStepScans ==
  ASSUME NEW owner, TypeOK, ScanInv(owner), NEW r \in Runs, Alone(r), PlanStep(r), UNCHANGED cut
  PROVE  ScanInv(owner)'
<1>1. CASE Begin(r)
  BY <1>1, ScanBegin
<1>2. CASE Planning(r)
  BY <1>2, ScanBegin, ScanPlan, ScanRead, ScanSplit DEF Planning
<1>3. CASE Between(r)
  BY <1>3, ScanSplit, ScanTouch DEF Between
<1>4. CASE Leaves(r)
  BY <1>4, ScanLeaves
<1>5. QED BY <1>1, <1>2, <1>3, <1>4 DEF PlanStep

(* Such a step comes when no update is under way, keeps the entries, and    *)
(* plans what getAddRemoveForTag found.                                    *)
LEMMA PlanStepOps ==
  ASSUME NEW owner, TypeOK, ScanInv(owner), NEW r \in Runs, Alone(r), PlanStep(r), UNCHANGED cut
  PROVE  /\ \A q \in Runs : batch[q] = {} /\ marked[q] = {} /\ marked'[q] = {}
         /\ \A b \in Branches : \A x : Listed(x, b)' <=> Listed(x, b)
         /\ \A q \in Runs \ {r} : NoOps(q) /\ NoOps(q)'
         /\ UNCHANGED gcache
         /\ \A o \in todo'[r] \cup batch'[r] :
              /\ tag'[r] = tag[r]
              /\ o \in todo[r] \/ (pc[r] = "read" /\ o \in AddOps(r) \cup RemoveOps(r))
<1>1. /\ UNCHANGED gcache /\ batch[r] = {} /\ marked[r] = {} /\ marked'[r] = {}
      /\ \A q \in Runs \ {r} : UNCHANGED <<todo[q], batch[q], marked[q]>>
      /\ \A o \in todo'[r] \cup batch'[r] :
              /\ tag'[r] = tag[r]
              /\ o \in todo[r] \/ (pc[r] = "read" /\ o \in AddOps(r) \cup RemoveOps(r))
  <2>1. pc[r] # "update" => NoOps(r)
    BY RestingOps
  <2>2. CASE Begin(r)
    BY <2>1, <2>2 DEF Begin, Start, StartFile, Active, NoOps
  <2>3. CASE GetBranch(r) \/ Stat(r) \/ Plan(r)
    BY <2>1, <2>3 DEF GetBranch, Stat, Plan, NoOps
  <2>4. ASSUME NEW p \in Paths, ReadNew(r, p) \/ SkipFresh(r, p) \/ ReadSame(r, p) \/ ReadChanged(r, p)
        PROVE  pc[r] = "read" /\ UNCHANGED <<tables, tag, ops>>
    BY <2>4 DEF ReadNew, SkipFresh, ReadSame, ReadChanged, Reading
  <2>5. CASE \E p \in Paths : ReadNew(r, p) \/ SkipFresh(r, p) \/ ReadSame(r, p) \/ ReadChanged(r, p)
    BY <2>1, <2>4, <2>5 DEF NoOps
  <2>6. CASE SplitFull(r)
    BY <2>1, <2>6 DEF SplitFull, Planned, NoOps, TypeOK
  <2>7. CASE SplitFile(r)
    BY <2>1, <2>7 DEF SplitFile, Planned, Computes, NoOps, TypeOK
  <2>8. CASE NextBatch(r)
    BY <2>8 DEF NextBatch, TypeOK
  <2>9. CASE \E i \in touch[r] : Touch(r, i)
    BY <2>9 DEF Touch, AllMarked
  <2>10. CASE Leaves(r)
    <3>1. Forget(r) /\ UNCHANGED tables /\ NoOps(r)
      BY <2>1, <2>10 DEF Leaves, Finish, StatFails, NothingToCompute, Planned, TouchFails, AllMarked, NoOps
    <3>2. QED BY <3>1 DEF Forget, NoOps, TypeOK
  <2>11. QED
    BY <2>2, <2>3, <2>5, <2>6, <2>7, <2>8, <2>9, <2>10 DEF PlanStep, Planning, Between
<1>2. ASSUME NEW q \in Runs \ {r} PROVE NoOps(q) /\ NoOps(q)'
  BY <1>1, RestingOps DEF Alone, NoOps
<1>3. \A b \in Branches : \A x : Listed(x, b)' <=> Listed(x, b)
  <2>1. UNCHANGED catalog \/ \E i : Touch(r, i)
    BY DEF PlanStep, Begin, Start, StartFile, Planning, GetBranch, Stat, Plan, ReadNew, SkipFresh,
           ReadSame, ReadChanged, Reading, SplitFull, SplitFile, Between, NextBatch, Leaves, Finish,
           StatFails, NothingToCompute, TouchFails
  <2>2. CASE UNCHANGED catalog
    BY <2>2 DEF Listed
  <2>3. CASE \E i : Touch(r, i)
    BY <2>3, ScanTouch
  <2>4. QED BY <2>1, <2>2, <2>3
<1>4. \A q \in Runs : batch[q] = {} /\ marked[q] = {} /\ marked'[q] = {}
  BY <1>1, <1>2 DEF NoOps
<1>5. QED BY <1>1, <1>2, <1>3, <1>4

LEMMA PlanStepMarks ==
  ASSUME NEW owner, TypeOK, ScanInv(owner), MarkInv, AddsFit, NEW r \in Runs, Alone(r),
         PlanStep(r), UNCHANGED cut
  PROVE  MarkInv'
<1>1. CASE SplitFull(r) \/ SplitFile(r)
  BY <1>1, MarksSplit
<1>2. CASE NextBatch(r)
  BY <1>2, MarksNext
<1>3. ASSUME ~(SplitFull(r) \/ SplitFile(r)), ~NextBatch(r) PROVE MarkInv'
  <2>1. /\ \A b \in Branches : \A x : Listed(x, b)' <=> Listed(x, b)
        /\ \A q \in Runs \ {r} : NoOps(q) /\ NoOps(q)'
        /\ UNCHANGED gcache
    BY PlanStepOps
  <2>2. \/ NoOps(r) /\ NoOps(r)'
        \/ UNCHANGED <<tag[r], remove[r], todo[r], batch[r], marked[r]>>
    <3>1. pc[r] # "update" => NoOps(r)
      BY RestingOps
    <3>2. CASE Begin(r) \/ GetBranch(r) \/ Stat(r) \/ Plan(r)
      BY <3>1, <3>2 DEF Begin, Start, StartFile, Active, GetBranch, Stat, Plan, NoOps
    <3>3. CASE \E p \in Paths : ReadNew(r, p) \/ SkipFresh(r, p) \/ ReadSame(r, p) \/ ReadChanged(r, p)
      BY <3>1, <3>3 DEF ReadNew, SkipFresh, ReadSame, ReadChanged, Reading, NoOps
    <3>4. CASE \E i \in touch[r] : Touch(r, i)
      BY <3>4 DEF Touch
    <3>5. CASE Leaves(r)
      <4>1. Forget(r) /\ NoOps(r)
        BY <3>1, <3>5 DEF Leaves, Finish, StatFails, NothingToCompute, Planned, TouchFails, AllMarked, NoOps
      <4>2. QED BY <4>1 DEF Forget, NoOps, TypeOK
    <3>6. QED BY <1>3, <3>2, <3>3, <3>4, <3>5 DEF PlanStep, Planning, Between
  <2>3. tag \in [Runs -> Branches]
    BY DEF TypeOK
  <2>4. \A q \in Runs : \/ NoOps(q) /\ NoOps(q)'
                        \/ UNCHANGED <<tag[q], remove[q], todo[q], batch[q], marked[q]>>
    BY <2>1, <2>2
  <2>5. QED BY <2>1, <2>3, <2>4, MarksStay
<1>4. QED BY <1>1, <1>2, <1>3

(* An artifact is taken over when a branch lists it.                       *)
LEMMA TaggedListed ==
  ASSUME NEW owner, TypeOK, ScanInv(owner), MarkInv, TextsOwned(owner), NEW r \in Runs, Alone(r),
         pc[r] = "read", NEW o \in AddOps(r), o.kind = "addTag"
  PROVE  \/ \E b \in Branches : Listed(o, b)
         \/ \E i \in cut : SameEntry(i, o)
<1>1. /\ TagsOf(o.key) # {} /\ ItemOf(o) \in add[r]
  BY OpsFrom DEF KindOfAdd
<1>2. PICK b \in Branches : <<o.key, b>> \in gcache
  BY <1>1 DEF TagsOf
<1>3. ItemOf(o) \in Item /\ ItemOf(o).path = o.path /\ ItemOf(o).key = o.key
  BY <1>1 DEF TypeOK, ItemOf
<1>4. Exists(o.path) /\ o.key = Text(o.path)
  BY <1>1, <1>3 DEF ScanInv, RunScanned, AddsCurrent
<1>5. Owns(owner, o) /\ o.key \in Contents
  BY <1>3, <1>4 DEF TextsOwned, Owns, Item
<1>6. \A q \in Runs : marked[q] = {}
  <2>1. ASSUME NEW q \in Runs PROVE NoOps(q)
    BY RestingOps DEF Alone
  <2>2. QED BY <2>1 DEF NoOps
<1>7. (\E x \in catalog[b] : x.key = o.key) \/ (\E i \in cut : i.key = o.key)
  BY <1>2, <1>5, <1>6 DEF MarkInv, CacheListed
<1>8. ASSUME NEW x \in catalog[b], x.key = o.key PROVE Listed(o, b)
  <2>1. Owns(owner, x)
    BY DEF ScanInv, RowsOwned
  <2>2. QED BY <1>5, <1>8, <2>1 DEF Owns, Listed, SameEntry
<1>9. ASSUME NEW i \in cut, i.key = o.key PROVE SameEntry(i, o)
  <2>1. Owns(owner, i)
    BY DEF ScanInv, RowsOwned
  <2>2. QED BY <1>5, <1>9, <2>1 DEF Owns, SameEntry
<1>10. QED BY <1>7, <1>8, <1>9

LEMMA WorldStays ==
  ASSUME NEW owner, TypeOK, ScanInv(owner), MarkInv, World, Quiet, UNCHANGED cut
  PROVE  ScanInv(owner)' /\ MarkInv' /\ \A q \in Runs : NoOps(q) /\ NoOps(q)'
<1>1. UNCHANGED <<tables, memory>>
  BY DEF World, WriteFile, Edit, DeleteFile, Save, Checkout
<1>2. \A q \in Runs : NoOps(q) /\ NoOps(q)'
  <2>1. ASSUME NEW q \in Runs PROVE NoOps(q)
    BY RestingOps DEF Quiet
  <2>2. QED BY <1>1, <2>1 DEF NoOps
<1>3. MarkInv'
  <2>1. \A b \in Branches : \A x : Listed(x, b)' <=> Listed(x, b)
    BY <1>1 DEF Listed
  <2>2. QED BY <1>1, <1>2, <2>1, MarksStay DEF TypeOK
<1>4. QED BY <1>2, <1>3, ScanWorld

LEMMA PlanRests ==
  ASSUME NEW owner, ScanInv(owner), MarkInv, UNCHANGED <<vars, cut>>
  PROVE  ScanInv(owner)' /\ MarkInv'
<1>1. ScanInv(owner)'
  BY DEF ScanInv, OneRun, RowsOwned, RowsUnique, RunScanned, NothingAhead, FilesThere, AddsCurrent,
         RemovesOwned, OpsPlanned, Scanned, TouchesListed, Listed, Active, Exists, Text, Owns, vars
<1>2. MarkInv'
  BY DEF MarkInv, RowsCached, CacheListed, Marked, RunMarks, MarksListed, MarksInTurn, DelsAlone,
         AddsFirst, Listed, vars
<1>3. QED BY <1>1, <1>2

-----------------------------------------------------------------------------
(* The chunk index.                                                        *)
AllParts(S, x) == \A n \in 1 .. Parts[x.key] : \E c \in S : SameFile(c, x) /\ c.idx = n

(* What an update holds between two statements is about its batch.         *)
ChunkMemory(r) ==
  /\ done[r] \subseteq batch[r]
  /\ pack[r] # {} => done[r] = {}
  /\ \A q \in pack[r] : q.op \in batch[r] /\ q.op.kind = "compute" /\ q.text = q.op.key
  /\ victim[r] # {} => /\ batch[r] # {} /\ done[r] = {}
                       /\ \A o \in batch[r] : o.kind \notin Writes
  /\ \A c \in victim[r] : c \notin chunks

(* What is to be taken over is there, and what is done is to be seen.      *)
ChunkSources(r) == \A o \in todo[r] \cup batch[r] : o.kind = "addTag" => AllParts(chunks, o)

DoneShown(r) == \A o \in done[r] : o.kind \in Writes => AllParts(Visible(tag[r]), o)

Worked(x, b, kinds) ==
  \E r \in Runs : tag[r] = b /\ \E o \in batch[r] : o.kind \in kinds /\ SameEntry(x, o)

RowsHaveChunks ==
  \A b \in Branches : \A x \in catalog[b] : Worked(x, b, Removes) \/ AllParts(Visible(b), x)

RunChunks(r) == ChunkMemory(r) /\ ChunkSources(r) /\ DoneShown(r)

ChunkDomains == DOMAIN pack = Runs /\ DOMAIN done = Runs /\ DOMAIN victim = Runs

ChunkInv == cut = {} /\ ChunkDomains /\ RowsHaveChunks /\ \A r \in Runs : RunChunks(r)

LEMMA SameParts ==
  ASSUME NEW S, NEW T, NEW x, NEW y, S \subseteq T, SameEntry(x, y), AllParts(S, x)
  PROVE  AllParts(T, y)
  BY DEF AllParts, SameFile, SameEntry

LEMMA SeenParts ==
  ASSUME NEW b, NEW x, AllParts(Visible(b), x)
  PROVE  AllParts(chunks, x)
  BY DEF AllParts, Visible

(* Between two batches all rows have their chunks.                         *)
LEMMA IdleChunks ==
  ASSUME ChunkInv, \A q \in Runs : batch[q] = {}
  PROVE  /\ \A b \in Branches : \A x \in catalog[b] : AllParts(Visible(b), x)
         /\ \A q \in Runs : pack[q] = {} /\ done[q] = {} /\ victim[q] = {}
  BY DEF ChunkInv, RowsHaveChunks, Worked, RunChunks, ChunkMemory

LEMMA ChunksPlanned ==
  ASSUME NEW owner, TypeOK, ScanInv(owner), MarkInv, ChunkInv, TextsOwned(owner),
         NEW r \in Runs, Alone(r), PlanStep(r), UNCHANGED <<chunks, chunkTags, cut>>,
         UNCHANGED chunkMemory \/ ForgetChunks(r)
  PROVE  ChunkInv'
<1>1. /\ \A q \in Runs : batch[q] = {}
      /\ \A b \in Branches : \A x : Listed(x, b)' <=> Listed(x, b)
      /\ \A q \in Runs \ {r} : NoOps(q)'
      /\ \A o \in todo'[r] \cup batch'[r] :
              o \in todo[r] \/ (pc[r] = "read" /\ o \in AddOps(r) \cup RemoveOps(r))
  BY PlanStepOps
<1>2. /\ \A b \in Branches : \A x \in catalog[b] : AllParts(Visible(b), x)
      /\ \A q \in Runs : pack[q] = {} /\ done[q] = {} /\ victim[q] = {}
  BY <1>1, IdleChunks
<1>3. ASSUME NEW b \in Branches, NEW x, Listed(x, b) PROVE AllParts(Visible(b), x)
  BY <1>2, <1>3, SameParts DEF Listed
<1>4. RowsHaveChunks'
  <2> SUFFICES ASSUME NEW b \in Branches, NEW x \in catalog'[b] PROVE AllParts(Visible(b), x)'
    BY DEF RowsHaveChunks
  <2>1. Listed(x, b)'
    BY DEF Listed, SameEntry
  <2>2. AllParts(Visible(b), x)
    BY <1>1, <1>3, <2>1
  <2>3. QED BY <2>2 DEF AllParts, Visible
<1>5. ASSUME NEW q \in Runs PROVE pack'[q] = {} /\ done'[q] = {} /\ victim'[q] = {}
  <2>1. CASE UNCHANGED chunkMemory
    BY <1>2, <2>1 DEF chunkMemory
  <2>2. CASE ForgetChunks(r)
    <3>1. /\ pack' = [pack EXCEPT ![r] = {}]
          /\ done' = [done EXCEPT ![r] = {}]
          /\ victim' = [victim EXCEPT ![r] = {}]
      BY <2>2 DEF ForgetChunks
    <3>2. QED BY <1>2, <3>1
  <2>3. QED BY <2>1, <2>2
<1>6. ASSUME NEW q \in Runs PROVE ChunkSources(q)'
  <2>1. CASE q # r
    BY <1>1, <2>1 DEF NoOps, ChunkSources
  <2>2. ASSUME NEW o \in todo'[r] \cup batch'[r], o.kind = "addTag" PROVE AllParts(chunks, o)
    <3>1. CASE o \in todo[r]
      BY <2>2, <3>1 DEF ChunkInv, RunChunks, ChunkSources
    <3>2. CASE pc[r] = "read" /\ o \in AddOps(r)
      <4>1. PICK b \in Branches : Listed(o, b)
        BY <2>2, <3>2, TaggedListed DEF ChunkInv
      <4>2. QED BY <1>3, <4>1, SeenParts
    <3>3. CASE o \in RemoveOps(r)
      BY <2>2, <3>3, OpsFrom DEF Writes
    <3>4. QED BY <1>1, <3>1, <3>2, <3>3
  <2>3. CASE q = r
    BY <2>2, <2>3 DEF ChunkSources, AllParts
  <2>4. QED BY <2>1, <2>3
<1>7. ASSUME NEW q \in Runs PROVE RunChunks(q)'
  BY <1>5, <1>6 DEF RunChunks, ChunkMemory, DoneShown
<1>8. ChunkDomains'
  BY DEF ForgetChunks, chunkMemory, ChunkInv, ChunkDomains
<1>9. QED BY <1>4, <1>7, <1>8 DEF ChunkInv

LEMMA OtherChunksRest ==
  ASSUME NEW owner, ScanInv(owner), ChunkInv, NEW r \in Runs, Alone(r),
         \A q \in Runs \ {r} : UNCHANGED <<todo[q], batch[q], pack[q], done[q], victim[q]>>
  PROVE  /\ \A q \in Runs \ {r} : RunChunks(q)' /\ NoOps(q)
         /\ \A x, b, kinds : Worked(x, b, kinds) <=>
              tag[r] = b /\ \E o \in batch[r] : o.kind \in kinds /\ SameEntry(x, o)
<1>1. ASSUME NEW q \in Runs \ {r} PROVE RunChunks(q)' /\ NoOps(q)
  <2>1. NoOps(q)
    BY RestingOps DEF Alone
  <2>2. pack[q] = {} /\ done[q] = {} /\ victim[q] = {}
    BY <2>1 DEF ChunkInv, RunChunks, ChunkMemory, NoOps
  <2>3. QED BY <2>1, <2>2 DEF NoOps, RunChunks, ChunkMemory, ChunkSources, DoneShown
<1>2. QED BY <1>1 DEF NoOps, Worked

(* Statements that only add rows.                                          *)
LEMMA ChunksGrow ==
  ASSUME ChunkInv, UNCHANGED vars, chunks \subseteq chunks', chunkTags \subseteq chunkTags'
  PROVE  RowsHaveChunks' /\ \A r \in Runs : ChunkSources(r)'
<1>1. \A b \in Branches : Visible(b) \subseteq Visible(b)'
  BY DEF Visible
<1>2. RowsHaveChunks'
  <2> SUFFICES ASSUME NEW b \in Branches, NEW x \in catalog[b]
               PROVE  Worked(x, b, Removes)' \/ AllParts(Visible(b), x)'
    BY DEF RowsHaveChunks, vars
  <2>1. CASE Worked(x, b, Removes)
    BY <2>1 DEF Worked, vars
  <2>2. CASE AllParts(Visible(b), x)
    BY <1>1, <2>2 DEF AllParts
  <2>3. QED BY <2>1, <2>2 DEF ChunkInv, RowsHaveChunks
<1>3. ASSUME NEW r \in Runs PROVE ChunkSources(r)'
  BY DEF ChunkInv, RunChunks, ChunkSources, AllParts, vars
<1>4. QED BY <1>2, <1>3

LEMMA ChunksPacked ==
  ASSUME NEW owner, TypeOK, ScanInv(owner), TextsOwned(owner), ChunkInv,
         NEW r \in Runs, Alone(r), NEW o, PackToChunks(r, o), UNCHANGED cut
  PROVE  ChunkInv'
<1>1. /\ UNCHANGED <<vars, chunks, chunkTags, done, victim>>
      /\ o.kind = "compute" /\ o \in batch[r] /\ done[r] = {}
      /\ pack'[r] = pack[r] \cup {[op |-> o, text |-> Text(o.path)]}
      /\ \A q \in Runs \ {r} : UNCHANGED pack[q]
      /\ ChunkDomains'
  BY DEF PackToChunks, MyTurn, chunkTables, ChunkInv, ChunkDomains
<1>2. o.key = Text(o.path)
  BY <1>1, OpOwned DEF Writes
<1>3. RowsHaveChunks' /\ ChunkSources(r)'
  BY <1>1, ChunksGrow
<1>4. RunChunks(r)
  BY DEF ChunkInv
<1>5. ChunkMemory(r)'
  BY <1>1, <1>2, <1>4 DEF RunChunks, ChunkMemory, Writes, vars
<1>6. DoneShown(r)'
  BY <1>1 DEF DoneShown
<1>7. RunChunks(r)'
  BY <1>3, <1>5, <1>6 DEF RunChunks
<1>8. QED BY <1>1, <1>3, <1>7, OtherChunksRest DEF ChunkInv, vars

LEMMA ChunksInserted ==
  ASSUME NEW owner, TypeOK, ScanInv(owner), ChunkInv, NEW r \in Runs, Alone(r), InsertChunks(r),
         UNCHANGED cut
  PROVE  ChunkInv'
<1> DEFINE new == UNION {NewChunks(q) : q \in pack[r]}
<1>1. /\ UNCHANGED <<vars, victim>>
      /\ \A q \in pack[r] : \A n \in Numbers(q) : \E c \in NewChunks(q) : c.idx = n
      /\ chunks' = chunks \cup new
      /\ chunkTags' = chunkTags \cup {<<c, tag[r]>> : c \in new}
      /\ done'[r] = {q.op : q \in pack[r]} /\ pack'[r] = {} /\ pack[r] # {}
      /\ \A q \in Runs \ {r} : UNCHANGED <<pack[q], done[q]>>
      /\ ChunkDomains'
  BY DEF InsertChunks, ChunkInv, ChunkDomains
<1>2. RowsHaveChunks' /\ ChunkSources(r)'
  BY <1>1, ChunksGrow
<1>3. RunChunks(r)
  BY DEF ChunkInv
<1>4. victim[r] = {}
  BY <1>1, <1>3 DEF RunChunks, ChunkMemory, Writes
<1>5. ChunkMemory(r)'
  BY <1>1, <1>3, <1>4 DEF RunChunks, ChunkMemory, vars
<1>6. DoneShown(r)'
  <2> SUFFICES ASSUME NEW q \in pack[r], NEW n \in 1 .. Parts[q.op.key]
               PROVE  \E c \in Visible(tag[r])' : SameFile(c, q.op) /\ c.idx = n
    BY <1>1 DEF DoneShown, AllParts
  <2>1. n \in Numbers(q)
    BY <1>3 DEF RunChunks, ChunkMemory, Numbers
  <2>2. PICK c \in NewChunks(q) : c.idx = n
    BY <1>1, <2>1
  <2>3. SameFile(c, q.op)
    BY DEF NewChunks, SameFile
  <2>4. c \in chunks' /\ <<c, tag'[r]>> \in chunkTags'
    BY <1>1 DEF vars
  <2>5. QED BY <2>2, <2>3, <2>4 DEF Visible
<1>7. RunChunks(r)'
  BY <1>2, <1>5, <1>6 DEF RunChunks
<1>8. QED BY <1>1, <1>2, <1>7, OtherChunksRest DEF ChunkInv, vars

LEMMA ChunksTagged ==
  ASSUME NEW owner, TypeOK, ScanInv(owner), ChunkInv, NEW r \in Runs, Alone(r),
         NEW o, AddTag(r, o) \/ NothingToDelete(r, o), UNCHANGED cut
  PROVE  ChunkInv'
<1>1. /\ UNCHANGED <<vars, chunks, pack, victim>>
      /\ o \in batch[r] /\ InTurn(r, o) /\ o.kind # "compute" /\ victim[r] = {}
      /\ chunkTags \subseteq chunkTags'
      /\ done'[r] = {o}
      /\ \A q \in Runs \ {r} : UNCHANGED done[q]
      /\ ChunkDomains'
  BY DEF AddTag, NothingToDelete, MyTurn, chunkTables, ChunkInv, ChunkDomains
<1>2. RowsHaveChunks' /\ ChunkSources(r)'
  BY <1>1, ChunksGrow
<1>3. RunChunks(r)
  BY DEF ChunkInv
<1>4. pack[r] = {}
  BY <1>1, <1>3 DEF RunChunks, ChunkMemory, InTurn, Before
<1>5. ChunkMemory(r)'
  BY <1>1, <1>3, <1>4 DEF RunChunks, ChunkMemory, vars
<1>6. DoneShown(r)'
  <2>1. CASE AddTag(r, o)
    <3>1. /\ o.kind = "addTag"
          /\ chunkTags' = chunkTags \cup {<<c, tag[r]>> : c \in {d \in chunks : SameFile(d, o)}}
      BY <2>1 DEF AddTag
    <3>2. AllParts(chunks, o)
      BY <1>1, <1>3, <3>1 DEF RunChunks, ChunkSources
    <3>3. \A c \in chunks : SameFile(c, o) => c \in Visible(tag[r])'
      BY <1>1, <3>1 DEF Visible, vars
    <3>4. AllParts(Visible(tag[r]), o)'
      BY <3>2, <3>3 DEF AllParts
    <3>5. QED BY <1>1, <3>4 DEF DoneShown
  <2>2. CASE NothingToDelete(r, o)
    BY <1>1, <2>2 DEF NothingToDelete, DoneShown, Writes
  <2>3. QED BY <2>1, <2>2
<1>7. RunChunks(r)'
  BY <1>2, <1>5, <1>6 DEF RunChunks
<1>8. QED BY <1>1, <1>2, <1>7, OtherChunksRest DEF ChunkInv, vars

LEMMA ChunkTagRemoved ==
  ASSUME NEW owner, TypeOK, ScanInv(owner), ChunkInv, NEW r \in Runs, Alone(r),
         NEW o, RemoveTag(r, o), UNCHANGED cut
  PROVE  ChunkInv'
<1>1. /\ UNCHANGED <<vars, chunks, pack, victim>>
      /\ o \in batch[r] /\ InTurn(r, o) /\ o.kind = "removeTag" /\ victim[r] = {}
      /\ chunkTags' = chunkTags \ TagsOfFile(r, o)
      /\ done'[r] = {o}
      /\ \A q \in Runs \ {r} : UNCHANGED done[q]
      /\ ChunkDomains'
  BY DEF RemoveTag, MyTurn, chunkTables, ChunkInv, ChunkDomains
<1>2. RunChunks(r)
  BY DEF ChunkInv
<1>3. pack[r] = {}
  BY <1>1, <1>2 DEF RunChunks, ChunkMemory, InTurn, Before
<1>4. RowsHaveChunks'
  <2> SUFFICES ASSUME NEW b \in Branches, NEW x \in catalog[b], ~Worked(x, b, Removes)
               PROVE  AllParts(Visible(b), x)'
    BY <1>1 DEF RowsHaveChunks, Worked, vars
  <2>1. AllParts(Visible(b), x)
    BY DEF ChunkInv, RowsHaveChunks
  <2>2. \A c \in Visible(b) : SameFile(c, x) => c \in Visible(b)'
    <3> SUFFICES ASSUME NEW c \in chunks, <<c, b>> \in chunkTags, SameFile(c, x)
                 PROVE  <<c, b>> \notin TagsOfFile(r, o)
      BY <1>1 DEF Visible
    <3>1. b = tag[r] => ~SameEntry(x, o)
      BY <1>1 DEF Worked, Removes
    <3>2. QED BY <3>1 DEF TagsOfFile, SameFile, SameEntry
  <2>3. QED BY <2>1, <2>2 DEF AllParts
<1>5. ChunkMemory(r)' /\ ChunkSources(r)'
  BY <1>1, <1>2, <1>3 DEF RunChunks, ChunkMemory, ChunkSources, AllParts, vars
<1>6. DoneShown(r)'
  BY <1>1 DEF DoneShown, Writes
<1>7. RunChunks(r)'
  BY <1>5, <1>6 DEF RunChunks
<1>8. QED BY <1>1, <1>4, <1>7, OtherChunksRest DEF ChunkInv, vars

(* db.get may give a chunk of another file with the key, but there is no    *)
(* other file with it, and no other branch needs it.                       *)
LEMMA ChunkDeleted ==
  ASSUME NEW owner, TypeOK, ScanInv(owner), MarkInv, TextsOwned(owner), ChunkInv,
         NEW r \in Runs, Alone(r), NEW o, DeleteChunk(r, o), UNCHANGED cut
  PROVE  ChunkInv'
<1>1. PICK c \in chunks : /\ c.key = o.key
                          /\ chunks' = chunks \ {c}
                          /\ victim' = [victim EXCEPT ![r] = {c}]
  BY DEF DeleteChunk
<1>2. /\ UNCHANGED <<vars, chunkTags, pack, done>>
      /\ o \in batch[r] /\ InTurn(r, o) /\ o.kind = "del" /\ done[r] = {}
  BY DEF DeleteChunk, MyTurn
<1>3. /\ victim'[r] = {c} /\ \A q \in Runs \ {r} : UNCHANGED victim[q]
      /\ ChunkDomains'
  BY <1>1, <1>2 DEF ChunkInv, ChunkDomains
<1>4. RunChunks(r) /\ RunMarks(r) /\ RunScanned(owner, r) /\ tag[r] \in Branches
  BY DEF ChunkInv, MarkInv, ScanInv, TypeOK
<1>5. Owns(owner, o)
  BY <1>2, OpOwned
<1>6. \A q \in batch[r] : q.kind \notin Writes
  BY <1>2 DEF InTurn, Before, Writes
<1>7. ASSUME NEW x, x.key # o.key, AllParts(chunks, x) PROVE AllParts(chunks', x)
  BY <1>1, <1>7 DEF AllParts, SameFile
<1>8. RowsHaveChunks'
  <2> SUFFICES ASSUME NEW b \in Branches, NEW x \in catalog[b], ~Worked(x, b, Removes)
               PROVE  AllParts(Visible(b), x)'
    BY <1>2 DEF RowsHaveChunks, Worked, vars
  <2>1. AllParts(Visible(b), x)
    BY DEF ChunkInv, RowsHaveChunks
  <2>2. x.key # o.key
    <3> SUFFICES ASSUME x.key = o.key PROVE FALSE
      OBVIOUS
    <3>1. CASE b # tag[r]
      BY <1>2, <1>4, <3>1 DEF RunMarks, DelsAlone, ChunkInv
    <3>2. CASE b = tag[r]
      <4>1. Owns(owner, x)
        BY DEF ScanInv, RowsOwned
      <4>2. SameEntry(x, o)
        BY <1>5, <4>1 DEF Owns, SameEntry
      <4>3. QED BY <1>2, <3>2, <4>2 DEF Worked, Removes
    <3>3. QED BY <3>1, <3>2
  <2>3. \A d \in Visible(b) : SameFile(d, x) => d \in Visible(b)'
    BY <1>1, <1>2, <2>2 DEF Visible, SameFile
  <2>4. QED BY <2>1, <2>3 DEF AllParts
<1>9. ChunkSources(r)'
  <2> SUFFICES ASSUME NEW q \in todo[r] \cup batch[r], q.kind = "addTag" PROVE AllParts(chunks', q)
    BY <1>2 DEF ChunkSources, AllParts, vars
  <2>1. AllParts(chunks, q) /\ q \in todo[r]
    BY <1>4, <1>6 DEF RunChunks, ChunkSources, Writes
  <2>2. q.key # o.key
    <3> SUFFICES ASSUME q.key = o.key PROVE FALSE
      OBVIOUS
    <3>1. Owns(owner, q)
      BY OpOwned
    <3>2. ItemOf(q) = ItemOf(o)
      BY <1>5, <3>1 DEF Owns, ItemOf
    <3>3. ItemOf(o) \in remove[r]
      BY <1>2, <1>4 DEF RunScanned, OpsPlanned, Writes
    <3>4. QED BY <1>2, <1>4, <2>1, <3>2, <3>3 DEF RunMarks, AddsFirst
  <2>3. QED BY <1>7, <2>1, <2>2
<1>10. ChunkMemory(r)'
  <2>1. pack[r] = {}
    BY <1>4, <1>6 DEF RunChunks, ChunkMemory, Writes
  <2>2. QED BY <1>1, <1>2, <1>3, <1>6, <2>1 DEF ChunkMemory, vars
<1>11. DoneShown(r)'
  BY <1>2 DEF DoneShown
<1>12. RunChunks(r)'
  BY <1>9, <1>10, <1>11 DEF RunChunks
<1>13. QED BY <1>2, <1>3, <1>8, <1>12, OtherChunksRest DEF ChunkInv, vars

LEMMA ChunkTagsDeleted ==
  ASSUME NEW owner, TypeOK, ScanInv(owner), ChunkInv, NEW r \in Runs, Alone(r),
         NEW o, DeleteTags(r, o), UNCHANGED cut
  PROVE  ChunkInv'
<1>1. PICK c \in victim[r] : chunkTags' = chunkTags \ {<<c, b>> : b \in Branches}
  BY DEF DeleteTags
<1>2. /\ UNCHANGED <<vars, chunks, pack>>
      /\ o \in batch[r] /\ o.kind = "del"
      /\ done'[r] = {o} /\ victim'[r] = {}
      /\ \A q \in Runs \ {r} : UNCHANGED <<victim[q], done[q]>>
      /\ ChunkDomains'
  BY DEF DeleteTags, ChunkInv, ChunkDomains
<1>3. RunChunks(r) /\ c \notin chunks
  BY <1>1 DEF ChunkInv, RunChunks, ChunkMemory
<1>4. \A b : Visible(b)' = Visible(b)
  BY <1>1, <1>2, <1>3 DEF Visible
<1>5. RowsHaveChunks'
  <2> SUFFICES ASSUME NEW b \in Branches, NEW x \in catalog[b], ~Worked(x, b, Removes)
               PROVE  AllParts(Visible(b), x)'
    BY <1>2 DEF RowsHaveChunks, Worked, vars
  <2>1. AllParts(Visible(b), x)
    BY DEF ChunkInv, RowsHaveChunks
  <2>2. QED BY <1>4, <2>1 DEF AllParts
<1>6. ChunkMemory(r)' /\ ChunkSources(r)'
  BY <1>1, <1>2, <1>3 DEF RunChunks, ChunkMemory, ChunkSources, AllParts, Writes, vars
<1>7. DoneShown(r)'
  BY <1>2 DEF DoneShown, Writes
<1>8. RunChunks(r)'
  BY <1>6, <1>7 DEF RunChunks
<1>9. QED BY <1>2, <1>5, <1>8, OtherChunksRest DEF ChunkInv, vars

LEMMA ChunksMarked ==
  ASSUME NEW owner, TypeOK, ScanInv(owner), TextsOwned(owner), ChunkInv,
         NEW r \in Runs, Alone(r), NEW o, Mark(r, o), UNCHANGED cut
  PROVE  ChunkInv'
<1>1. /\ UNCHANGED <<chunks, chunkTags, pack, victim, tag, todo>>
      /\ MarkCatalog(r, o) /\ o \in done[r] /\ o \in batch[r]
      /\ done'[r] = done[r] \ {o} /\ batch'[r] = batch[r] \ {o}
      /\ \A q \in Runs \ {r} : UNCHANGED <<done[q], batch[q]>>
      /\ ChunkDomains'
  BY DEF Mark, MarkCatalog, chunkTables, ChunkInv, ChunkDomains, TypeOK
<1>2. RunChunks(r) /\ tag[r] \in Branches
  BY DEF ChunkInv, TypeOK
<1>3. pack[r] = {} /\ victim[r] = {}
  BY <1>1, <1>2 DEF RunChunks, ChunkMemory
<1>4. /\ \A c \in Branches \ {tag[r]} : catalog'[c] = catalog[c]
      /\ \A x : Listed(x, tag[r])' <=> \/ Listed(x, tag[r]) /\ ~SameEntry(x, o)
                                       \/ o.kind \in Writes /\ SameEntry(x, o)
  BY <1>1, ScanMark
<1>5. \A b : Visible(b)' = Visible(b)
  BY <1>1 DEF Visible
<1>6. ASSUME NEW b \in Branches, NEW y \in catalog[b], NEW x, SameEntry(y, x),
             b # tag[r] \/ ~SameEntry(x, o)
      PROVE  Worked(x, b, Removes)' \/ AllParts(Visible(b), x)
  <2>1. CASE AllParts(Visible(b), y)
    BY <1>6, <2>1, SameParts
  <2>2. CASE Worked(y, b, Removes)
    <3>1. PICK q \in Runs : tag[q] = b /\ \E p \in batch[q] : p.kind \in Removes /\ SameEntry(y, p)
      BY <2>2 DEF Worked
    <3>2. PICK p \in batch[q] : p.kind \in Removes /\ SameEntry(y, p)
      BY <3>1
    <3>3. SameEntry(x, p)
      BY <1>6, <3>2 DEF SameEntry
    <3>4. p \in batch'[q] /\ tag'[q] = b
      BY <1>1, <1>6, <3>1, <3>2, <3>3
    <3>5. QED BY <3>2, <3>3, <3>4 DEF Worked
  <2>3. QED BY <2>1, <2>2 DEF ChunkInv, RowsHaveChunks
<1>7. RowsHaveChunks'
  <2> SUFFICES ASSUME NEW b \in Branches, NEW x \in catalog'[b]
               PROVE  Worked(x, b, Removes)' \/ AllParts(Visible(b), x)'
    BY DEF RowsHaveChunks
  <2>1. SameEntry(x, x)
    BY DEF SameEntry
  <2>2. CASE b # tag[r]
    <3>1. x \in catalog[b]
      BY <1>4, <2>2
    <3>2. Worked(x, b, Removes)' \/ AllParts(Visible(b), x)
      BY <1>6, <2>1, <2>2, <3>1
    <3>3. QED BY <1>5, <3>2 DEF AllParts
  <2>3. CASE b = tag[r]
    <3>1. Listed(x, b)'
      BY <2>1 DEF Listed
    <3>2. CASE Listed(x, b) /\ ~SameEntry(x, o)
      <4>1. Worked(x, b, Removes)' \/ AllParts(Visible(b), x)
        BY <1>6, <3>2 DEF Listed
      <4>2. QED BY <1>5, <4>1 DEF AllParts
    <3>3. CASE o.kind \in Writes /\ SameEntry(x, o)
      <4>1. AllParts(Visible(b), o)
        BY <1>1, <1>2, <2>3, <3>3 DEF RunChunks, DoneShown
      <4>2. AllParts(Visible(b), x)
        BY <3>3, <4>1, SameParts DEF SameEntry
      <4>3. QED BY <1>5, <4>2 DEF AllParts
    <3>4. QED BY <1>1, <1>4, <2>3, <3>1, <3>2, <3>3
  <2>4. QED BY <2>2, <2>3
<1>8. ChunkMemory(r)' /\ ChunkSources(r)'
  BY <1>1, <1>2, <1>3 DEF RunChunks, ChunkMemory, ChunkSources, AllParts
<1>9. DoneShown(r)'
  BY <1>1, <1>2, <1>5 DEF RunChunks, DoneShown, AllParts
<1>10. RunChunks(r)'
  BY <1>8, <1>9 DEF RunChunks
<1>11. QED BY <1>1, <1>7, <1>10, OtherChunksRest DEF ChunkInv

LEMMA ChunksCached ==
  ASSUME ChunkInv, NEW r \in Runs, NEW o, Cache(r, o), UNCHANGED cut
  PROVE  ChunkInv'
<1>1. UNCHANGED <<catalog, tag, todo, batch, chunks, chunkTags, pack, done, victim>>
  BY DEF Cache, MarkGlobal, chunkTables, chunkMemory
<1>2. RowsHaveChunks'
  <2>1. \A x, b, kinds : Worked(x, b, kinds) => Worked(x, b, kinds)'
    BY <1>1 DEF Worked
  <2>2. \A x, b : AllParts(Visible(b), x) => AllParts(Visible(b), x)'
    BY <1>1 DEF AllParts, Visible
  <2>3. QED BY <1>1, <2>1, <2>2 DEF ChunkInv, RowsHaveChunks
<1>3. ASSUME NEW q \in Runs PROVE RunChunks(q)'
  <2>1. /\ \A b : Visible(b)' = Visible(b)
        /\ \A C, x : AllParts(C, x)' <=> AllParts(C, x)
    BY <1>1 DEF Visible, AllParts
  <2>2. RunChunks(q)
    BY DEF ChunkInv
  <2>3. QED BY <1>1, <2>1, <2>2 DEF RunChunks, ChunkMemory, ChunkSources, DoneShown
<1>4. QED BY <1>1, <1>2, <1>3 DEF ChunkInv, ChunkDomains

LEMMA ChunksRest ==
  ASSUME ChunkInv, UNCHANGED <<catalog, tag, todo, batch, chunkTables, chunkMemory, cut>>
  PROVE  ChunkInv'
<1>1. RowsHaveChunks'
  <2>1. /\ \A b : Visible(b)' = Visible(b)
        /\ \A C, x : AllParts(C, x)' <=> AllParts(C, x)
    BY DEF Visible, AllParts, chunkTables
  <2>2. \A x, b, kinds : Worked(x, b, kinds)' <=> Worked(x, b, kinds)
    BY DEF Worked
  <2>3. QED BY <2>1, <2>2 DEF ChunkInv, RowsHaveChunks
<1>2. ASSUME NEW q \in Runs PROVE RunChunks(q)'
  BY DEF ChunkInv, RunChunks, ChunkMemory, ChunkSources, DoneShown, AllParts, Visible,
         chunkTables, chunkMemory
<1>3. QED BY <1>1, <1>2 DEF ChunkInv, ChunkDomains, chunkMemory

LEMMA ChunkStepIsNext ==
  ASSUME [SteadyNext]_chunkVars
  PROVE  [Next]_vars
<1>1. ASSUME NEW r \in Runs, Step(r) PROVE [Next]_vars
  <2>1. CASE PlanStep(r)
    BY <2>1, PlanStepIsNext
  <2>2. CASE Update(r)
    <3>1. ASSUME NEW o \in batch[r], MarkCatalog(r, o) PROVE Next
      BY <3>1 DEF Next, Progress
    <3>2. ASSUME NEW o \in marked[r], MarkGlobal(r, o) PROVE Next
      BY <3>2 DEF Next, Progress
    <3>3. QED
      BY <2>2, <3>1, <3>2 DEF Update, InsertChunks, PackToChunks, AddTag, RemoveTag, DeleteChunk,
                              DeleteTags, NothingToDelete, Mark, Cache
  <2>3. QED BY <1>1, <2>1, <2>2 DEF Step, PlanStep
<1>2. CASE SteadyNext
  BY <1>1, <1>2 DEF SteadyNext, Change, Next
<1>3. CASE UNCHANGED chunkVars
  BY <1>3 DEF chunkVars
<1>4. QED BY <1>2, <1>3

(* Each statement of update either leaves the plan alone or marks.         *)
LEMMA ChunksUpdated ==
  ASSUME NEW owner, TypeOK, ScanInv(owner), MarkInv, TextsOwned(owner), ChunkInv,
         NEW r \in Runs, Alone(r), Update(r), UNCHANGED cut
  PROVE  ScanInv(owner)' /\ MarkInv' /\ ChunkInv'
<1>1. ASSUME UNCHANGED vars PROVE ScanInv(owner)' /\ MarkInv'
  BY <1>1, PlanRests
<1>2. CASE InsertChunks(r)
  BY <1>1, <1>2, ChunksInserted DEF InsertChunks
<1>3. ASSUME NEW o, PackToChunks(r, o) PROVE ScanInv(owner)' /\ MarkInv' /\ ChunkInv'
  BY <1>1, <1>3, ChunksPacked DEF PackToChunks
<1>4. ASSUME NEW o, AddTag(r, o) \/ NothingToDelete(r, o)
      PROVE  ScanInv(owner)' /\ MarkInv' /\ ChunkInv'
  BY <1>1, <1>4, ChunksTagged DEF AddTag, NothingToDelete
<1>5. ASSUME NEW o, RemoveTag(r, o) PROVE ScanInv(owner)' /\ MarkInv' /\ ChunkInv'
  BY <1>1, <1>5, ChunkTagRemoved DEF RemoveTag
<1>6. ASSUME NEW o, DeleteChunk(r, o) PROVE ScanInv(owner)' /\ MarkInv' /\ ChunkInv'
  BY <1>1, <1>6, ChunkDeleted DEF DeleteChunk
<1>7. ASSUME NEW o, DeleteTags(r, o) PROVE ScanInv(owner)' /\ MarkInv' /\ ChunkInv'
  BY <1>1, <1>7, ChunkTagsDeleted DEF DeleteTags
<1>8. ASSUME NEW o, Mark(r, o) PROVE ScanInv(owner)' /\ MarkInv' /\ ChunkInv'
  BY <1>8, ChunksMarked, ScanMark, MarksMark DEF Mark
<1>9. ASSUME NEW o, Cache(r, o) PROVE ScanInv(owner)' /\ MarkInv' /\ ChunkInv'
  BY <1>9, ChunksCached, ScanMarkGlobal, MarksGlobal DEF Cache
<1>10. QED BY <1>2, <1>3, <1>4, <1>5, <1>6, <1>7, <1>8, <1>9 DEF Update

ChunksFollow(owner) == TypeOK /\ ScanInv(owner) /\ MarkInv /\ ChunkInv

LEMMA ChunksNext ==
  ASSUME NEW owner, ChunksFollow(owner), TextsOwned(owner), AddsFit,
         [SteadyNext]_chunkVars, UNCHANGED cut
  PROVE  ChunksFollow(owner)'
<1>1. TypeOK'
  BY ChunkStepIsNext, NextType DEF ChunksFollow
<1>2. CASE Change /\ Quiet
  <2>1. UNCHANGED <<catalog, tag, todo, batch>>
    BY <1>2 DEF Change, World, WriteFile, Edit, DeleteFile, Save, Checkout
  <2>2. QED BY <1>1, <1>2, <2>1, WorldStays, ChunksRest DEF Change, ChunksFollow
<1>3. ASSUME NEW r \in Runs, Step(r), Alone(r) PROVE ChunksFollow(owner)'
  <2>1. CASE PlanStep(r) /\ UNCHANGED chunkTables /\ (UNCHANGED chunkMemory \/ ForgetChunks(r))
    <3>1. UNCHANGED <<chunks, chunkTags>>
      BY <2>1 DEF chunkTables
    <3>2. QED
      BY <1>1, <1>3, <2>1, <3>1, PlanStepScans, PlanStepMarks, ChunksPlanned DEF ChunksFollow
  <2>2. CASE Update(r)
    BY <1>1, <1>3, <2>2, ChunksUpdated DEF ChunksFollow
  <2>3. QED BY <1>3, <2>1, <2>2 DEF Step, PlanStep, ForgetChunks
<1>4. CASE UNCHANGED chunkVars
  <2>1. UNCHANGED vars /\ UNCHANGED <<catalog, tag, todo, batch, chunkTables, chunkMemory>>
    BY <1>4 DEF chunkVars, vars
  <2>2. QED BY <1>1, <2>1, PlanRests, ChunksRest DEF ChunksFollow
<1>5. QED BY <1>2, <1>3, <1>4 DEF SteadyNext

(* It holds before anything is indexed.                                    *)
LEMMA PlanBegins ==
  ASSUME NEW owner, Init, cut = {}
  PROVE  ScanInv(owner) /\ MarkInv
<1>1. \A r \in Runs : Blank(r)
  BY DEF Init, Blank
<1>2. ScanInv(owner)
  BY <1>1, BlankIsScanned DEF Init, ScanInv, OneRun, Active, Blank, RowsOwned, RowsUnique
<1>3. RowsCached /\ CacheListed
  BY DEF Init, RowsCached, CacheListed
<1>4. \A r \in Runs : RunMarks(r)
  BY <1>1 DEF Blank, RunMarks, MarksListed, MarksInTurn, DelsAlone, AddsFirst
<1>5. QED BY <1>2, <1>3, <1>4 DEF MarkInv

LEMMA ChunksBegin == ASSUME NEW owner, ChunkInit, VectorInit PROVE ChunksFollow(owner)
<1>1. Init /\ cut = {}
  BY DEF ChunkInit, VectorInit
<1>2. ChunkInv
  BY <1>1 DEF Init, ChunkInit, ChunkInv, ChunkDomains, RowsHaveChunks, RunChunks, ChunkMemory,
              ChunkSources, DoneShown
<1>3. QED BY <1>1, <1>2, PlanBegins, InitType DEF ChunksFollow

(* What IndexedFilesHaveChunks asks for.                                   *)
LEMMA ChunksAreFound == ASSUME ChunkInv PROVE IndexedFilesHaveChunks
<1> SUFFICES ASSUME NEW b \in Branches, NEW x \in catalog[b]
             PROVE  \/ Being(x, b, {"del", "removeTag"})
                    \/ \A n \in 1 .. Parts[x.key] : \E c \in Visible(b) : SameFile(c, x) /\ c.idx = n
  BY DEF IndexedFilesHaveChunks
<1>1. Worked(x, b, Removes) \/ AllParts(Visible(b), x)
  BY DEF ChunkInv, RowsHaveChunks
<1>2. QED BY <1>1 DEF Worked, Removes, Being, AllParts

(* In a branch a search finds all chunks of the versions that the catalog  *)
(* of the branch lists, unless a run is about to take them out, however    *)
(* branches share them: if each text is of one file and what is added      *)
(* beside removals of the same files fits a batch.                         *)
THEOREM ChunksFollowCatalog ==
  ASSUME NEW owner
  PROVE  TagIndexesSpec /\ []TextsOwned(owner) /\ []AddsFit => []ListedChunksFound
<1> DEFINE Inv == artifact = "chunks" => ChunksFollow(owner)
<1>1. TagIndexesInit => Inv
  BY ChunksBegin DEF TagIndexesInit
<1>2. Inv /\ TextsOwned(owner) /\ AddsFit /\ [TagIndexesNext]_indexVars => Inv'
  <2> SUFFICES ASSUME Inv, TextsOwned(owner), AddsFit, [TagIndexesNext]_indexVars,
                      artifact' = "chunks"
               PROVE  ChunksFollow(owner)'
    OBVIOUS
  <2>1. artifact = "chunks" /\ [SteadyNext]_chunkVars /\ UNCHANGED cut
    BY DEF TagIndexesNext, indexVars, vectorVars
  <2>2. QED BY <2>1, ChunksNext
<1>3. Inv => ListedChunksFound
  BY ChunksAreFound DEF ChunksFollow, ListedChunksFound
<1>4. QED BY <1>1, <1>2, <1>3, PTL DEF TagIndexesSpec

-----------------------------------------------------------------------------
(* The other way round.  Of a file of one chunk del leaves nothing; what it *)
(* leaves of others is known.                                              *)
Single(c) == ~(Parts[c.key] > 1)

KeysUnique == \A c, d \in chunks : Single(c) /\ c.key = d.key => c = d

ChunksHome ==
  \A c \in chunks : Single(c) =>
    \/ \E b \in Branches : Listed(c, b)
    \/ \E r \in Runs : \E o \in done[r] : o.kind = "compute" /\ SameFile(c, o)

ChunksListed ==
  \A b \in Branches : \A c \in Visible(b) : Worked(c, b, Kinds) \/ Listed(c, b) \/ Spared(c, b)

TodoLater(r) == todo[r] \cap batch[r] = {}

TagsShared(r) ==
  \A o \in todo[r] \cup batch[r] : o.kind = "removeTag" =>
    \E b \in Branches \ {tag[r]} : Listed(o, b)

NewKeys(r) ==
  \A o \in (todo[r] \cup batch[r]) \ done[r] : o.kind = "compute" /\ Single(o) =>
    \A c \in chunks : c.key # o.key

VictimsLast(r) == \A v \in victim[r], c \in chunks : c.key = v.key => Spared(c, tag[r])

DoneGone(r) ==
  \A o \in done[r] :
    /\ o.kind = "del" => \A c \in chunks : c.key = o.key => Spared(c, tag[r])
    /\ o.kind = "removeTag" => \A c \in Visible(tag[r]) : ~SameFile(c, o)

RunLeavesNone(r) ==
  TodoLater(r) /\ TagsShared(r) /\ NewKeys(r) /\ VictimsLast(r) /\ DoneGone(r)

LeftoverInv == KeysUnique /\ ChunksHome /\ ChunksListed /\ \A r \in Runs : RunLeavesNone(r)

LEMMA SharedElsewhere ==
  ASSUME NEW k, NEW b, Cardinality(TagsOf(k)) > 1
  PROVE  \E c \in Branches \ {b} : <<k, c>> \in gcache
<1> SUFFICES ASSUME \A c \in Branches \ {b} : <<k, c>> \notin gcache PROVE FALSE
  OBVIOUS
<1>1. TagsOf(k) \in SUBSET {b}
  BY DEF TagsOf
<1>2. IsFiniteSet({b}) /\ Cardinality({b}) = 1
  BY FS_Singleton
<1>3. Cardinality(TagsOf(k)) <= 1 /\ Cardinality(TagsOf(k)) \in Nat
  BY <1>1, <1>2, FS_Subset, FS_CardinalityType
<1>4. QED BY <1>3

LEMMA OtherLeftoversRest ==
  ASSUME NEW owner, ScanInv(owner), ChunkInv, NEW r \in Runs, Alone(r),
         \A q \in Runs \ {r} : UNCHANGED <<todo[q], batch[q], done[q], victim[q]>>
  PROVE  \A q \in Runs \ {r} : RunLeavesNone(q)' /\ done[q] = {} /\ batch[q] = {}
<1> SUFFICES ASSUME NEW q \in Runs \ {r} PROVE RunLeavesNone(q)' /\ done[q] = {} /\ batch[q] = {}
  OBVIOUS
<1>1. NoOps(q)
  BY RestingOps DEF Alone
<1>2. done[q] = {} /\ victim[q] = {}
  BY <1>1 DEF ChunkInv, RunChunks, ChunkMemory, NoOps
<1>3. QED BY <1>1, <1>2 DEF NoOps, RunLeavesNone, TodoLater, TagsShared, NewKeys, VictimsLast, DoneGone

LEMMA LeftoversPlanned ==
  ASSUME NEW owner, TypeOK, ScanInv(owner), MarkInv, ChunkInv, LeftoverInv, TextsOwned(owner),
         NEW r \in Runs, Alone(r), PlanStep(r), UNCHANGED <<chunks, chunkTags, spared, cut>>,
         UNCHANGED chunkMemory \/ ForgetChunks(r)
  PROVE  LeftoverInv'
<1>1. /\ \A q \in Runs : batch[q] = {} /\ marked[q] = {}
      /\ \A b \in Branches : \A x : Listed(x, b)' <=> Listed(x, b)
      /\ \A q \in Runs \ {r} : NoOps(q)'
      /\ UNCHANGED gcache
      /\ \A o \in todo'[r] \cup batch'[r] :
              /\ tag'[r] = tag[r]
              /\ o \in todo[r] \/ (pc[r] = "read" /\ o \in AddOps(r) \cup RemoveOps(r))
  BY PlanStepOps
<1>2. \A q \in Runs : done[q] = {} /\ victim[q] = {} /\ pack[q] = {}
  BY <1>1, IdleChunks
<1>3. ASSUME NEW q \in Runs PROVE done'[q] = {} /\ victim'[q] = {}
  <2>1. CASE UNCHANGED chunkMemory
    BY <1>2, <2>1 DEF chunkMemory
  <2>2. CASE ForgetChunks(r)
    <3>1. done' = [done EXCEPT ![r] = {}] /\ victim' = [victim EXCEPT ![r] = {}]
      BY <2>2 DEF ForgetChunks
    <3>2. QED BY <1>2, <3>1 DEF ChunkInv, ChunkDomains
  <2>3. QED BY <2>1, <2>2
<1>4. /\ \A c \in chunks : Single(c) => \E b \in Branches : Listed(c, b)
      /\ \A b \in Branches : \A c \in Visible(b) : Listed(c, b) \/ Spared(c, b)
  BY <1>1, <1>2 DEF LeftoverInv, ChunksHome, ChunksListed, Worked
<1>5. KeysUnique' /\ ChunksHome' /\ ChunksListed'
  BY <1>1, <1>4 DEF LeftoverInv, KeysUnique, ChunksHome, ChunksListed, Visible, Single, Spared
<1>6. TodoLater(r)'
  <2>1. TodoLater(r) /\ (pc[r] # "update" => NoOps(r))
    BY RestingOps DEF LeftoverInv, RunLeavesNone
  <2>2. CASE NextBatch(r)
    BY <1>1, <2>2 DEF NextBatch, TodoLater, TypeOK
  <2>3. CASE SplitFull(r) \/ SplitFile(r)
    BY <2>1, <2>3 DEF SplitFull, SplitFile, Planned, NoOps, TodoLater, TypeOK
  <2>4. CASE Leaves(r)
    BY <2>4 DEF Leaves, Finish, StatFails, NothingToCompute, TouchFails, Forget, TodoLater, TypeOK
  <2>5. ASSUME NEW p \in Paths, ReadNew(r, p) \/ SkipFresh(r, p) \/ ReadSame(r, p) \/ ReadChanged(r, p)
        PROVE  UNCHANGED ops
    BY <2>5 DEF ReadNew, SkipFresh, ReadSame, ReadChanged, Reading
  <2>6. CASE UNCHANGED ops
    BY <1>1, <2>6 DEF TodoLater
  <2>7. Begin(r) \/ GetBranch(r) \/ Stat(r) \/ Plan(r) \/ (\E i : Touch(r, i)) => UNCHANGED ops
    BY DEF Begin, Start, StartFile, GetBranch, Stat, Plan, Touch
  <2>8. QED BY <2>2, <2>3, <2>4, <2>5, <2>6, <2>7 DEF PlanStep, Planning, Between
<1>7. ASSUME NEW o \in todo'[r] \cup batch'[r], o.kind = "removeTag"
      PROVE  \E b \in Branches \ {tag[r]} : Listed(o, b)
  <2>1. CASE o \in todo[r]
    BY <1>7, <2>1 DEF LeftoverInv, RunLeavesNone, TagsShared
  <2>2. CASE pc[r] = "read" /\ o \in RemoveOps(r)
    <3>1. ItemOf(o) \in remove[r] /\ Cardinality(TagsOf(o.key)) > 1
      BY <1>7, <2>2, OpsFrom DEF KindOfRemove
    <3>2. PICK b \in Branches \ {tag[r]} : <<o.key, b>> \in gcache
      BY <3>1, SharedElsewhere
    <3>3. Owns(owner, o)
      BY <3>1 DEF ScanInv, RunScanned, RemovesOwned, Owns, ItemOf
    <3>4. o.key \in Contents
      BY <3>2 DEF TypeOK
    <3>5. PICK x \in catalog[b] : x.key = o.key
      BY <1>1, <3>2, <3>4 DEF MarkInv, CacheListed, ChunkInv
    <3>6. Owns(owner, x)
      BY DEF ScanInv, RowsOwned
    <3>7. QED BY <3>3, <3>5, <3>6 DEF Owns, Listed, SameEntry
  <2>3. CASE o \in AddOps(r)
    BY <1>7, <2>3, OpsFrom DEF Writes
  <2>4. QED BY <1>1, <2>1, <2>2, <2>3
<1>8. ASSUME NEW o \in todo'[r] \cup batch'[r], o.kind = "compute", Single(o), NEW c \in chunks,
             c.key = o.key
      PROVE  FALSE
  <2>1. CASE o \in todo[r]
    BY <1>2, <1>8, <2>1 DEF LeftoverInv, RunLeavesNone, NewKeys
  <2>2. CASE pc[r] = "read" /\ o \in AddOps(r)
    <3>1. TagsOf(o.key) = {}
      BY <1>8, <2>2, OpsFrom DEF KindOfAdd
    <3>2. PICK b \in Branches : Listed(c, b)
      BY <1>4, <1>8 DEF Single
    <3>3. PICK x \in catalog[b] : x.key = c.key
      BY <3>2 DEF Listed, SameEntry
    <3>4. <<x.key, b>> \in gcache
      BY <1>1 DEF MarkInv, RowsCached, Marked, ChunkInv
    <3>5. QED BY <1>8, <3>1, <3>3, <3>4 DEF TagsOf
  <2>3. CASE o \in RemoveOps(r)
    BY <1>8, <2>3, OpsFrom DEF Writes
  <2>4. QED BY <1>1, <2>1, <2>2, <2>3
<1>9. RunLeavesNone(r)'
  <2>1. TagsShared(r)'
    BY <1>1, <1>7 DEF TagsShared
  <2>2. NewKeys(r)'
    BY <1>1, <1>8 DEF NewKeys, Single
  <2>3. QED BY <1>3, <1>6, <2>1, <2>2 DEF RunLeavesNone, VictimsLast, DoneGone
<1>10. ASSUME NEW q \in Runs \ {r} PROVE RunLeavesNone(q)'
  BY <1>1, <1>3 DEF NoOps, RunLeavesNone, TodoLater, TagsShared, NewKeys, VictimsLast, DoneGone
<1>11. QED BY <1>5, <1>9, <1>10 DEF LeftoverInv

LEMMA NewChunksShape ==
  ASSUME NEW q, NEW c \in NewChunks(q)
  PROVE  /\ SameFile(c, q.op) /\ c.idx \in Numbers(q)
         /\ c \notin chunks /\ \A b \in Branches : <<c, b>> \notin chunkTags
<1>1. /\ c \in [path : {q.op.path}, key : {q.op.key}, text : {q.text},
                idx : Numbers(q), copy : 1 .. MaxCopies]
      /\ FreeCopy(c, c.copy)
  BY DEF NewChunks
<1>2. [c EXCEPT !.copy = c.copy] = c
  BY <1>1
<1>3. QED BY <1>1, <1>2 DEF FreeCopy, SameFile

LEMMA OneNewChunk ==
  ASSUME NEW q, q.text \in Contents, ~(Parts[q.text] > 1), NEW c \in NewChunks(q), NEW d \in NewChunks(q)
  PROVE  c = d
<1> DEFINE Made == [path : {q.op.path}, key : {q.op.key}, text : {q.text},
                    idx : Numbers(q), copy : 1 .. MaxCopies]
<1>1. /\ c \in Made /\ FreeCopy(c, c.copy) /\ \A n \in 1 .. c.copy - 1 : ~FreeCopy(c, n)
      /\ d \in Made /\ FreeCopy(d, d.copy) /\ \A n \in 1 .. d.copy - 1 : ~FreeCopy(d, n)
  BY DEF NewChunks
<1>2. Parts[q.text] \in Nat /\ Parts[q.text] <= 1
  BY PartsAssumption
<1>3. /\ c.path = d.path /\ c.key = d.key /\ c.text = d.text /\ c.idx = d.idx
      /\ c.copy \in Nat \ {0} /\ d.copy \in Nat \ {0}
  BY <1>1, <1>2 DEF Numbers
<1>4. ASSUME NEW n PROVE [c EXCEPT !.copy = n] = [d EXCEPT !.copy = n]
  BY <1>1, <1>3
<1>5. \A n : FreeCopy(c, n) <=> FreeCopy(d, n)
  BY <1>4 DEF FreeCopy
<1>6. ~(c.copy < d.copy) /\ ~(d.copy < c.copy)
  BY <1>1, <1>3, <1>5
<1>7. c.copy = d.copy
  BY <1>3, <1>6
<1>8. QED BY <1>1, <1>3, <1>7

(* Two items to be computed with one key are the same item.                *)
LEMMA OneCompute ==
  ASSUME NEW owner, TypeOK, ScanInv(owner), TextsOwned(owner), NEW r \in Runs,
         NEW o \in todo[r] \cup batch[r], NEW p \in todo[r] \cup batch[r],
         o.kind = p.kind, o.key = p.key
  PROVE  o = p
<1>1. Owns(owner, o) /\ Owns(owner, p) /\ o \in Op /\ p \in Op
  BY OpOwned
<1>2. QED BY <1>1 DEF Owns, Op

LEMMA LeftoversInserted ==
  ASSUME NEW owner, TypeOK, ScanInv(owner), TextsOwned(owner), ChunkInv, LeftoverInv,
         NEW r \in Runs, Alone(r), InsertChunks(r)
  PROVE  LeftoverInv'
<1> DEFINE new == UNION {NewChunks(q) : q \in pack[r]}
<1>1. /\ UNCHANGED <<vars, spared, victim>>
      /\ chunks' = chunks \cup new
      /\ chunkTags' = chunkTags \cup {<<c, tag[r]>> : c \in new}
      /\ done'[r] = {q.op : q \in pack[r]} /\ pack[r] # {}
      /\ {q.op : q \in pack[r]} = OfKind(batch[r], "compute")
      /\ \A q \in Runs \ {r} : UNCHANGED done[q]
  BY DEF InsertChunks, ChunkInv, ChunkDomains
<1>2. RunChunks(r) /\ RunLeavesNone(r)
  BY DEF ChunkInv, LeftoverInv
<1>3. /\ done[r] = {} /\ victim[r] = {}
      /\ \A q \in pack[r] : q.op \in batch[r] /\ q.op.kind = "compute" /\ q.text = q.op.key
  BY <1>1, <1>2 DEF RunChunks, ChunkMemory, Writes
<1>4. \A q \in Runs \ {r} : RunLeavesNone(q)' /\ done[q] = {} /\ batch[q] = {}
  BY <1>1, OtherLeftoversRest DEF vars
<1>5. ASSUME NEW c \in new
      PROVE  \E q \in pack[r] : c \in NewChunks(q) /\ SameFile(c, q.op)
  BY NewChunksShape
<1>6. ASSUME NEW c \in chunks, NEW q \in pack[r], Single(q.op) PROVE c.key # q.op.key
  BY <1>2, <1>3, <1>6 DEF RunLeavesNone, NewKeys
<1>7. ASSUME NEW c \in new, NEW d \in new, Single(c), c.key = d.key PROVE c = d
  <2>1. PICK p \in pack[r] : c \in NewChunks(p) /\ SameFile(c, p.op)
    BY <1>5
  <2>2. PICK q \in pack[r] : d \in NewChunks(q) /\ SameFile(d, q.op)
    BY <1>5
  <2>3. p.op = q.op
    BY <1>3, <1>7, <2>1, <2>2, OneCompute DEF SameFile
  <2>4. p.text = q.text
    BY <1>3, <2>3
  <2>5. NewChunks(p) = NewChunks(q)
    BY <2>3, <2>4 DEF NewChunks, Numbers
  <2>6. q.text \in Contents
    <3>1. q.op \in Op /\ q.text = q.op.key
      BY <1>3, <2>2 DEF TypeOK
    <3>2. QED BY <3>1 DEF Op
  <2>7. ~(Parts[q.text] > 1)
    BY <1>3, <1>7, <2>2 DEF Single, SameFile
  <2>8. QED BY <2>1, <2>2, <2>5, <2>6, <2>7, OneNewChunk
<1>8. KeysUnique'
  <2> SUFFICES ASSUME NEW c \in chunks \cup new, NEW d \in chunks \cup new, Single(c), c.key = d.key
               PROVE  c = d
    BY <1>1 DEF KeysUnique, Single
  <2>1. CASE c \in chunks /\ d \in chunks
    BY <2>1 DEF LeftoverInv, KeysUnique
  <2>2. CASE c \in new /\ d \in new
    BY <1>7, <2>2
  <2>3. CASE c \in chunks /\ d \in new
    BY <1>5, <1>6, <2>3 DEF SameFile, Single
  <2>4. CASE c \in new /\ d \in chunks
    BY <1>5, <1>6, <2>4 DEF SameFile, Single
  <2>5. QED BY <2>1, <2>2, <2>3, <2>4
<1>9. ChunksHome'
  <2> SUFFICES ASSUME NEW c \in chunks \cup new, Single(c)
               PROVE  \/ \E b \in Branches : Listed(c, b)
                      \/ \E o \in done'[r] : o.kind = "compute" /\ SameFile(c, o)
    BY <1>1 DEF ChunksHome, Listed, Single, vars
  <2>1. CASE c \in chunks
    BY <1>3, <1>4, <2>1 DEF LeftoverInv, ChunksHome
  <2>2. CASE c \in new
    BY <1>1, <1>3, <1>5, <2>2
  <2>3. QED BY <2>1, <2>2
<1>10. ChunksListed'
  <2> SUFFICES ASSUME NEW b \in Branches, NEW c \in chunks', <<c, b>> \in chunkTags'
               PROVE  Worked(c, b, Kinds) \/ Listed(c, b) \/ Spared(c, b)
    BY <1>1 DEF ChunksListed, Worked, Visible, Listed, Spared, vars
  <2>1. CASE c \in new
    <3>1. b = tag[r]
      BY <1>1, <2>1, NewChunksShape
    <3>2. PICK q \in pack[r] : SameFile(c, q.op)
      BY <1>5, <2>1
    <3>3. q.op \in batch[r] /\ q.op.kind \in Kinds /\ SameEntry(c, q.op)
      BY <1>3, <3>2 DEF Kinds, SameFile, SameEntry
    <3>4. QED BY <3>1, <3>3 DEF Worked
  <2>2. CASE c \notin new
    BY <1>1, <2>2 DEF LeftoverInv, ChunksListed, Visible
  <2>3. QED BY <2>1, <2>2
<1>11. NewKeys(r)'
  <2> SUFFICES ASSUME NEW o \in todo[r] \cup batch[r], o \notin done'[r], o.kind = "compute",
                      Single(o), NEW c \in chunks \cup new
               PROVE  c.key # o.key
    BY <1>1 DEF NewKeys, Single, vars
  <2>1. CASE c \in chunks
    BY <1>2, <1>3, <2>1 DEF RunLeavesNone, NewKeys
  <2>2. CASE c \in new
    <3>1. PICK q \in pack[r] : SameFile(c, q.op)
      BY <1>5, <2>2
    <3>2. q.op \in done'[r] /\ q.op \in batch[r] /\ q.op.kind = "compute"
      BY <1>1, <1>3
    <3>3. QED BY <3>1, <3>2, OneCompute DEF SameFile
  <2>3. QED BY <2>1, <2>2
<1>12. RunLeavesNone(r)'
  <2>1. TodoLater(r)' /\ TagsShared(r)'
    BY <1>1, <1>2 DEF RunLeavesNone, TodoLater, TagsShared, Listed, vars
  <2>2. VictimsLast(r)' /\ DoneGone(r)'
    BY <1>1, <1>3 DEF VictimsLast, DoneGone
  <2>3. QED BY <1>11, <2>1, <2>2 DEF RunLeavesNone
<1>13. QED BY <1>4, <1>8, <1>9, <1>10, <1>12 DEF LeftoverInv

(* The other statements leave no new chunks.                               *)
LEMMA LeftoversFewer ==
  ASSUME NEW owner, TypeOK, ScanInv(owner), ChunkInv, LeftoverInv, NEW r \in Runs, Alone(r),
         UNCHANGED vars, chunks' \subseteq chunks,
         \A b \in Branches : \A c \in Visible(b)' : Spared(c, b) => Spared(c, b)',
         done[r] \subseteq done'[r], VictimsLast(r)', DoneGone(r)',
         \A q \in Runs \ {r} : UNCHANGED <<done[q], victim[q]>>,
         \A b \in Branches : \A c \in Visible(b)' :
           c \in Visible(b) \/ (b = tag[r] /\ \E o \in batch[r] : SameFile(c, o))
  PROVE  LeftoverInv'
<1>1. KeysUnique'
  BY DEF LeftoverInv, KeysUnique, Single
<1>2. ChunksHome'
  <2> SUFFICES ASSUME NEW c \in chunks, Single(c)
               PROVE  \/ \E b \in Branches : Listed(c, b)
                      \/ \E q \in Runs : \E o \in done'[q] : o.kind = "compute" /\ SameFile(c, o)
    BY DEF ChunksHome, Listed, Single, vars
  <2>1. \A q \in Runs : done[q] \subseteq done'[q]
    OBVIOUS
  <2>2. QED BY <2>1 DEF LeftoverInv, ChunksHome
<1>3. ChunksListed'
  <2> SUFFICES ASSUME NEW b \in Branches, NEW c \in Visible(b)'
               PROVE  Worked(c, b, Kinds) \/ Listed(c, b) \/ Spared(c, b)'
    BY DEF ChunksListed, Worked, Listed, vars
  <2>1. CASE c \in Visible(b)
    BY <2>1 DEF LeftoverInv, ChunksListed
  <2>2. CASE b = tag[r] /\ \E o \in batch[r] : SameFile(c, o)
    BY <2>2 DEF Worked, SameFile, SameEntry, TypeOK, Op
  <2>3. QED BY <2>1, <2>2
<1>4. RunLeavesNone(r)'
  <2>1. RunLeavesNone(r)
    BY DEF LeftoverInv
  <2>2. TodoLater(r)' /\ TagsShared(r)'
    BY <2>1 DEF RunLeavesNone, TodoLater, TagsShared, Listed, vars
  <2>3. NewKeys(r)'
    BY <2>1 DEF RunLeavesNone, NewKeys, Single, vars
  <2>4. QED BY <2>2, <2>3 DEF RunLeavesNone
<1>5. \A q \in Runs \ {r} : RunLeavesNone(q)'
  BY OtherLeftoversRest DEF vars
<1>6. QED BY <1>1, <1>2, <1>3, <1>4, <1>5 DEF LeftoverInv

LEMMA LeftoversUpdated ==
  ASSUME NEW owner, TypeOK, ScanInv(owner), ChunkInv, LeftoverInv, NEW r \in Runs, Alone(r),
         NEW o, PackToChunks(r, o) \/ AddTag(r, o) \/ RemoveTag(r, o) \/ DeleteChunk(r, o)
                  \/ DeleteTags(r, o) \/ NothingToDelete(r, o)
  PROVE  LeftoverInv'
<1>1. RunChunks(r) /\ RunLeavesNone(r) /\ ChunkDomains
  BY DEF ChunkInv, LeftoverInv
<1>2. UNCHANGED vars /\ UNCHANGED tag
  BY DEF PackToChunks, AddTag, RemoveTag, DeleteChunk, DeleteTags, NothingToDelete, vars
<1>3. CASE PackToChunks(r, o)
  <2>1. UNCHANGED <<chunks, chunkTags, spared, done, victim>>
    BY <1>3 DEF PackToChunks, chunkTables
  <2>2. VictimsLast(r)' /\ DoneGone(r)'
    BY <1>1, <1>2, <2>1 DEF RunLeavesNone, VictimsLast, DoneGone, Visible, Spared
  <2>3. /\ \A b \in Branches : Visible(b)' = Visible(b)
        /\ \A b, c : Spared(c, b) => Spared(c, b)'
    BY <2>1 DEF Visible, Spared
  <2>4. QED BY <1>2, <2>1, <2>2, <2>3, LeftoversFewer
<1>4. CASE AddTag(r, o)
  <2>1. /\ UNCHANGED <<chunks, spared, victim>> /\ o \in batch[r] /\ done[r] = {} /\ victim[r] = {}
        /\ o.kind = "addTag" /\ done'[r] = {o} /\ \A q \in Runs \ {r} : UNCHANGED done[q]
        /\ chunkTags' = chunkTags \cup {<<c, tag[r]>> : c \in {d \in chunks : SameFile(d, o)}}
    BY <1>1, <1>4 DEF AddTag, MyTurn, ChunkDomains
  <2>2. VictimsLast(r)' /\ DoneGone(r)'
    BY <2>1 DEF VictimsLast, DoneGone
  <2>3. ASSUME NEW b \in Branches, NEW c \in Visible(b)'
        PROVE  /\ c \in Visible(b) \/ (b = tag[r] /\ \E p \in batch[r] : SameFile(c, p))
               /\ Spared(c, b) => Spared(c, b)'
    BY <2>1 DEF Visible, Spared
  <2>4. QED BY <1>2, <2>1, <2>2, <2>3, LeftoversFewer
<1>5. CASE RemoveTag(r, o)
  <2>1. /\ UNCHANGED <<chunks, victim>> /\ done[r] = {} /\ victim[r] = {}
        /\ o.kind = "removeTag" /\ done'[r] = {o} /\ \A q \in Runs \ {r} : UNCHANGED done[q]
        /\ chunkTags' = chunkTags \ TagsOfFile(r, o)
        /\ spared' = {t \in spared : ~(SameFile(t[1], o) /\ t[2] = tag[r])}
    BY <1>1, <1>5 DEF RemoveTag, MyTurn, ChunkDomains
  <2>2. \A b : Visible(b)' \subseteq Visible(b)
    BY <2>1 DEF Visible
  <2>3. \A c \in Visible(tag[r])' : ~SameFile(c, o)
    BY <1>2, <2>1 DEF Visible, TagsOfFile
  <2>4. VictimsLast(r)' /\ DoneGone(r)'
    BY <2>1, <2>3 DEF VictimsLast, DoneGone
  <2>5. ASSUME NEW b \in Branches, NEW c \in Visible(b)', Spared(c, b) PROVE Spared(c, b)'
    <3>1. ~(SameFile(c, o) /\ b = tag[r])
      BY <1>2, <2>3, <2>5
    <3>2. <<c, b>> \in spared /\ <<c, b>>[1] = c /\ <<c, b>>[2] = b
      BY <2>5 DEF Spared
    <3>3. <<c, b>> \in spared'
      BY <2>1, <3>1, <3>2
    <3>4. QED BY <2>5, <3>3 DEF Spared
  <2>6. QED BY <1>2, <2>1, <2>2, <2>4, <2>5, LeftoversFewer
<1>6. CASE DeleteChunk(r, o)
  <2>1. PICK c \in chunks :
          /\ c.key = o.key /\ chunks' = chunks \ {c} /\ victim' = [victim EXCEPT ![r] = {c}]
          /\ spared' = spared \cup {<<d, tag[r]>> : d \in {d \in chunks' : d.key = o.key}}
    BY <1>6 DEF DeleteChunk
  <2>2. /\ UNCHANGED <<chunkTags, done>> /\ done[r] = {} /\ victim'[r] = {c}
        /\ \A q \in Runs \ {r} : UNCHANGED victim[q]
    BY <1>1, <1>6, <2>1 DEF DeleteChunk, MyTurn, ChunkDomains
  <2>3. ASSUME NEW d \in chunks', d.key = c.key PROVE Spared(d, tag[r])'
    <3>1. ~Single(d)
      BY <2>1, <2>3 DEF LeftoverInv, KeysUnique
    <3>2. <<d, tag[r]>> \in spared'
      BY <2>1, <2>3
    <3>3. QED BY <1>2, <3>1, <3>2 DEF Single, Spared
  <2>4. VictimsLast(r)' /\ DoneGone(r)'
    BY <1>2, <2>2, <2>3 DEF VictimsLast, DoneGone
  <2>5. \A b : Visible(b)' \subseteq Visible(b)
    BY <2>1, <2>2 DEF Visible
  <2>6. \A b, d : Spared(d, b) => Spared(d, b)'
    BY <2>1 DEF Spared
  <2>7. QED BY <1>2, <2>1, <2>2, <2>4, <2>5, <2>6, LeftoversFewer
<1>7. CASE DeleteTags(r, o)
  <2>1. PICK c \in victim[r] : /\ c.key = o.key
                               /\ chunkTags' = chunkTags \ {<<c, b>> : b \in Branches}
    BY <1>7 DEF DeleteTags
  <2>2. /\ UNCHANGED <<chunks, spared>> /\ o.kind = "del" /\ done'[r] = {o} /\ victim'[r] = {}
        /\ \A q \in Runs \ {r} : UNCHANGED <<done[q], victim[q]>>
    BY <1>1, <1>7 DEF DeleteTags, ChunkDomains
  <2>3. done[r] = {}
    BY <1>1, <2>1 DEF RunChunks, ChunkMemory
  <2>4. \A d \in chunks : d.key = o.key => Spared(d, tag[r])
    BY <1>1, <2>1 DEF RunLeavesNone, VictimsLast
  <2>5. \A b, d : Spared(d, b)' <=> Spared(d, b)
    BY <2>2 DEF Spared
  <2>6. VictimsLast(r)' /\ DoneGone(r)'
    BY <1>2, <2>2, <2>4, <2>5 DEF VictimsLast, DoneGone
  <2>7. \A b : Visible(b)' \subseteq Visible(b)
    BY <2>1, <2>2 DEF Visible
  <2>8. QED BY <1>2, <2>2, <2>3, <2>5, <2>6, <2>7, LeftoversFewer
<1>8. CASE NothingToDelete(r, o)
  <2>1. /\ UNCHANGED <<chunks, chunkTags, spared, victim>> /\ done[r] = {} /\ victim[r] = {}
        /\ o.kind = "del" /\ done'[r] = {o} /\ \A q \in Runs \ {r} : UNCHANGED done[q]
        /\ \A c \in chunks : c.key # o.key
    BY <1>1, <1>8 DEF NothingToDelete, MyTurn, chunkTables, ChunkDomains
  <2>2. VictimsLast(r)' /\ DoneGone(r)'
    BY <2>1 DEF VictimsLast, DoneGone
  <2>3. /\ \A b \in Branches : Visible(b)' = Visible(b)
        /\ \A b, c : Spared(c, b) => Spared(c, b)'
    BY <2>1 DEF Visible, Spared
  <2>4. QED BY <1>2, <2>1, <2>2, <2>3, LeftoversFewer
<1>9. QED BY <1>3, <1>4, <1>5, <1>6, <1>7, <1>8

LEMMA LeftoversMarked ==
  ASSUME NEW owner, TypeOK, ScanInv(owner), TextsOwned(owner), ChunkInv, LeftoverInv,
         NEW r \in Runs, Alone(r), NEW o, Mark(r, o), UNCHANGED cut
  PROVE  LeftoverInv'
<1>1. /\ UNCHANGED <<chunks, chunkTags, spared, pack, victim, tag, todo>>
      /\ MarkCatalog(r, o) /\ o \in done[r] /\ o \in batch[r]
      /\ done'[r] = done[r] \ {o} /\ batch'[r] = batch[r] \ {o}
      /\ \A q \in Runs \ {r} : UNCHANGED <<done[q], batch[q]>>
  BY DEF Mark, MarkCatalog, chunkTables, ChunkInv, ChunkDomains, TypeOK
<1>2. RunChunks(r) /\ RunLeavesNone(r) /\ tag[r] \in Branches /\ o.kind \in Kinds
  BY <1>1 DEF ChunkInv, LeftoverInv, TypeOK, Op
<1>3. /\ \A c \in Branches \ {tag[r]} : catalog'[c] = catalog[c]
      /\ \A x : Listed(x, tag[r])' <=> \/ Listed(x, tag[r]) /\ ~SameEntry(x, o)
                                       \/ o.kind \in Writes /\ SameEntry(x, o)
  BY <1>1, ScanMark
<1>4. \A q \in Runs \ {r} : RunLeavesNone(q)' /\ done[q] = {} /\ batch[q] = {}
  BY <1>1, OtherLeftoversRest
<1>5. ASSUME NEW x, NEW b \in Branches \ {tag[r]} PROVE Listed(x, b)' <=> Listed(x, b)
  BY <1>3 DEF Listed
<1>6. ASSUME NEW x, Listed(x, tag[r]), ~Listed(x, tag[r])'
      PROVE  SameEntry(x, o) /\ o.kind \in Removes
  BY <1>2, <1>3, <1>6 DEF Kinds, Writes, Removes
<1>7. ASSUME NEW c \in chunks, Single(c), SameEntry(c, o), o.kind \in Removes
      PROVE  \E b \in Branches \ {tag[r]} : Listed(c, b)
  <2>1. c.key = o.key /\ \A y : SameEntry(y, o) => SameEntry(y, c)
    BY <1>7 DEF SameEntry
  <2>2. o.kind = "removeTag"
    BY <1>1, <1>2, <1>7, <2>1 DEF RunLeavesNone, DoneGone, Removes, Spared, Single
  <2>3. PICK b \in Branches \ {tag[r]} : Listed(o, b)
    BY <1>1, <1>2, <2>2 DEF RunLeavesNone, TagsShared
  <2>4. QED BY <2>1, <2>3 DEF Listed
<1>8. ASSUME NEW c \in Visible(tag[r]), SameEntry(c, o)
      PROVE  o.kind \in Writes \/ Spared(c, tag[r])
  BY <1>1, <1>2, <1>8 DEF RunLeavesNone, DoneGone, Visible, SameEntry, SameFile, Kinds, Writes
<1>9. ChunksHome'
  <2> SUFFICES ASSUME NEW c \in chunks, Single(c)
               PROVE  \/ \E b \in Branches : Listed(c, b)'
                      \/ \E q \in Runs : \E p \in done'[q] : p.kind = "compute" /\ SameFile(c, p)
    BY <1>1 DEF ChunksHome, Single
  <2>1. CASE \E b \in Branches : Listed(c, b)
    <3>1. PICK b \in Branches : Listed(c, b)
      BY <2>1
    <3>2. CASE b # tag[r]
      BY <1>5, <3>1, <3>2
    <3>3. CASE b = tag[r]
      <4>1. CASE Listed(c, tag[r])'
        BY <1>1, <1>2, <4>1
      <4>2. CASE ~Listed(c, tag[r])'
        BY <1>5, <1>6, <1>7, <3>1, <3>3, <4>2
      <4>3. QED BY <4>1, <4>2
    <3>4. QED BY <3>2, <3>3
  <2>2. CASE \E q \in Runs : \E p \in done[q] : p.kind = "compute" /\ SameFile(c, p)
    <3>1. PICK p \in done[r] : p.kind = "compute" /\ SameFile(c, p)
      BY <1>4, <2>2
    <3>2. CASE p = o
      <4>1. o.kind \in Writes /\ SameEntry(c, o)
        BY <3>1, <3>2 DEF Writes, SameFile, SameEntry
      <4>2. Listed(c, tag[r])'
        BY <1>3, <4>1
      <4>3. QED BY <1>1, <1>2, <4>2
    <3>3. CASE p # o
      BY <1>1, <3>1, <3>3
    <3>4. QED BY <3>2, <3>3
  <2>3. QED BY <2>1, <2>2 DEF LeftoverInv, ChunksHome
<1>10. ChunksListed'
  <2> SUFFICES ASSUME NEW b \in Branches, NEW c \in Visible(b)
               PROVE  Worked(c, b, Kinds)' \/ Listed(c, b)' \/ Spared(c, b)
    BY <1>1 DEF ChunksListed, Visible, Spared
  <2>1. CASE Listed(c, b)
    <3>1. CASE b # tag[r]
      BY <1>5, <2>1, <3>1
    <3>2. CASE b = tag[r]
      <4>1. SameEntry(c, o) => o.kind \in Writes \/ Spared(c, b)
        BY <1>8, <3>2
      <4>2. Listed(c, tag[r])' \/ Spared(c, b)
        BY <1>3, <2>1, <3>2, <4>1
      <4>3. QED BY <1>1, <3>2, <4>2 DEF Listed
    <3>3. QED BY <3>1, <3>2
  <2>2. CASE Worked(c, b, Kinds)
    <3>1. PICK p \in batch[r] : tag[r] = b /\ p.kind \in Kinds /\ SameEntry(c, p)
      BY <1>4, <2>2 DEF Worked
    <3>2. CASE p = o
      <4>1. SameEntry(c, o) /\ (o.kind \in Writes \/ Spared(c, b))
        BY <1>8, <3>1, <3>2
      <4>2. Listed(c, tag[r])' \/ Spared(c, b)
        BY <1>3, <4>1
      <4>3. QED BY <1>1, <3>1, <4>2 DEF Listed
    <3>3. CASE p # o
      BY <1>1, <3>1, <3>3 DEF Worked
    <3>4. QED BY <3>2, <3>3
  <2>3. QED BY <2>1, <2>2 DEF LeftoverInv, ChunksListed
<1>11. RunLeavesNone(r)'
  <2>1. TodoLater(r)'
    BY <1>1, <1>2 DEF RunLeavesNone, TodoLater
  <2>2. TagsShared(r)'
    <3> SUFFICES ASSUME NEW p \in todo[r] \cup batch[r], p.kind = "removeTag"
                 PROVE  \E b \in Branches \ {tag[r]} : Listed(p, b)'
      BY <1>1 DEF TagsShared
    <3>1. QED BY <1>2, <1>5 DEF RunLeavesNone, TagsShared
  <2>3. NewKeys(r)'
    BY <1>1, <1>2 DEF RunLeavesNone, TodoLater, NewKeys, Single
  <2>4. VictimsLast(r)' /\ DoneGone(r)'
    BY <1>1, <1>2 DEF RunLeavesNone, VictimsLast, DoneGone, Visible, Spared
  <2>5. QED BY <2>1, <2>2, <2>3, <2>4 DEF RunLeavesNone
<1>12. KeysUnique'
  BY <1>1 DEF LeftoverInv, KeysUnique, Single
<1>13. QED BY <1>4, <1>9, <1>10, <1>11, <1>12 DEF LeftoverInv

LEMMA LeftoversRest ==
  ASSUME LeftoverInv, UNCHANGED <<catalog, tag, todo, batch, chunkTables, chunkMemory>>
  PROVE  LeftoverInv'
<1>1. UNCHANGED <<chunks, chunkTags, spared, done, victim>>
  BY DEF chunkTables, chunkMemory
<1>2. \A x, b, kinds : Worked(x, b, kinds) <=> Worked(x, b, kinds)'
  BY DEF Worked
<1>3. \A x, b : Listed(x, b) <=> Listed(x, b)'
  BY DEF Listed
<1>4. /\ \A b : Visible(b)' = Visible(b)
      /\ \A b, c : Spared(c, b)' <=> Spared(c, b)
      /\ \A c : Single(c)' <=> Single(c)
  BY <1>1 DEF Visible, Spared, Single
<1>5. KeysUnique' /\ ChunksHome' /\ ChunksListed'
  BY <1>1, <1>2, <1>3, <1>4 DEF LeftoverInv, KeysUnique, ChunksHome, ChunksListed
<1>6. ASSUME NEW q \in Runs PROVE RunLeavesNone(q)'
  <2>1. RunLeavesNone(q)
    BY DEF LeftoverInv
  <2>2. TodoLater(q)' /\ NewKeys(q)' /\ VictimsLast(q)' /\ DoneGone(q)'
    BY <1>1, <1>4, <2>1 DEF RunLeavesNone, TodoLater, NewKeys, VictimsLast, DoneGone
  <2>3. TagsShared(q)'
    BY <1>3, <2>1 DEF RunLeavesNone, TagsShared
  <2>4. QED BY <2>2, <2>3 DEF RunLeavesNone
<1>7. QED BY <1>5, <1>6 DEF LeftoverInv

LEMMA LeftoversNext ==
  ASSUME NEW owner, ChunksFollow(owner), LeftoverInv, TextsOwned(owner),
         [SteadyNext]_chunkVars, UNCHANGED cut
  PROVE  LeftoverInv'
<1>1. TypeOK /\ ScanInv(owner) /\ MarkInv /\ ChunkInv
  BY DEF ChunksFollow
<1>2. CASE Change /\ Quiet
  <2>1. UNCHANGED <<catalog, tag, todo, batch>>
    BY <1>2 DEF Change, World, WriteFile, Edit, DeleteFile, Save, Checkout
  <2>2. QED BY <1>2, <2>1, LeftoversRest DEF Change
<1>3. ASSUME NEW r \in Runs, Step(r), Alone(r) PROVE LeftoverInv'
  <2>1. CASE PlanStep(r) /\ UNCHANGED chunkTables /\ (UNCHANGED chunkMemory \/ ForgetChunks(r))
    <3>1. UNCHANGED <<chunks, chunkTags, spared>>
      BY <2>1 DEF chunkTables
    <3>2. QED BY <1>1, <1>3, <2>1, <3>1, LeftoversPlanned
  <2>2. CASE InsertChunks(r)
    BY <1>1, <1>3, <2>2, LeftoversInserted
  <2>3. ASSUME NEW o, PackToChunks(r, o) \/ AddTag(r, o) \/ RemoveTag(r, o) \/ DeleteChunk(r, o)
                        \/ DeleteTags(r, o) \/ NothingToDelete(r, o)
        PROVE  LeftoverInv'
    BY <1>1, <1>3, <2>3, LeftoversUpdated
  <2>4. ASSUME NEW o, Mark(r, o) PROVE LeftoverInv'
    BY <1>1, <1>3, <2>4, LeftoversMarked
  <2>5. ASSUME NEW o, Cache(r, o) PROVE LeftoverInv'
    <3>1. UNCHANGED <<catalog, tag, todo, batch, chunkTables, chunkMemory>>
      BY <2>5 DEF Cache, MarkGlobal
    <3>2. QED BY <3>1, LeftoversRest
  <2>6. QED BY <1>3, <2>1, <2>2, <2>3, <2>4, <2>5 DEF Step, Update, PlanStep, ForgetChunks
<1>4. CASE UNCHANGED chunkVars
  <2>1. UNCHANGED <<catalog, tag, todo, batch, chunkTables, chunkMemory>>
    BY <1>4 DEF chunkVars, vars
  <2>2. QED BY <2>1, LeftoversRest
<1>5. QED BY <1>2, <1>3, <1>4 DEF SteadyNext

LEMMA LeftoversBegin == ASSUME ChunkInit PROVE LeftoverInv
  BY DEF ChunkInit, Init, LeftoverInv, KeysUnique, ChunksHome, ChunksListed, Visible, RunLeavesNone,
         TodoLater, TagsShared, NewKeys, VictimsLast, DoneGone

LEMMA NoChunksAreLeft == ASSUME LeftoverInv PROVE NoLeftoverChunks
<1> SUFFICES ASSUME NEW b \in Branches, NEW c \in Visible(b)
             PROVE  Being(c, b, Kinds) \/ (\E x \in catalog[b] : SameFile(c, x)) \/ Spared(c, b)
  BY DEF NoLeftoverChunks
<1>1. Worked(c, b, Kinds) \/ Listed(c, b) \/ Spared(c, b)
  BY DEF LeftoverInv, ChunksListed
<1>2. QED BY <1>1 DEF Worked, Being, Listed, SameFile, SameEntry

(* A search finds the chunks of no other versions than those listed, but   *)
(* for what a run has written and is about to list, and for the chunks     *)
(* that del left of a file of several.                                     *)
THEOREM NoOtherChunksFound ==
  ASSUME NEW owner
  PROVE  TagIndexesSpec /\ []TextsOwned(owner) /\ []AddsFit => []OnlyListedChunksFound
<1> DEFINE Inv == artifact = "chunks" => ChunksFollow(owner) /\ LeftoverInv
<1>1. TagIndexesInit => Inv
  BY ChunksBegin, LeftoversBegin DEF TagIndexesInit
<1>2. Inv /\ TextsOwned(owner) /\ AddsFit /\ [TagIndexesNext]_indexVars => Inv'
  <2> SUFFICES ASSUME Inv, TextsOwned(owner), AddsFit, [TagIndexesNext]_indexVars,
                      artifact' = "chunks"
               PROVE  ChunksFollow(owner)' /\ LeftoverInv'
    OBVIOUS
  <2>1. artifact = "chunks" /\ [SteadyNext]_chunkVars /\ UNCHANGED cut
    BY DEF TagIndexesNext, indexVars, vectorVars
  <2>2. QED BY <2>1, ChunksNext, LeftoversNext
<1>3. Inv => OnlyListedChunksFound
  BY NoChunksAreLeft DEF OnlyListedChunksFound
<1>4. QED BY <1>1, <1>2, <1>3, PTL DEF TagIndexesSpec

-----------------------------------------------------------------------------
(* The vector index.  A version whose update was cut off is excused.       *)

(* A set of numbers that is not empty has a least one.                     *)
LEMMA LeastNumber ==
  ASSUME NEW M, M \subseteq Nat, M # {}
  PROVE  \E k \in M : \A l \in M : k <= l
<1> DEFINE Less == OpToRel(<, Nat)
<1>1. \A k, l \in Nat : <<k, l>> \in Less <=> k < l
  BY DEF OpToRel
<1>2. IsWellFoundedOn(Less, Nat)
  BY NatLessThanWellFounded
<1> HIDE DEF Less
<1>3. PICK k \in M : \A l \in M : <<l, k>> \notin Less
  BY <1>2, WFMin
<1>4. ASSUME NEW l \in M PROVE k <= l
  <2>1. k \in Nat /\ l \in Nat
    OBVIOUS
  <2>2. ~(l < k)
    BY <1>1, <1>3, <2>1, Zenon
  <2>3. QED BY <2>1, <2>2
<1>5. QED BY <1>4

(* What an update holds between two statements, by where it is.            *)
VectorMemory(r) ==
  /\ phase[r] # "none" => pc[r] = "update"
  /\ written[r] \subseteq batch[r] /\ written[r] \cap gone[r] = {}
  /\ \A o \in gone[r] : o \in batch[r] /\ o.kind \notin Writes
  /\ \A q \in packed[r] : q.op \in batch[r] /\ q.op.kind = "compute" /\ q.text = q.op.key
  /\ phase[r] \notin {"tags", "del"} => gone[r] = {}
  /\ phase[r] # "compute" => packed[r] = {}
  /\ phase[r] # "insert" => fresh[r] = {}
  /\ phase[r] \in {"compute", "insert"} => written[r] = {}
  /\ phase[r] \in {"tags", "del"} => \A o \in batch[r] : o.kind = "compute" => o \in written[r]
  /\ gone[r] # {} \/ phase[r] = "del" => \A o \in batch[r] : o.kind \notin Writes
  /\ phase[r] = "del" => \A o \in gone[r] : o.kind = "del"

(* Rows computed are in the cache before they go into the table.           *)
FreshWritten(r) ==
  phase[r] = "insert" =>
    /\ \A o \in batch[r] : o.kind = "compute" => AllParts(fresh[r], o)
    /\ \A v \in fresh[r] : v \in cache /\ \E o \in batch[r] : o.kind = "compute" /\ SameFile(v, o)

VectorSources(r) ==
  \A o \in todo[r] \cup batch[r] : o.kind = "addTag" => ItemOf(o) \in cut \/ AllParts(cache, o)

WrittenShown(r) ==
  \A o \in written[r] : o.kind \in Writes => ItemOf(o) \in cut \/ AllParts(Found(tag[r]), o)

(* Removals are out of the table before they are out of the cache.         *)
TableCleared(r) ==
  \A o \in batch[r] :
    o.kind \notin Writes /\ (o \in gone[r] \cup written[r] \/ phase[r] = "del") =>
      \A v \in vectors[tag[r]] : ~SameFile(v, o)

RunVectors(r) ==
  VectorMemory(r) /\ FreshWritten(r) /\ VectorSources(r) /\ WrittenShown(r) /\ TableCleared(r)

TablesMade == \A b \in Branches \ made : vectors[b] = {}

RowsHaveVectors ==
  \A b \in Branches : \A x \in catalog[b] :
    ItemOf(x) \in cut \/ Worked(x, b, Removes) \/ AllParts(Found(b), x)

VectorsListed ==
  \A b \in Branches : \A v \in Found(b) :
    ItemOf(v) \in cut \/ Worked(v, b, Kinds) \/ Listed(v, b)

VectorDomains ==
  /\ DOMAIN vectors = Branches /\ DOMAIN phase = Runs /\ DOMAIN packed = Runs
  /\ DOMAIN fresh = Runs /\ DOMAIN gone = Runs /\ DOMAIN written = Runs

VectorInv ==
  /\ VectorDomains /\ cut \subseteq Item /\ TablesMade /\ RowsHaveVectors /\ VectorsListed
  /\ \A r \in Runs : RunVectors(r)

(* Where nothing is under way, nothing is held.                            *)
LEMMA IdleVectors ==
  ASSUME NEW owner, ScanInv(owner), VectorInv, NEW r \in Runs, batch[r] = {}, phase[r] = "none"
  PROVE  packed[r] = {} /\ fresh[r] = {} /\ gone[r] = {} /\ written[r] = {}
  BY DEF VectorInv, RunVectors, VectorMemory

LEMMA OtherVectorsRest ==
  ASSUME NEW owner, ScanInv(owner), VectorInv, NEW r \in Runs, Alone(r),
         \A q \in Runs \ {r} : /\ UNCHANGED <<pc[q], todo[q], batch[q], marked[q], phase[q], packed[q]>>
                               /\ UNCHANGED <<fresh[q], gone[q], written[q]>>
  PROVE  /\ \A q \in Runs \ {r} : RunVectors(q)' /\ batch[q] = {}
         /\ \A x, b, kinds : Worked(x, b, kinds) <=>
              tag[r] = b /\ \E o \in batch[r] : o.kind \in kinds /\ SameEntry(x, o)
<1>1. ASSUME NEW q \in Runs \ {r} PROVE RunVectors(q)' /\ batch[q] = {}
  <2>1. NoOps(q)
    BY RestingOps DEF Alone
  <2>2. phase[q] = "none"
    BY DEF VectorInv, RunVectors, VectorMemory, Alone, Active
  <2>3. packed[q] = {} /\ fresh[q] = {} /\ gone[q] = {} /\ written[q] = {}
    BY <2>1, <2>2, IdleVectors DEF NoOps
  <2>4. QED
    BY <2>1, <2>2, <2>3 DEF NoOps, RunVectors, VectorMemory, FreshWritten, VectorSources, WrittenShown,
                            TableCleared
<1>2. QED BY <1>1 DEF Worked

LEMMA VectorsPlanned ==
  ASSUME NEW owner, TypeOK, ScanInv(owner), MarkInv, VectorInv, TextsOwned(owner),
         NEW r \in Runs, Alone(r), phase[r] = "none", PlanStep(r), UNCHANGED vectorVars
  PROVE  VectorInv'
<1>1. /\ \A q \in Runs : batch[q] = {}
      /\ \A b \in Branches : \A x : Listed(x, b)' <=> Listed(x, b)
      /\ \A q \in Runs \ {r} : NoOps(q)'
      /\ \A o \in todo'[r] \cup batch'[r] :
              o \in todo[r] \/ (pc[r] = "read" /\ o \in AddOps(r) \cup RemoveOps(r))
      /\ UNCHANGED <<cache, vectors, made, phase, packed, fresh, gone, written, cut>>
  <2>1. UNCHANGED <<cache, vectors, made, phase, packed, fresh, gone, written, cut>>
    BY DEF vectorVars, vectorTables, vectorMemory
  <2>2. QED BY <2>1, PlanStepOps
<1>2. ASSUME NEW q \in Runs
      PROVE  phase[q] = "none" /\ packed[q] = {} /\ fresh[q] = {} /\ gone[q] = {} /\ written[q] = {}
  <2>1. phase[q] = "none"
    BY DEF VectorInv, RunVectors, VectorMemory, Alone, Active
  <2>2. QED BY <1>1, <2>1, IdleVectors
<1>3. ASSUME NEW b \in Branches, NEW x, Listed(x, b) PROVE ItemOf(x) \in cut \/ AllParts(Found(b), x)
  <2>1. PICK y \in catalog[b] : SameEntry(y, x)
    BY <1>3 DEF Listed
  <2>2. ItemOf(y) \in cut \/ AllParts(Found(b), y)
    BY <1>1 DEF VectorInv, RowsHaveVectors, Worked
  <2>3. QED BY <2>1, <2>2, SameItem, SameParts
<1>4. RowsHaveVectors'
  <2> SUFFICES ASSUME NEW b \in Branches, NEW x \in catalog'[b]
               PROVE  ItemOf(x) \in cut \/ AllParts(Found(b), x)'
    BY <1>1 DEF RowsHaveVectors
  <2>1. Listed(x, b)'
    BY DEF Listed, SameEntry
  <2>2. ItemOf(x) \in cut \/ AllParts(Found(b), x)
    BY <1>1, <1>3, <2>1
  <2>3. QED BY <1>1, <2>2 DEF AllParts, Found
<1>5. VectorsListed'
  <2>1. \A b \in Branches : \A v \in Found(b) : ItemOf(v) \in cut \/ Listed(v, b)
    BY <1>1 DEF VectorInv, VectorsListed, Worked
  <2>2. QED BY <1>1, <2>1 DEF VectorsListed, Found
<1>6. ASSUME NEW o \in todo'[r] \cup batch'[r], o.kind = "addTag"
      PROVE  ItemOf(o) \in cut \/ AllParts(cache, o)
  <2>1. CASE o \in todo[r]
    BY <1>6, <2>1 DEF VectorInv, RunVectors, VectorSources
  <2>2. CASE pc[r] = "read" /\ o \in AddOps(r)
    <3>1. \/ \E b \in Branches : Listed(o, b)
          \/ \E i \in cut : SameEntry(i, o)
      BY <1>6, <2>2, TaggedListed
    <3>2. ASSUME NEW b \in Branches, Listed(o, b) PROVE ItemOf(o) \in cut \/ AllParts(cache, o)
      BY <1>3, <3>2 DEF AllParts, Found
    <3>3. ASSUME NEW i \in cut, SameEntry(i, o) PROVE ItemOf(o) \in cut
      <4>1. ItemOf(i) = i
        BY DEF VectorInv, Item, ItemOf
      <4>2. ItemOf(i) = ItemOf(o)
        BY <3>3, SameItem
      <4>3. QED BY <4>1, <4>2
    <3>4. QED BY <3>1, <3>2, <3>3
  <2>3. CASE o \in RemoveOps(r)
    BY <1>6, <2>3, OpsFrom DEF Writes
  <2>4. QED BY <1>1, <2>1, <2>2, <2>3
<1>7. ASSUME NEW q \in Runs PROVE VectorSources(q)'
  <2>1. CASE q = r
    BY <1>1, <1>6, <2>1 DEF VectorSources, AllParts
  <2>2. CASE q # r
    BY <1>1, <2>2 DEF NoOps, VectorSources
  <2>3. QED BY <2>1, <2>2
<1>8. ASSUME NEW q \in Runs PROVE RunVectors(q)'
  BY <1>1, <1>2, <1>7 DEF RunVectors, VectorMemory, FreshWritten, WrittenShown, TableCleared
<1>9. TablesMade' /\ VectorDomains' /\ cut' \subseteq Item
  BY <1>1 DEF VectorInv, TablesMade, VectorDomains
<1>10. QED BY <1>4, <1>5, <1>8, <1>9 DEF VectorInv

(* Statements that touch no row, or only add some.                         *)
LEMMA VectorsGrow ==
  ASSUME VectorInv, UNCHANGED <<vars, cut>>, cache \subseteq cache',
         \A b \in Branches : vectors[b] \subseteq vectors'[b]
  PROVE  RowsHaveVectors' /\ \A r \in Runs : VectorSources(r)'
<1>1. \A b \in Branches : Found(b) \subseteq Found(b)'
  BY DEF Found
<1>2. RowsHaveVectors'
  <2> SUFFICES ASSUME NEW b \in Branches, NEW x \in catalog[b], ItemOf(x) \notin cut,
                      ~Worked(x, b, Removes)
               PROVE  AllParts(Found(b), x)'
    BY DEF RowsHaveVectors, Worked, vars
  <2>1. AllParts(Found(b), x)
    BY DEF VectorInv, RowsHaveVectors
  <2>2. QED BY <1>1, <2>1 DEF AllParts
<1>3. ASSUME NEW r \in Runs PROVE VectorSources(r)'
  BY DEF VectorInv, RunVectors, VectorSources, AllParts, vars
<1>4. QED BY <1>2, <1>3

LEMMA VectorsSame ==
  ASSUME VectorInv, UNCHANGED <<vars, cut, cache, vectors, made>>
  PROVE  RowsHaveVectors' /\ VectorsListed' /\ TablesMade' /\ \A r \in Runs : VectorSources(r)'
<1>1. \A b : Found(b)' = Found(b)
  BY DEF Found
<1>2. \A x, b, kinds : Worked(x, b, kinds)' <=> Worked(x, b, kinds)
  BY DEF Worked, vars
<1>3. \A x, b : Listed(x, b)' <=> Listed(x, b)
  BY DEF Listed, vars
<1>4. VectorsListed' /\ TablesMade'
  BY <1>1, <1>2, <1>3 DEF VectorInv, VectorsListed, TablesMade
<1>5. QED BY <1>4, VectorsGrow

LEMMA UpdateBegun ==
  ASSUME NEW owner, TypeOK, ScanInv(owner), VectorInv, NEW r \in Runs, Alone(r), BeginUpdate(r)
  PROVE  VectorInv'
<1>1. /\ UNCHANGED <<vars, cut, cache, vectors, made, packed, fresh, gone, written>>
      /\ pc[r] = "update" /\ phase[r] = "none" /\ phase'[r] = "compute" /\ written[r] = {}
      /\ \A q \in Runs \ {r} : UNCHANGED phase[q]
      /\ VectorDomains'
  BY DEF BeginUpdate, At, Settled, GoTo, vectorTables, VectorInv, VectorDomains
<1>2. RunVectors(r)
  BY DEF VectorInv
<1>3. VectorMemory(r)'
  BY <1>1, <1>2 DEF RunVectors, VectorMemory, vars
<1>4. FreshWritten(r)' /\ WrittenShown(r)'
  BY <1>1 DEF FreshWritten, WrittenShown
<1>5. TableCleared(r)'
  BY <1>1, <1>2 DEF RunVectors, VectorMemory, TableCleared
<1>6. RunVectors(r)'
  BY <1>1, <1>3, <1>4, <1>5, VectorsSame DEF RunVectors
<1>7. QED BY <1>1, <1>6, OtherVectorsRest, VectorsSame DEF VectorInv, vars

LEMMA ChunksCollected ==
  ASSUME NEW owner, TypeOK, ScanInv(owner), TextsOwned(owner), VectorInv,
         NEW r \in Runs, Alone(r), NEW o \in batch[r], CollectChunks(r, o)
  PROVE  VectorInv'
<1>1. /\ UNCHANGED <<vars, cut, cache, vectors, made, phase, fresh, gone, written>>
      /\ o.kind = "compute" /\ phase[r] = "compute"
      /\ packed'[r] = packed[r] \cup {[op |-> o, text |-> Text(o.path)]}
      /\ \A q \in Runs \ {r} : UNCHANGED packed[q]
      /\ VectorDomains'
  BY DEF CollectChunks, At, vectorTables, VectorInv, VectorDomains
<1>2. RunVectors(r)
  BY DEF VectorInv
<1>3. o.key = Text(o.path)
  BY <1>1, OpOwned DEF Writes
<1>4. VectorMemory(r)'
  BY <1>1, <1>2, <1>3 DEF RunVectors, VectorMemory, vars
<1>5. FreshWritten(r)'
  BY <1>1 DEF FreshWritten
<1>6. WrittenShown(r)' /\ TableCleared(r)'
  BY <1>1, <1>2 DEF RunVectors, WrittenShown, TableCleared, AllParts, Found, vars
<1>7. RunVectors(r)'
  BY <1>1, <1>4, <1>5, <1>6, VectorsSame DEF RunVectors
<1>8. QED BY <1>1, <1>7, OtherVectorsRest, VectorsSame DEF VectorInv, vars

(* The rows of a file get the least copy number that is free.              *)
LEMMA NewRowsShape ==
  ASSUME NEW q, \E n \in 1 .. MaxCopies : \A x \in RowsFor(q, n) : ~InUse(x), q.text = q.op.key
  PROVE  /\ \A v \in NewRows(q) : ~InUse(v) /\ SameFile(v, q.op)
         /\ AllParts(NewRows(q), q.op)
<1> DEFINE free == {n \in 1 .. MaxCopies : \A x \in RowsFor(q, n) : ~InUse(x)}
           m == CHOOSE n \in free : \A l \in free : n <= l
<1>1. \E n \in free : \A l \in free : n <= l
  <2>1. free \subseteq Nat /\ free # {}
    OBVIOUS
  <2> HIDE DEF free
  <2>2. QED BY <2>1, LeastNumber
<1>2. m \in free
  <2> HIDE DEF free
  <2>1. QED BY <1>1
<1>3. NewRows(q) = RowsFor(q, m)
  BY DEF NewRows
<1>4. \A x \in RowsFor(q, m) : ~InUse(x)
  BY <1>2
<1> HIDE DEF m
<1>5. \A v \in RowsFor(q, m) : SameFile(v, q.op)
  BY DEF RowsFor, SameFile
<1>6. ASSUME NEW n \in 1 .. Parts[q.op.key] PROVE \E v \in RowsFor(q, m) : SameFile(v, q.op) /\ v.idx = n
  <2> DEFINE v == [path |-> q.op.path, key |-> q.op.key, text |-> q.text, idx |-> n, copy |-> m]
  <2>1. v \in RowsFor(q, m) /\ v.idx = n
    BY DEF RowsFor
  <2>2. QED BY <1>5, <2>1
<1>7. QED BY <1>3, <1>4, <1>5, <1>6 DEF AllParts

LEMMA VectorsInserted ==
  ASSUME NEW owner, TypeOK, ScanInv(owner), VectorInv, NEW r \in Runs, Alone(r), InsertRows(r)
  PROVE  VectorInv'
<1> DEFINE new == UNION {NewRows(q) : q \in packed[r]}
<1>1. /\ UNCHANGED <<vars, cut, vectors, made, gone, written>>
      /\ pc[r] = "update" /\ phase[r] = "compute" /\ written[r] = {}
      /\ {q.op : q \in packed[r]} = OfKind(batch[r], "compute")
      /\ cache' = cache \cup new /\ fresh'[r] = new /\ packed'[r] = {} /\ phase'[r] = "insert"
      /\ \A q \in Runs \ {r} : UNCHANGED <<phase[q], packed[q], fresh[q]>>
      /\ VectorDomains'
  BY DEF InsertRows, At, Settled, GoTo, VectorInv, VectorDomains
<1>2. RunVectors(r)
  BY DEF VectorInv
<1>3. ASSUME NEW q \in packed[r]
      PROVE  /\ q.op \in batch[r] /\ q.op.kind = "compute"
             /\ \A v \in NewRows(q) : ~InUse(v) /\ SameFile(v, q.op)
             /\ AllParts(NewRows(q), q.op)
  <2>1. \E n \in 1 .. MaxCopies : \A x \in RowsFor(q, n) : ~InUse(x)
    BY DEF InsertRows
  <2>2. q.op \in batch[r] /\ q.op.kind = "compute" /\ q.text = q.op.key
    BY <1>2 DEF RunVectors, VectorMemory
  <2>3. QED BY <2>1, <2>2, NewRowsShape
<1>4. RowsHaveVectors' /\ VectorSources(r)'
  BY <1>1, VectorsGrow
<1>5. \A b \in Branches : Found(b)' = Found(b)
  BY <1>1, <1>3 DEF Found, InUse
<1>6. VectorsListed'
  <2> SUFFICES ASSUME NEW b \in Branches, NEW v \in Found(b)
               PROVE  ItemOf(v) \in cut \/ Worked(v, b, Kinds) \/ Listed(v, b)
    BY <1>1, <1>5 DEF VectorsListed, Worked, Listed, vars
  <2>1. QED BY DEF VectorInv, VectorsListed
<1>7. VectorMemory(r)'
  BY <1>1, <1>2 DEF RunVectors, VectorMemory, vars
<1>8. FreshWritten(r)'
  <2>1. ASSUME NEW o \in batch[r], o.kind = "compute" PROVE AllParts(new, o)
    <3>1. PICK q \in packed[r] : q.op = o
      BY <1>1, <2>1 DEF OfKind
    <3>2. AllParts(NewRows(q), o) /\ NewRows(q) \subseteq new
      BY <1>3, <3>1
    <3>3. QED BY <3>2 DEF AllParts
  <2>2. ASSUME NEW v \in new
        PROVE  v \in cache' /\ \E o \in batch[r] : o.kind = "compute" /\ SameFile(v, o)
    BY <1>1, <1>3
  <2> HIDE DEF new
  <2>3. QED BY <1>1, <2>1, <2>2 DEF FreshWritten, AllParts, vars
<1>9. WrittenShown(r)' /\ TableCleared(r)'
  BY <1>1, <1>2 DEF WrittenShown, TableCleared, RunVectors, VectorMemory
<1>10. RunVectors(r)'
  BY <1>4, <1>7, <1>8, <1>9 DEF RunVectors
<1>11. TablesMade'
  BY <1>1 DEF VectorInv, TablesMade
<1>12. \A q \in Runs \ {r} : RunVectors(q)'
  BY <1>1, OtherVectorsRest DEF vars
<1>13. QED BY <1>1, <1>4, <1>6, <1>10, <1>11, <1>12 DEF VectorInv

(* Rows put into the table are in the cache and about files of the batch.  *)
LEMMA VectorsAdded ==
  ASSUME NEW owner, TypeOK, ScanInv(owner), VectorInv, NEW r \in Runs, Alone(r),
         UNCHANGED <<vars, cut, cache>>,
         NEW rows, AddToTable(r, rows),
         \A v \in rows : v \in cache /\ \E o \in batch[r] : SameFile(v, o),
         gone[r] = {},
         \A q \in Runs \ {r} : UNCHANGED <<phase[q], packed[q], fresh[q], gone[q], written[q]>>,
         VectorMemory(r)', FreshWritten(r)', WrittenShown(r)', TableCleared(r)', VectorDomains'
  PROVE  VectorInv'
<1>1. /\ vectors'[tag[r]] = vectors[tag[r]] \cup rows
      /\ \A b \in Branches \ {tag[r]} : vectors'[b] = vectors[b]
      /\ made' = IF rows = {} THEN made ELSE made \cup {tag[r]}
      /\ tag[r] \in Branches
  BY DEF AddToTable, VectorInv, VectorDomains, TypeOK
<1>2. \A b \in Branches : vectors[b] \subseteq vectors'[b]
  BY <1>1
<1>3. RowsHaveVectors' /\ VectorSources(r)'
  BY <1>2, VectorsGrow
<1>4. VectorsListed'
  <2> SUFFICES ASSUME NEW b \in Branches, NEW v \in cache, v \in vectors'[b]
               PROVE  ItemOf(v) \in cut \/ Worked(v, b, Kinds) \/ Listed(v, b)
    BY DEF VectorsListed, Found, Worked, Listed, vars
  <2>1. CASE v \in vectors[b]
    BY <2>1 DEF VectorInv, VectorsListed, Found
  <2>2. CASE v \in rows /\ b = tag[r]
    <3>1. PICK o \in batch[r] : SameFile(v, o)
      BY <2>2
    <3>2. o.kind \in Kinds /\ SameEntry(v, o)
      BY <3>1 DEF TypeOK, Op, SameFile, SameEntry
    <3>3. QED BY <2>2, <3>2 DEF Worked
  <2>3. QED BY <1>1, <2>1, <2>2
<1>5. TablesMade'
  BY <1>1 DEF VectorInv, TablesMade
<1>6. RunVectors(r)'
  BY <1>3 DEF RunVectors
<1>7. \A q \in Runs \ {r} : RunVectors(q)'
  BY OtherVectorsRest DEF vars
<1>8. QED BY <1>3, <1>4, <1>5, <1>6, <1>7 DEF VectorInv

LEMMA ComputedAdded ==
  ASSUME NEW owner, TypeOK, ScanInv(owner), VectorInv, NEW r \in Runs, Alone(r), AddComputed(r)
  PROVE  VectorInv'
<1>1. /\ UNCHANGED <<vars, cut, cache, packed, gone>>
      /\ pc[r] = "update" /\ phase[r] = "insert"
      /\ AddToTable(r, fresh[r])
      /\ fresh'[r] = {} /\ phase'[r] = "tags" /\ written'[r] = OfKind(batch[r], "compute")
      /\ \A q \in Runs \ {r} : UNCHANGED <<phase[q], packed[q], fresh[q], gone[q], written[q]>>
      /\ VectorDomains'
  BY DEF AddComputed, AddToTable, At, Settled, GoTo, VectorInv, VectorDomains
<1>2. RunVectors(r) /\ tag[r] \in Branches
  BY DEF VectorInv, TypeOK
<1>3. gone[r] = {} /\ packed[r] = {}
  BY <1>1, <1>2 DEF RunVectors, VectorMemory
<1>4. /\ \A o \in batch[r] : o.kind = "compute" => AllParts(fresh[r], o)
      /\ \A v \in fresh[r] : v \in cache /\ \E o \in batch[r] : SameFile(v, o)
  BY <1>1, <1>2 DEF RunVectors, FreshWritten
<1>5. VectorMemory(r)'
  BY <1>1, <1>3 DEF VectorMemory, OfKind, vars
<1>6. FreshWritten(r)'
  BY <1>1 DEF FreshWritten
<1>7. WrittenShown(r)'
  <2>1. \A v \in fresh[r] : v \in Found(tag[r])'
    BY <1>1, <1>2, <1>4 DEF AddToTable, Found, VectorInv, VectorDomains, vars
  <2>2. \A o \in written'[r] : AllParts(Found(tag[r]), o)'
    BY <1>1, <1>4, <2>1 DEF OfKind, AllParts
  <2>3. QED BY <2>2 DEF WrittenShown
<1>8. TableCleared(r)'
  BY <1>1, <1>3 DEF TableCleared, OfKind, Writes
<1>9. QED BY <1>1, <1>3, <1>4, <1>5, <1>6, <1>7, <1>8, VectorsAdded

LEMMA TaggedAdded ==
  ASSUME NEW owner, TypeOK, ScanInv(owner), VectorInv, NEW r \in Runs, Alone(r),
         NEW o \in batch[r], AddTagRows(r, o)
  PROVE  VectorInv'
<1> DEFINE rows == {x \in cache : SameFile(x, o)}
<1>1. /\ UNCHANGED <<vars, cut, cache, phase, packed, fresh, gone>>
      /\ pc[r] = "update" /\ phase[r] = "tags" /\ o.kind = "addTag"
      /\ AddToTable(r, rows) /\ written'[r] = {o} /\ written[r] = {}
      /\ \A q \in Runs \ {r} : UNCHANGED <<phase[q], packed[q], fresh[q], gone[q], written[q]>>
      /\ VectorDomains'
  BY DEF AddTagRows, AddToTable, At, Settled, VectorInv, VectorDomains
<1>2. RunVectors(r) /\ tag[r] \in Branches
  BY DEF VectorInv, TypeOK
<1>3. gone[r] = {}
  BY <1>1, <1>2 DEF RunVectors, VectorMemory, Writes
<1>4. \A v \in rows : v \in cache /\ \E p \in batch[r] : SameFile(v, p)
  OBVIOUS
<1>5. VectorMemory(r)'
  BY <1>1, <1>2, <1>3 DEF RunVectors, VectorMemory, vars
<1>6. FreshWritten(r)'
  BY <1>1 DEF FreshWritten
<1>7. WrittenShown(r)'
  <2>1. \A v \in rows : v \in Found(tag[r])'
    BY <1>1, <1>2 DEF AddToTable, Found, VectorInv, VectorDomains, vars
  <2>2. ItemOf(o) \in cut \/ AllParts(cache, o)
    BY <1>1, <1>2 DEF RunVectors, VectorSources
  <2>3. AllParts(cache, o) => AllParts(Found(tag[r]), o)'
    BY <2>1 DEF AllParts
  <2>4. QED BY <1>1, <2>2, <2>3 DEF WrittenShown
<1>8. TableCleared(r)'
  BY <1>1, <1>3 DEF TableCleared, Writes
<1> HIDE DEF rows
<1>9. QED BY <1>1, <1>3, <1>4, <1>5, <1>6, <1>7, <1>8, VectorsAdded

(* Rows taken away are those of a version that is being removed.           *)
LEMMA VectorsFewer ==
  ASSUME NEW owner, TypeOK, ScanInv(owner), VectorInv, NEW r \in Runs, Alone(r),
         UNCHANGED <<vars, cut>>,
         \A b \in Branches : \A v \in Found(b)' : v \in Found(b),
         \A b \in Branches : \A x \in catalog[b] :
           \/ ItemOf(x) \in cut \/ Worked(x, b, Removes)
           \/ \A v \in Found(b) : SameFile(v, x) => v \in Found(b)',
         VectorMemory(r)', VectorSources(r)', FreshWritten(r)',
         \A o \in written'[r] : o.kind \notin Writes,
         TableCleared(r)', TablesMade', VectorDomains',
         \A q \in Runs \ {r} : UNCHANGED <<phase[q], packed[q], fresh[q], gone[q], written[q]>>
  PROVE  VectorInv'
<1>1. RowsHaveVectors'
  <2> SUFFICES ASSUME NEW b \in Branches, NEW x \in catalog[b], ItemOf(x) \notin cut,
                      ~Worked(x, b, Removes)
               PROVE  AllParts(Found(b), x)'
    BY DEF RowsHaveVectors, Worked, vars
  <2>1. AllParts(Found(b), x)
    BY DEF VectorInv, RowsHaveVectors
  <2>2. QED BY <2>1 DEF AllParts
<1>2. VectorsListed'
  <2> SUFFICES ASSUME NEW b \in Branches, NEW v \in Found(b)
               PROVE  ItemOf(v) \in cut \/ Worked(v, b, Kinds) \/ Listed(v, b)
    BY DEF VectorsListed, Worked, Listed, vars
  <2>1. QED BY DEF VectorInv, VectorsListed
<1>3. RunVectors(r)'
  BY DEF RunVectors, WrittenShown
<1>4. \A q \in Runs \ {r} : RunVectors(q)'
  BY OtherVectorsRest DEF vars
<1>5. QED BY <1>1, <1>2, <1>3, <1>4 DEF VectorInv

(* At this point of update a batch has removals only.                      *)
LEMMA OnlyRemovals ==
  ASSUME TypeOK, NEW r \in Runs, VectorMemory(r), phase[r] = "tags", written[r] = {},
         OfKind(batch[r], "addTag") = {}
  PROVE  /\ \A o \in batch[r] : o.kind \notin Writes /\ o \in Removals(r)
         /\ \A o \in Removals(r) : o \in batch[r] /\ o.kind \in Removes
<1>1. \A o \in batch[r] : o.kind \in Kinds
  BY DEF TypeOK, Op
<1>2. QED BY <1>1 DEF VectorMemory, OfKind, Removals, Removes, Writes, Kinds

LEMMA TakenFromTable ==
  ASSUME NEW owner, TypeOK, ScanInv(owner), VectorInv, NEW r \in Runs, Alone(r),
         NEW o, DeleteFromTable(r, o)
  PROVE  VectorInv'
<1>1. /\ UNCHANGED <<vars, cut, cache, made, phase, packed, fresh, written>>
      /\ pc[r] = "update" /\ phase[r] = "tags" /\ written[r] = {}
      /\ OfKind(batch[r], "addTag") = {} /\ tag[r] \in made
      /\ o \in Removals(r) /\ gone'[r] = gone[r] \cup {o}
      /\ \A q \in Runs \ {r} : UNCHANGED gone[q]
      /\ vectors' = [vectors EXCEPT ![tag[r]] = {x \in @ : ~SameFile(x, o)}]
      /\ VectorDomains'
  BY DEF DeleteFromTable, TagsAdded, Deletes, At, Settled, VectorInv, VectorDomains
<1>2. RunVectors(r) /\ tag[r] \in Branches
  BY DEF VectorInv, TypeOK
<1>3. /\ vectors'[tag[r]] = {x \in vectors[tag[r]] : ~SameFile(x, o)}
      /\ \A b \in Branches \ {tag[r]} : vectors'[b] = vectors[b]
  BY <1>1, <1>2 DEF VectorInv, VectorDomains
<1>4. /\ \A p \in batch[r] : p.kind \notin Writes
      /\ o \in batch[r] /\ o.kind \in Removes
  BY <1>1, <1>2, OnlyRemovals DEF RunVectors
<1>5. \A b \in Branches : \A v \in Found(b)' : v \in Found(b)
  BY <1>1, <1>3 DEF Found
<1>6. ASSUME NEW b \in Branches, NEW x \in catalog[b]
      PROVE  \/ Worked(x, b, Removes)
             \/ \A v \in Found(b) : SameFile(v, x) => v \in Found(b)'
  <2>1. CASE b = tag[r] /\ SameEntry(x, o)
    BY <1>4, <2>1 DEF Worked
  <2>2. CASE ~(b = tag[r] /\ SameEntry(x, o))
    BY <1>1, <1>3, <2>2 DEF Found, SameFile, SameEntry
  <2>3. QED BY <2>1, <2>2
<1>7. VectorMemory(r)'
  BY <1>1, <1>2, <1>4 DEF RunVectors, VectorMemory, vars
<1>8. VectorSources(r)' /\ FreshWritten(r)'
  BY <1>1, <1>2 DEF RunVectors, VectorSources, FreshWritten, AllParts, vars
<1>9. TableCleared(r)'
  BY <1>1, <1>2, <1>3 DEF RunVectors, TableCleared, vars
<1>10. TablesMade'
  BY <1>1, <1>3 DEF VectorInv, TablesMade
<1>11. QED BY <1>1, <1>5, <1>6, <1>7, <1>8, <1>9, <1>10, VectorsFewer

(* Steps that change neither table nor cache.                              *)
LEMMA RemovalsPassed ==
  ASSUME NEW owner, TypeOK, ScanInv(owner), VectorInv, NEW r \in Runs, Alone(r),
         NoTable(r) \/ MarkRemoved(r) \/ MarkDeleted(r)
  PROVE  VectorInv'
<1>1. /\ UNCHANGED <<vars, cut, cache, vectors, made, packed, fresh>>
      /\ pc[r] = "update" /\ written[r] = {}
      /\ \A q \in Runs \ {r} : UNCHANGED <<phase[q], gone[q], written[q]>>
      /\ VectorDomains'
  BY DEF NoTable, MarkRemoved, MarkDeleted, TagsAdded, At, Settled, GoTo, vectorTables, VectorInv,
         VectorDomains
<1>2. RunVectors(r) /\ tag[r] \in Branches
  BY DEF VectorInv, TypeOK
<1>3. TablesMade' /\ VectorSources(r)' /\ \A b : Found(b)' = Found(b)
  BY <1>1, VectorsSame DEF Found
<1>4. CASE NoTable(r)
  <2>1. /\ phase[r] = "tags" /\ phase'[r] = "tags" /\ OfKind(batch[r], "addTag") = {}
        /\ tag[r] \notin made /\ gone'[r] = Removals(r) /\ written'[r] = {}
    BY <1>1, <1>4 DEF NoTable, TagsAdded, At, VectorInv, VectorDomains
  <2>2. /\ \A o \in batch[r] : o.kind \notin Writes /\ o \in Removals(r)
        /\ \A o \in Removals(r) : o \in batch[r] /\ o.kind \in Removes
    BY <1>1, <1>2, <2>1, OnlyRemovals DEF RunVectors
  <2>3. vectors[tag[r]] = {}
    BY <1>2, <2>1 DEF VectorInv, TablesMade
  <2>4. VectorMemory(r)'
    BY <1>1, <1>2, <2>1, <2>2 DEF RunVectors, VectorMemory, vars
  <2>5. FreshWritten(r)' /\ TableCleared(r)'
    BY <1>1, <2>1, <2>3 DEF FreshWritten, TableCleared, vars
  <2>6. QED BY <1>1, <1>3, <2>1, <2>4, <2>5, VectorsFewer
<1>5. CASE MarkRemoved(r)
  <2>1. /\ phase[r] = "tags" /\ phase'[r] = "del" /\ OfKind(batch[r], "addTag") = {}
        /\ gone[r] = Removals(r) /\ gone'[r] = OfKind(gone[r], "del")
        /\ written'[r] = OfKind(batch[r], "removeTag")
    BY <1>1, <1>5 DEF MarkRemoved, TagsAdded, At, GoTo, VectorInv, VectorDomains
  <2>2. /\ \A o \in batch[r] : o.kind \notin Writes /\ o \in Removals(r)
        /\ \A o \in Removals(r) : o \in batch[r] /\ o.kind \in Removes
    BY <1>1, <1>2, <2>1, OnlyRemovals DEF RunVectors
  <2>3. VectorMemory(r)'
    BY <1>1, <1>2, <2>1, <2>2 DEF RunVectors, VectorMemory, OfKind, Writes, vars
  <2>4. TableCleared(r)'
    BY <1>1, <1>2, <2>1, <2>2 DEF RunVectors, TableCleared, vars
  <2>5. FreshWritten(r)' /\ \A o \in written'[r] : o.kind \notin Writes
    BY <2>1 DEF FreshWritten, OfKind, Writes
  <2>6. QED BY <1>1, <1>3, <2>3, <2>4, <2>5, VectorsFewer
<1>6. CASE MarkDeleted(r)
  <2>1. /\ phase[r] = "del" /\ phase'[r] = "none" /\ gone[r] = {} /\ UNCHANGED gone
        /\ written'[r] = OfKind(batch[r], "del")
    BY <1>1, <1>6 DEF MarkDeleted, At, GoTo, VectorInv, VectorDomains
  <2>2. VectorMemory(r)'
    BY <1>1, <1>2, <2>1 DEF RunVectors, VectorMemory, OfKind, vars
  <2>3. TableCleared(r)'
    BY <1>1, <1>2, <2>1 DEF RunVectors, TableCleared, OfKind, vars
  <2>4. FreshWritten(r)' /\ \A o \in written'[r] : o.kind \notin Writes
    BY <2>1 DEF FreshWritten, OfKind, Writes
  <2>5. QED BY <1>1, <1>3, <2>2, <2>3, <2>4, VectorsFewer
<1>7. QED BY <1>4, <1>5, <1>6

(* Only versions that no other branch lists are deleted from the cache.    *)
LEMMA TakenFromCache ==
  ASSUME NEW owner, TypeOK, ScanInv(owner), MarkInv, TextsOwned(owner), VectorInv,
         NEW r \in Runs, Alone(r), NEW o, DeleteFromCache(r, o)
  PROVE  VectorInv'
<1>1. /\ UNCHANGED <<vars, cut, vectors, made, phase, packed, fresh, written>>
      /\ pc[r] = "update" /\ phase[r] = "del" /\ written[r] = {}
      /\ o \in gone[r] /\ gone'[r] = gone[r] \ {o}
      /\ \A q \in Runs \ {r} : UNCHANGED gone[q]
      /\ cache' = {x \in cache : ~SameFile(x, o)}
      /\ VectorDomains'
  BY DEF DeleteFromCache, At, Settled, VectorInv, VectorDomains
<1>2. RunVectors(r) /\ RunMarks(r) /\ RunScanned(owner, r) /\ tag[r] \in Branches
  BY DEF VectorInv, MarkInv, ScanInv, TypeOK
<1>3. /\ o \in batch[r] /\ o.kind = "del"
      /\ \A p \in batch[r] : p.kind \notin Writes
  BY <1>1, <1>2 DEF RunVectors, VectorMemory
<1>4. Owns(owner, o)
  BY <1>3, OpOwned
<1>5. \A b \in Branches : \A v \in Found(b)' : v \in Found(b)
  BY <1>1 DEF Found
<1>6. ASSUME NEW b \in Branches, NEW x \in catalog[b]
      PROVE  \/ ItemOf(x) \in cut \/ Worked(x, b, Removes)
             \/ \A v \in Found(b) : SameFile(v, x) => v \in Found(b)'
  <2>1. CASE x.key # o.key
    BY <1>1, <2>1 DEF Found, SameFile
  <2>2. CASE x.key = o.key /\ b # tag[r]
    BY <1>2, <1>3, <2>2 DEF RunMarks, DelsAlone
  <2>3. CASE x.key = o.key /\ b = tag[r]
    <3>1. Owns(owner, x)
      BY DEF ScanInv, RowsOwned
    <3>2. SameEntry(x, o)
      BY <1>4, <2>3, <3>1 DEF Owns, SameEntry
    <3>3. QED BY <1>3, <2>3, <3>2 DEF Worked, Removes
  <2>4. QED BY <2>1, <2>2, <2>3
<1>7. VectorMemory(r)'
  BY <1>1, <1>2 DEF RunVectors, VectorMemory, vars
<1>8. VectorSources(r)'
  <2> SUFFICES ASSUME NEW q \in todo[r] \cup batch[r], q.kind = "addTag", ItemOf(q) \notin cut
               PROVE  AllParts(cache', q)
    BY <1>1 DEF VectorSources, AllParts, vars
  <2>1. AllParts(cache, q) /\ q \in todo[r]
    BY <1>2, <1>3 DEF RunVectors, VectorSources, Writes
  <2>2. q.key # o.key
    <3> SUFFICES ASSUME q.key = o.key PROVE FALSE
      OBVIOUS
    <3>1. Owns(owner, q)
      BY OpOwned
    <3>2. ItemOf(q) = ItemOf(o)
      BY <1>4, <3>1 DEF Owns, ItemOf
    <3>3. ItemOf(o) \in remove[r]
      BY <1>2, <1>3 DEF RunScanned, OpsPlanned, Writes
    <3>4. QED BY <1>2, <1>3, <2>1, <3>2, <3>3 DEF RunMarks, AddsFirst
  <2>3. QED BY <1>1, <2>1, <2>2 DEF AllParts, SameFile
<1>9. FreshWritten(r)' /\ TableCleared(r)'
  BY <1>1, <1>2 DEF FreshWritten, RunVectors, TableCleared, vars
<1>10. TablesMade' /\ \A p \in written'[r] : p.kind \notin Writes
  BY <1>1 DEF VectorInv, TablesMade
<1>11. QED BY <1>1, <1>5, <1>6, <1>7, <1>8, <1>9, <1>10, VectorsFewer

(* markComplete follows what was done to the rows.                         *)
LEMMA VectorsMarked ==
  ASSUME NEW owner, TypeOK, ScanInv(owner), TextsOwned(owner), VectorInv,
         NEW r \in Runs, Alone(r), NEW o, MarkVectors(r, o)
  PROVE  VectorInv'
<1>1. /\ UNCHANGED <<cut, cache, vectors, made, phase, packed, fresh, gone, tag, todo, pc>>
      /\ MarkCatalog(r, o) /\ o \in written[r] /\ o \in batch[r]
      /\ written'[r] = written[r] \ {o} /\ batch'[r] = batch[r] \ {o}
      /\ \A q \in Runs \ {r} : UNCHANGED <<written[q], batch[q], marked[q]>>
      /\ VectorDomains'
  BY DEF MarkVectors, MarkCatalog, vectorTables, VectorInv, VectorDomains, TypeOK
<1>2. RunVectors(r) /\ tag[r] \in Branches /\ o.kind \in Kinds
  BY <1>1 DEF VectorInv, TypeOK, Op
<1>3. /\ packed[r] = {} /\ fresh[r] = {} /\ phase[r] \notin {"compute", "insert"} /\ o \notin gone[r]
  BY <1>1, <1>2 DEF RunVectors, VectorMemory
<1>4. /\ \A c \in Branches \ {tag[r]} : catalog'[c] = catalog[c]
      /\ \A x : Listed(x, tag[r])' <=> \/ Listed(x, tag[r]) /\ ~SameEntry(x, o)
                                       \/ o.kind \in Writes /\ SameEntry(x, o)
  BY <1>1, ScanMark
<1>5. \A b : Found(b)' = Found(b)
  BY <1>1 DEF Found
<1>6. ASSUME NEW b \in Branches, NEW y \in catalog[b], NEW x, SameEntry(y, x),
             b # tag[r] \/ ~SameEntry(x, o)
      PROVE  ItemOf(x) \in cut \/ Worked(x, b, Removes)' \/ AllParts(Found(b), x)
  <2>1. CASE AllParts(Found(b), y)
    BY <1>6, <2>1, SameParts
  <2>2. CASE Worked(y, b, Removes)
    <3>1. PICK q \in Runs : tag[q] = b /\ \E p \in batch[q] : p.kind \in Removes /\ SameEntry(y, p)
      BY <2>2 DEF Worked
    <3>2. PICK p \in batch[q] : p.kind \in Removes /\ SameEntry(y, p)
      BY <3>1
    <3>3. SameEntry(x, p)
      BY <1>6, <3>2 DEF SameEntry
    <3>4. p \in batch'[q] /\ tag'[q] = b
      BY <1>1, <1>6, <3>1, <3>2, <3>3
    <3>5. QED BY <3>2, <3>3, <3>4 DEF Worked
  <2>3. CASE ItemOf(y) \in cut
    BY <1>6, <2>3, SameItem
  <2>4. QED BY <2>1, <2>2, <2>3 DEF VectorInv, RowsHaveVectors
<1>7. RowsHaveVectors'
  <2> SUFFICES ASSUME NEW b \in Branches, NEW x \in catalog'[b]
               PROVE  ItemOf(x) \in cut \/ Worked(x, b, Removes)' \/ AllParts(Found(b), x)'
    BY <1>1 DEF RowsHaveVectors
  <2>1. SameEntry(x, x)
    BY DEF SameEntry
  <2>2. CASE b # tag[r]
    <3>1. x \in catalog[b]
      BY <1>4, <2>2
    <3>2. ItemOf(x) \in cut \/ Worked(x, b, Removes)' \/ AllParts(Found(b), x)
      BY <1>6, <2>1, <2>2, <3>1
    <3>3. QED BY <1>5, <3>2 DEF AllParts
  <2>3. CASE b = tag[r]
    <3>1. Listed(x, b)'
      BY <2>1 DEF Listed
    <3>2. CASE Listed(x, b) /\ ~SameEntry(x, o)
      <4>1. ItemOf(x) \in cut \/ Worked(x, b, Removes)' \/ AllParts(Found(b), x)
        BY <1>6, <3>2 DEF Listed
      <4>2. QED BY <1>5, <4>1 DEF AllParts
    <3>3. CASE o.kind \in Writes /\ SameEntry(x, o)
      <4>1. ItemOf(o) \in cut \/ AllParts(Found(b), o)
        BY <1>1, <1>2, <2>3, <3>3 DEF RunVectors, WrittenShown
      <4>2. ItemOf(x) = ItemOf(o) /\ SameEntry(o, x)
        BY <3>3, SameItem DEF SameEntry
      <4>3. ItemOf(x) \in cut \/ AllParts(Found(b), x)
        BY <4>1, <4>2, SameParts
      <4>4. QED BY <1>5, <4>3 DEF AllParts
    <3>4. QED BY <1>1, <1>4, <2>3, <3>1, <3>2, <3>3
  <2>4. QED BY <2>2, <2>3
<1>8. ASSUME NEW v \in Found(tag[r]), SameEntry(v, o) PROVE o.kind \in Writes
  BY <1>1, <1>2, <1>8 DEF RunVectors, TableCleared, Found, SameEntry, SameFile
<1>9. VectorsListed'
  <2> SUFFICES ASSUME NEW b \in Branches, NEW v \in Found(b)
               PROVE  ItemOf(v) \in cut \/ Worked(v, b, Kinds)' \/ Listed(v, b)'
    BY <1>1, <1>5 DEF VectorsListed
  <2>1. CASE Listed(v, b)
    <3>1. CASE b # tag[r]
      BY <1>4, <2>1, <3>1 DEF Listed
    <3>2. CASE b = tag[r]
      BY <1>1, <1>4, <1>8, <2>1, <3>2
    <3>3. QED BY <3>1, <3>2
  <2>2. CASE Worked(v, b, Kinds)
    <3>1. PICK q \in Runs : tag[q] = b /\ \E p \in batch[q] : p.kind \in Kinds /\ SameEntry(v, p)
      BY <2>2 DEF Worked
    <3>2. PICK p \in batch[q] : p.kind \in Kinds /\ SameEntry(v, p)
      BY <3>1
    <3>3. CASE q = r /\ p = o
      BY <1>1, <1>4, <1>8, <3>1, <3>2, <3>3
    <3>4. CASE ~(q = r /\ p = o)
      <4>1. p \in batch'[q] /\ tag'[q] = b
        BY <1>1, <3>1, <3>2, <3>4
      <4>2. QED BY <3>2, <4>1 DEF Worked
    <3>5. QED BY <3>3, <3>4
  <2>3. QED BY <2>1, <2>2 DEF VectorInv, VectorsListed
<1>10. VectorMemory(r)'
  BY <1>1, <1>2, <1>3 DEF RunVectors, VectorMemory
<1>11. FreshWritten(r)' /\ VectorSources(r)'
  BY <1>1, <1>2, <1>3 DEF RunVectors, FreshWritten, VectorSources, AllParts
<1>12. WrittenShown(r)' /\ TableCleared(r)'
  BY <1>1, <1>2, <1>5 DEF RunVectors, WrittenShown, TableCleared, AllParts
<1>13. RunVectors(r)'
  BY <1>10, <1>11, <1>12 DEF RunVectors
<1>14. \A q \in Runs \ {r} : RunVectors(q)'
  BY <1>1, OtherVectorsRest
<1>15. TablesMade'
  BY <1>1 DEF VectorInv, TablesMade
<1>16. QED BY <1>1, <1>7, <1>9, <1>13, <1>14, <1>15 DEF VectorInv

LEMMA VectorsRest ==
  ASSUME VectorInv, UNCHANGED <<catalog, tag, todo, batch, pc, vectorVars>>
  PROVE  VectorInv'
<1>1. UNCHANGED <<cache, vectors, made, phase, packed, fresh, gone, written, cut>>
  BY DEF vectorVars, vectorTables, vectorMemory
<1>2. \A b : Found(b)' = Found(b)
  BY <1>1 DEF Found
<1>3. RowsHaveVectors' /\ VectorsListed' /\ TablesMade' /\ VectorDomains'
  BY <1>1, <1>2 DEF VectorInv, RowsHaveVectors, VectorsListed, TablesMade, VectorDomains, Worked, Listed,
                    AllParts
<1>4. ASSUME NEW q \in Runs PROVE RunVectors(q)'
  <2>1. RunVectors(q)
    BY DEF VectorInv
  <2>2. VectorMemory(q)' /\ FreshWritten(q)' /\ VectorSources(q)'
    BY <1>1, <2>1 DEF RunVectors, VectorMemory, FreshWritten, VectorSources, AllParts
  <2>3. WrittenShown(q)' /\ TableCleared(q)'
    BY <1>1, <1>2, <2>1 DEF RunVectors, WrittenShown, TableCleared, AllParts
  <2>4. QED BY <2>2, <2>3 DEF RunVectors
<1>5. QED BY <1>1, <1>3, <1>4 DEF VectorInv

(* A run that is cut off leaves its tables as they are.                    *)
LEMMA VectorsCutOff ==
  ASSUME NEW owner, TypeOK, ScanInv(owner), MarkInv, TextsOwned(owner), VectorInv,
         NEW r \in Runs, Alone(r), CutOff(r)
  PROVE  ScanInv(owner)' /\ MarkInv' /\ VectorInv'
<1>1. /\ Forget(r) /\ UNCHANGED <<world, tables, cache, vectors, made>>
      /\ cut' = cut \cup {ItemOf(o) : o \in batch[r] \cup marked[r]}
      /\ phase'[r] = "none" /\ packed'[r] = {} /\ fresh'[r] = {} /\ gone'[r] = {} /\ written'[r] = {}
      /\ \A q \in Runs \ {r} : UNCHANGED <<phase[q], packed[q], fresh[q], gone[q], written[q]>>
      /\ VectorDomains'
  BY DEF CutOff, Stop, vectorTables, VectorInv, VectorDomains
<1>2. /\ pc'[r] = "idle" /\ todo'[r] = {} /\ batch'[r] = {}
      /\ \A q \in Runs \ {r} : UNCHANGED <<pc[q], todo[q], batch[q], marked[q], tag[q]>>
  BY <1>1 DEF Forget, TypeOK
<1>3. cut' \subseteq Item /\ \A i \in cut' : Owns(owner, i)
  <2>1. ASSUME NEW o \in batch[r] \cup marked[r] PROVE ItemOf(o) \in Item /\ Owns(owner, ItemOf(o))
    <3>1. Owns(owner, o) /\ o \in Op
      BY OpOwned
    <3>2. QED BY <3>1 DEF Owns, Op, Item, ItemOf
  <2>2. QED BY <1>1, <2>1 DEF VectorInv, ScanInv, RowsOwned
<1>4. ScanInv(owner)' /\ MarkInv'
  BY <1>1, <1>3, ScanForget, MarksCutOff
<1>5. /\ \A q \in Runs \ {r} : RunVectors(q)' /\ batch[q] = {}
      /\ \A x, b, kinds : Worked(x, b, kinds) <=>
              tag[r] = b /\ \E o \in batch[r] : o.kind \in kinds /\ SameEntry(x, o)
  <2>1. \A q \in Runs \ {r} :
          UNCHANGED <<pc[q], todo[q], batch[q], phase[q], packed[q], fresh[q], gone[q], written[q]>>
    BY <1>1, <1>2
  <2>2. QED BY <1>1, <1>2, <2>1, OtherVectorsRest
<1>6. ASSUME NEW x, NEW b, NEW kinds, Worked(x, b, kinds) PROVE ItemOf(x) \in cut'
  BY <1>1, <1>5, <1>6, SameItem
<1>7. \A b : Found(b)' = Found(b)
  BY <1>1 DEF Found
<1>8. RowsHaveVectors'
  BY <1>1, <1>6, <1>7 DEF VectorInv, RowsHaveVectors, AllParts
<1>9. VectorsListed'
  BY <1>1, <1>6, <1>7 DEF VectorInv, VectorsListed, Listed
<1>10. RunVectors(r)'
  BY <1>1, <1>2 DEF RunVectors, VectorMemory, FreshWritten, VectorSources, WrittenShown, TableCleared
<1>11. TablesMade'
  BY <1>1 DEF VectorInv, TablesMade
<1>12. QED BY <1>1, <1>3, <1>4, <1>5, <1>8, <1>9, <1>10, <1>11 DEF VectorInv

VectorsFollow(owner) == TypeOK /\ ScanInv(owner) /\ MarkInv /\ VectorInv

LEMMA VectorStepIsNext ==
  ASSUME [VectorNext]_<<vars, vectorVars>>
  PROVE  [Next]_vars
<1>1. ASSUME NEW r \in Runs, VectorStep(r) PROVE [Next]_vars
  <2>1. CASE PlanStep(r)
    BY <2>1, PlanStepIsNext
  <2>2. CASE VectorUpdate(r)
    <3>1. ASSUME NEW o \in batch[r], MarkCatalog(r, o) PROVE Next
      BY <3>1 DEF Next, Progress
    <3>2. ASSUME NEW o \in marked[r], MarkGlobal(r, o) PROVE Next
      BY <3>2 DEF Next, Progress
    <3>3. ASSUME NEW o, MarkVectors(r, o) PROVE Next
      BY <3>1, <3>3 DEF MarkVectors, MarkCatalog
    <3>4. ASSUME NEW o \in marked[r], CacheMark(r, o) PROVE Next
      BY <3>2, <3>4 DEF CacheMark
    <3>5. ASSUME NEW o, CollectChunks(r, o) \/ AddTagRows(r, o) \/ DeleteFromTable(r, o)
                          \/ DeleteFromCache(r, o)
          PROVE  UNCHANGED vars
      BY <3>5 DEF CollectChunks, AddTagRows, DeleteFromTable, DeleteFromCache
    <3>6. BeginUpdate(r) \/ InsertRows(r) \/ AddComputed(r) \/ NoTable(r) \/ MarkRemoved(r)
            \/ MarkDeleted(r) => UNCHANGED vars
      BY DEF BeginUpdate, InsertRows, AddComputed, NoTable, MarkRemoved, MarkDeleted
    <3>7. QED BY <2>2, <3>3, <3>4, <3>5, <3>6 DEF VectorUpdate
  <2>3. QED BY <1>1, <2>1, <2>2 DEF VectorStep, PlanStep
<1>2. ASSUME NEW r \in Runs, CutOff(r) PROVE Next
  BY <1>2 DEF CutOff, Next, Fail
<1>3. CASE VectorNext
  BY <1>1, <1>2, <1>3 DEF VectorNext, Next
<1>4. CASE UNCHANGED <<vars, vectorVars>>
  BY <1>4
<1>5. QED BY <1>3, <1>4

LEMMA VectorsUpdated ==
  ASSUME NEW owner, TypeOK, ScanInv(owner), MarkInv, TextsOwned(owner), VectorInv,
         NEW r \in Runs, Alone(r), VectorUpdate(r)
  PROVE  ScanInv(owner)' /\ MarkInv' /\ VectorInv'
<1>1. ASSUME UNCHANGED <<vars, cut>> PROVE ScanInv(owner)' /\ MarkInv'
  BY <1>1, PlanRests
<1>2. CASE BeginUpdate(r)
  BY <1>1, <1>2, UpdateBegun DEF BeginUpdate
<1>3. CASE InsertRows(r)
  BY <1>1, <1>3, VectorsInserted DEF InsertRows
<1>4. CASE AddComputed(r)
  BY <1>1, <1>4, ComputedAdded DEF AddComputed
<1>5. CASE NoTable(r) \/ MarkRemoved(r) \/ MarkDeleted(r)
  BY <1>1, <1>5, RemovalsPassed DEF NoTable, MarkRemoved, MarkDeleted
<1>6. ASSUME NEW o \in batch[r] \cup gone[r],
             CollectChunks(r, o) \/ AddTagRows(r, o) \/ DeleteFromTable(r, o) \/ DeleteFromCache(r, o)
      PROVE  ScanInv(owner)' /\ MarkInv' /\ VectorInv'
  <2>1. o \in batch[r]
    BY DEF VectorInv, RunVectors, VectorMemory
  <2>2. CASE CollectChunks(r, o)
    BY <1>1, <2>1, <2>2, ChunksCollected DEF CollectChunks
  <2>3. CASE AddTagRows(r, o)
    BY <1>1, <2>1, <2>3, TaggedAdded DEF AddTagRows
  <2>4. CASE DeleteFromTable(r, o)
    BY <1>1, <2>4, TakenFromTable DEF DeleteFromTable
  <2>5. CASE DeleteFromCache(r, o)
    BY <1>1, <2>5, TakenFromCache DEF DeleteFromCache
  <2>6. QED BY <1>6, <2>2, <2>3, <2>4, <2>5
<1>7. ASSUME NEW o, MarkVectors(r, o) PROVE ScanInv(owner)' /\ MarkInv' /\ VectorInv'
  BY <1>7, VectorsMarked, ScanMark, MarksMark DEF MarkVectors
<1>8. ASSUME NEW o, CacheMark(r, o) PROVE ScanInv(owner)' /\ MarkInv' /\ VectorInv'
  <2>1. UNCHANGED cut /\ UNCHANGED <<catalog, tag, todo, batch, pc, vectorVars>>
    BY <1>8 DEF CacheMark, MarkGlobal, vectorVars
  <2>2. QED BY <1>8, <2>1, VectorsRest, ScanMarkGlobal, MarksGlobal DEF CacheMark
<1>9. QED BY <1>2, <1>3, <1>4, <1>5, <1>6, <1>7, <1>8 DEF VectorUpdate

LEMMA VectorsNext ==
  ASSUME NEW owner, VectorsFollow(owner), TextsOwned(owner), AddsFit,
         [VectorNext]_<<vars, vectorVars>>
  PROVE  VectorsFollow(owner)'
<1>1. TypeOK'
  BY VectorStepIsNext, NextType DEF VectorsFollow
<1>2. CASE World /\ Quiet /\ UNCHANGED vectorVars
  <2>1. UNCHANGED <<catalog, tag, todo, batch, pc>> /\ UNCHANGED cut
    BY <1>2 DEF World, WriteFile, Edit, DeleteFile, Save, Checkout, vectorVars
  <2>2. QED BY <1>1, <1>2, <2>1, WorldStays, VectorsRest DEF VectorsFollow
<1>3. ASSUME NEW r \in Runs, VectorStep(r), Alone(r) PROVE VectorsFollow(owner)'
  <2>1. CASE phase[r] = "none" /\ PlanStep(r) /\ UNCHANGED vectorVars
    <3>1. UNCHANGED cut
      BY <2>1 DEF vectorVars
    <3>2. QED
      BY <1>1, <1>3, <2>1, <3>1, PlanStepScans, PlanStepMarks, VectorsPlanned DEF VectorsFollow
  <2>2. CASE VectorUpdate(r)
    BY <1>1, <1>3, <2>2, VectorsUpdated DEF VectorsFollow
  <2>3. QED BY <1>3, <2>1, <2>2 DEF VectorStep, PlanStep
<1>4. ASSUME NEW r \in Runs, CutOff(r), Alone(r) PROVE VectorsFollow(owner)'
  BY <1>1, <1>4, VectorsCutOff DEF VectorsFollow
<1>5. CASE UNCHANGED <<vars, vectorVars>>
  <2>1. UNCHANGED <<vars, cut>> /\ UNCHANGED <<catalog, tag, todo, batch, pc, vectorVars>>
    BY <1>5 DEF vars, vectorVars
  <2>2. QED BY <1>1, <2>1, PlanRests, VectorsRest DEF VectorsFollow
<1>6. QED BY <1>2, <1>3, <1>4, <1>5 DEF VectorNext

LEMMA VectorsBegin == ASSUME NEW owner, Init, VectorInit PROVE VectorsFollow(owner)
<1>1. VectorInv
  BY DEF Init, VectorInit, VectorInv, VectorDomains, TablesMade, RowsHaveVectors, VectorsListed, Found,
         RunVectors, VectorMemory, FreshWritten, VectorSources, WrittenShown, TableCleared
<1>2. cut = {}
  BY DEF VectorInit
<1>3. QED BY <1>1, <1>2, PlanBegins, InitType DEF VectorsFollow

(* What VectorsFollowCatalog asks for.                                     *)
LEMMA VectorsAreFound == ASSUME VectorInv PROVE VectorsFollowCatalog
<1> SUFFICES ASSUME NEW b \in Branches
             PROVE  /\ \A x \in catalog[b] :
                         ItemOf(x) \in cut \/ Being(x, b, {"del", "removeTag"})
                           \/ \A n \in 1 .. Parts[x.key] : \E v \in Found(b) : SameFile(v, x) /\ v.idx = n
                    /\ \A v \in Found(b) :
                         ItemOf(v) \in cut \/ Being(v, b, Kinds) \/ \E x \in catalog[b] : SameFile(v, x)
  BY DEF VectorsFollowCatalog
<1>1. ASSUME NEW x, NEW kinds, Worked(x, b, kinds) PROVE Being(x, b, kinds)
  BY <1>1 DEF Worked, Being
<1>2. \A x \in catalog[b] :
        ItemOf(x) \in cut \/ Being(x, b, {"del", "removeTag"}) \/ AllParts(Found(b), x)
  BY <1>1 DEF VectorInv, RowsHaveVectors, Removes
<1>3. \A v \in Found(b) :
        ItemOf(v) \in cut \/ Being(v, b, Kinds) \/ \E x \in catalog[b] : SameFile(v, x)
  BY <1>1 DEF VectorInv, VectorsListed, Listed, SameEntry, SameFile
<1>4. QED BY <1>2, <1>3 DEF AllParts

(* The same of the vectors, and that no others are found: whatever run is  *)
(* cut off between whichever statements, for the versions it was not about. *)
THEOREM VectorsFollowListings ==
  ASSUME NEW owner
  PROVE  TagIndexesSpec /\ []TextsOwned(owner) /\ []AddsFit => []ListedVectorsFound
<1> DEFINE Inv == artifact = "vectors" => VectorsFollow(owner)
<1>1. TagIndexesInit => Inv
  BY VectorsBegin DEF TagIndexesInit, ChunkInit
<1>2. Inv /\ TextsOwned(owner) /\ AddsFit /\ [TagIndexesNext]_indexVars => Inv'
  <2> SUFFICES ASSUME Inv, TextsOwned(owner), AddsFit, [TagIndexesNext]_indexVars,
                      artifact' = "vectors"
               PROVE  VectorsFollow(owner)'
    OBVIOUS
  <2>1. artifact = "vectors" /\ [VectorNext]_<<vars, vectorVars>>
    BY DEF TagIndexesNext, indexVars, chunkVars
  <2>2. QED BY <2>1, VectorsNext
<1>3. Inv => ListedVectorsFound
  BY VectorsAreFound DEF VectorsFollow, ListedVectorsFound
<1>4. QED BY <1>1, <1>2, <1>3, PTL DEF TagIndexesSpec

-----------------------------------------------------------------------------
(* The snippet index.  Marks are under way while the run goes on: a call of *)
(* markComplete has written the catalog, or nothing yet.                   *)
MarkCall == [op : Op, branch : Branches, last : Nat, half : BOOLEAN]

Late(i, x, b) ==
  i \in DOMAIN marking /\ marking[i].branch = b /\ SameEntry(marking[i].op, x)

Adds(i) == marking[i].op.kind \in Writes

MarkCalls(owner) ==
  /\ marking \in Seq(MarkCall)
  /\ \A i \in DOMAIN marking : Owns(owner, marking[i].op)
  /\ \A i, j \in DOMAIN marking : j < i /\ marking[i].half => marking[j].half

SnippetIds == \A x, y \in snippets : x.id \in 1 .. MaxId /\ (x.id = y.id => x = y)

(* The global cache will know all rows: a row that is not in it, or that a *)
(* call about to write the cache takes out of it, is put there by a later  *)
(* one.                                                                    *)
AddedAfter(j, x, b) == \E i \in DOMAIN marking : i > j /\ Late(i, x, b) /\ marking[i].half /\ Adds(i)

RowsCachedLate ==
  \A b \in Branches : \A x \in catalog[b] :
    /\ <<x.key, b>> \in gcache \/ AddedAfter(0, x, b)
    /\ \A j \in DOMAIN marking : Late(j, x, b) /\ marking[j].half /\ ~Adds(j) => AddedAfter(j, x, b)

(* A version is shown, or it is known why not.                             *)
Excused(x, b) ==
  \/ <<ItemOf(x), b>> \in taken \/ BeingWritten(x, b) \/ Worked(x, b, Removes)
  \/ AllParts(Shown(b), x)

RemovedAfter(j, x, b) == \E i \in DOMAIN marking : i > j /\ Late(i, x, b) /\ ~marking[i].half /\ ~Adds(i)

RowsShown == \A b \in Branches : \A x \in catalog[b] : Excused(x, b) \/ RemovedAfter(0, x, b)

MarksShown ==
  \A j \in DOMAIN marking : ~marking[j].half /\ Adds(j) =>
    \/ Excused(marking[j].op, marking[j].branch)
    \/ RemovedAfter(j, marking[j].op, marking[j].branch)

(* What an update holds between two statements.                            *)
Parsing == [op : Op, text : Contents, next : Nat \ {0}, id : Nat]

PartsWritten(r, q) ==
  /\ q \in Parsing /\ q.op \in batch[r] /\ q.op.kind \in Writes /\ q.text = q.op.key
  /\ \A n \in 1 .. q.next - 1 : \E s \in Shown(tag[r]) : SameFile(s, q.op) /\ s.idx = n
  /\ q.id # 0 => \E s \in snippets : s.id = q.id /\ SameFile(s, q.op) /\ s.idx = q.next

SnippetMemory(r) ==
  /\ marked[r] = {}
  /\ parsed[r] = {} \/ found[r] = {}
  /\ \A p, q \in parsed[r] : p = q
  /\ \A f, g \in found[r] : f = g
  /\ \A q \in parsed[r] : PartsWritten(r, q)
  /\ \A f \in found[r] : /\ f.op \in batch[r] /\ f.op.kind = "del"
                         /\ \A x \in snippets : x.id \notin f.ids

(* The marks under way are those of the run under way.                     *)
MarksOfRun(r) ==
  Active(r) /\ marking # <<>> =>
    /\ pc[r] = "update"
    /\ \A i \in DOMAIN marking :
         /\ marking[i].branch = tag[r]
         /\ ~Adds(i) => ItemOf(marking[i].op) \in remove[r]

RunSnippets(r) == SnippetMemory(r) /\ MarksOfRun(r) /\ DelsAlone(r)

SnippetDomains == DOMAIN parsed = Runs /\ DOMAIN found = Runs

SnippetInv(owner) ==
  /\ cut = {} /\ SnippetDomains /\ SnippetIds
  /\ MarkCalls(owner) /\ RowsCachedLate /\ RowsShown /\ MarksShown
  /\ \A r \in Runs : RunSnippets(r)

(* A new id is larger than those there are.                                *)
LEMMA NewIdIsNew ==
  ASSUME SnippetIds
  PROVE  NewId \in Nat \ {0} /\ \A x \in snippets : x.id < NewId
<1> DEFINE ids == {0} \cup {x.id : x \in snippets}
           gaps == {MaxId - n : n \in ids}
<1>1. ids \subseteq 0 .. MaxId /\ MaxId \in Nat
  BY IdAssumption DEF SnippetIds
<1>2. gaps \subseteq Nat /\ gaps # {}
  <2>1. ASSUME NEW n \in ids PROVE MaxId - n \in Nat
    <3>1. n \in 0 .. MaxId /\ MaxId \in Nat
      BY <1>1
    <3> HIDE DEF ids, gaps
    <3>2. QED BY <3>1
  <2>2. 0 \in ids
    OBVIOUS
  <2> HIDE DEF ids
  <2>3. MaxId - 0 \in gaps
    BY <2>2
  <2>4. \A g \in gaps : \E n \in ids : g = MaxId - n
    OBVIOUS
  <2>5. QED BY <2>1, <2>3, <2>4
<1>3. PICK g \in gaps : \A l \in gaps : g <= l
  <2> HIDE DEF gaps
  <2>1. QED BY <1>2, LeastNumber
<1>4. PICK n \in ids : g = MaxId - n
  OBVIOUS
<1>5. ASSUME NEW x \in snippets PROVE x.id <= n
  <2>1. x.id \in ids /\ n \in ids /\ MaxId - x.id \in gaps
    BY <1>4
  <2>2. MaxId - n <= MaxId - x.id
    BY <1>3, <1>4, <2>1
  <2> HIDE DEF ids, gaps
  <2>3. \A k \in ids : k \in Nat
    BY <1>1
  <2>4. \A a, b, c \in Nat : a - b <= a - c => c <= b
    OBVIOUS
  <2>5. QED BY <1>1, <2>1, <2>2, <2>3, <2>4
<1> DEFINE m == CHOOSE k \in ids : \A x \in snippets : x.id <= k
<1>6. m \in ids /\ \A x \in snippets : x.id <= m
  BY <1>4, <1>5
<1>7. NewId = 1 + m
  BY DEF NewId
<1>8. \A x \in snippets : x.id \in Nat
  BY <1>1
<1> HIDE DEF ids, m
<1>9. QED BY <1>1, <1>6, <1>7, <1>8

LEMMA OtherSnippetsRest ==
  ASSUME NEW owner, ScanInv(owner), SnippetInv(owner), NEW r \in Runs, Alone(r),
         \A q \in Runs \ {r} : UNCHANGED <<pc[q], todo[q], batch[q], marked[q], parsed[q], found[q]>>
  PROVE  /\ \A q \in Runs \ {r} : RunSnippets(q)' /\ batch[q] = {} /\ parsed[q] = {}
         /\ \A x, b, kinds : Worked(x, b, kinds) <=>
              tag[r] = b /\ \E o \in batch[r] : o.kind \in kinds /\ SameEntry(x, o)
         /\ \A x, b : BeingWritten(x, b) <=> tag[r] = b /\ \E q \in parsed[r] : SameEntry(x, q.op)
<1>1. ASSUME NEW q \in Runs \ {r} PROVE RunSnippets(q)' /\ batch[q] = {} /\ parsed[q] = {}
  <2>1. NoOps(q) /\ ~Active(q)
    BY RestingOps DEF Alone
  <2>2. parsed[q] = {} /\ found[q] = {}
    BY <2>1 DEF SnippetInv, RunSnippets, SnippetMemory, PartsWritten, NoOps
  <2>3. SnippetMemory(q)'
    BY <2>1, <2>2 DEF NoOps, SnippetMemory
  <2>4. MarksOfRun(q)' /\ DelsAlone(q)'
    BY <2>1 DEF NoOps, MarksOfRun, DelsAlone, Active
  <2>5. QED BY <2>1, <2>2, <2>3, <2>4 DEF RunSnippets, NoOps
<1>2. QED BY <1>1 DEF Worked, BeingWritten

LEMMA ExcusedAlike ==
  ASSUME NEW x, NEW y, NEW b, SameEntry(x, y), Excused(x, b)
  PROVE  Excused(y, b)
<1>1. ItemOf(x) = ItemOf(y) /\ \A z : SameEntry(x, z) <=> SameEntry(y, z)
  BY SameItem DEF SameEntry
<1>2. AllParts(Shown(b), x) => AllParts(Shown(b), y)
  BY SameParts
<1>3. QED BY <1>1, <1>2 DEF Excused, BeingWritten, Worked

LEMMA MarkTypes ==
  ASSUME NEW owner, MarkCalls(owner), NEW i \in DOMAIN marking
  PROVE  /\ marking[i] \in MarkCall /\ marking[i].op \in Op /\ marking[i].branch \in Branches
         /\ marking[i].last \in Nat /\ i \in Nat \ {0} /\ Owns(owner, marking[i].op)
<1>1. marking \in Seq(MarkCall) /\ Owns(owner, marking[i].op)
  BY DEF MarkCalls
<1>2. marking[i] \in MarkCall /\ i \in Nat \ {0}
  BY <1>1
<1>3. QED BY <1>1, <1>2 DEF MarkCall

(* A step of the plan of one run leaves the others where they are.         *)
LEMMA OthersPlanned ==
  ASSUME TypeOK, NEW r \in Runs, PlanStep(r), NEW q \in Runs \ {r}
  PROVE  UNCHANGED pc[q]
<1>1. \/ UNCHANGED pc \/ Forget(r)
      \/ \E s \in Pc : pc' = [pc EXCEPT ![r] = s]
  BY DEF PlanStep, Begin, Start, StartFile, Planning, GetBranch, Stat, Plan, ReadNew, SkipFresh, ReadSame,
         ReadChanged, Reading, SplitFull, SplitFile, Between, NextBatch, Touch, Leaves, Finish, StatFails,
         NothingToCompute, TouchFails, Pc
<1>2. QED BY <1>1 DEF Forget, TypeOK

(* A step of the plan comes between two batches.                           *)
LEMMA SnippetsPlanned ==
  ASSUME NEW owner, TypeOK, ScanInv(owner), SnippetInv(owner), NEW r \in Runs, Alone(r),
         PlanStep(r), Begin(r) => marking = <<>>, UNCHANGED snippetVars, UNCHANGED cut
  PROVE  SnippetInv(owner)'
<1>1. /\ \A q \in Runs : batch[q] = {} /\ marked'[q] = {}
      /\ \A b \in Branches : \A x : Listed(x, b)' <=> Listed(x, b)
      /\ \A q \in Runs \ {r} : NoOps(q)'
      /\ UNCHANGED gcache
      /\ \A o \in todo'[r] \cup batch'[r] :
           /\ tag'[r] = tag[r]
           /\ o \in todo[r] \/ (pc[r] = "read" /\ o \in AddOps(r) \cup RemoveOps(r))
  BY PlanStepOps
<1>2. UNCHANGED <<snippets, snippetTags, parsed, found, marking, taken>>
  BY DEF snippetVars, snippetTables, snippetMemory
<1>3. \A q \in Runs : parsed[q] = {} /\ found[q] = {} /\ RunSnippets(q)
  BY <1>1 DEF SnippetInv, RunSnippets, SnippetMemory, PartsWritten
<1>4. ASSUME NEW x, NEW b, Excused(x, b) PROVE Excused(x, b)'
  <2>1. ~Worked(x, b, Removes) /\ ~BeingWritten(x, b)
    BY <1>1, <1>3 DEF Worked, BeingWritten
  <2>2. <<ItemOf(x), b>> \in taken \/ AllParts(Shown(b), x)
    BY <1>4, <2>1 DEF Excused
  <2>3. AllParts(Shown(b), x) => AllParts(Shown(b), x)'
    BY <1>2 DEF AllParts, Shown
  <2>4. QED BY <1>2, <2>2, <2>3 DEF Excused
<1>5. ASSUME NEW b \in Branches, NEW x \in catalog'[b] PROVE \E y \in catalog[b] : SameEntry(y, x)
  <2>1. Listed(x, b)'
    BY DEF Listed, SameEntry
  <2>2. QED BY <1>1, <2>1 DEF Listed
<1>6. MarkCalls(owner)' /\ SnippetIds' /\ SnippetDomains' /\ cut' = {}
  BY <1>2 DEF SnippetInv, MarkCalls, SnippetIds, SnippetDomains, Owns
<1>7. RowsCachedLate'
  <2> SUFFICES ASSUME NEW b \in Branches, NEW x \in catalog'[b]
               PROVE  /\ <<x.key, b>> \in gcache \/ AddedAfter(0, x, b)
                      /\ \A j \in DOMAIN marking : Late(j, x, b) /\ marking[j].half /\ ~Adds(j) =>
                           AddedAfter(j, x, b)
    <3>1. \A j, x, b : AddedAfter(j, x, b)' <=> AddedAfter(j, x, b)
      BY <1>2 DEF AddedAfter, Late, Adds
    <3>2. QED BY <1>1, <1>2, <3>1 DEF RowsCachedLate, Late, Adds
  <2>1. PICK y \in catalog[b] : SameEntry(y, x)
    BY <1>5
  <2>2. x.key = y.key /\ \A z : SameEntry(z, x) <=> SameEntry(z, y)
    BY <2>1 DEF SameEntry
  <2>3. QED BY <2>2 DEF SnippetInv, RowsCachedLate, AddedAfter, Late
<1>8. RowsShown'
  <2> SUFFICES ASSUME NEW b \in Branches, NEW x \in catalog'[b]
               PROVE  Excused(x, b)' \/ RemovedAfter(0, x, b)
    BY <1>2 DEF RowsShown, RemovedAfter, Late, Adds
  <2>1. PICK y \in catalog[b] : SameEntry(y, x)
    BY <1>5
  <2>2. \A z : SameEntry(z, x) <=> SameEntry(z, y)
    BY <2>1 DEF SameEntry
  <2>3. Excused(y, b) \/ RemovedAfter(0, y, b)
    BY DEF SnippetInv, RowsShown
  <2>4. QED BY <1>4, <2>1, <2>2, <2>3, ExcusedAlike DEF RemovedAfter, Late
<1>9. MarksShown'
  <2>1. \A j, x, b : RemovedAfter(j, x, b)' <=> RemovedAfter(j, x, b)
    BY <1>2 DEF RemovedAfter, Late, Adds
  <2>2. QED BY <1>2, <1>4, <2>1 DEF SnippetInv, MarksShown, Adds
<1>10. ASSUME NEW q \in Runs PROVE SnippetMemory(q)'
  BY <1>1, <1>2, <1>3 DEF SnippetMemory
<1>11. ASSUME NEW q \in Runs PROVE MarksOfRun(q)'
  <2>1. CASE q # r
    <3>1. UNCHANGED pc[q]
      BY <2>1, OthersPlanned
    <3>2. QED BY <2>1, <3>1 DEF MarksOfRun, Active, Alone
  <2>2. CASE q = r
    <3>1. CASE pc[r] # "update"
      <4>1. marking = <<>>
        BY <1>3, <3>1 DEF RunSnippets, MarksOfRun, Active, PlanStep, Planning, Between, Leaves, GetBranch,
           Stat, Plan, ReadNew, SkipFresh, ReadSame, ReadChanged, Reading, SplitFull, SplitFile, Planned,
           NextBatch, Touch, AllMarked, Finish, StatFails, NothingToCompute, TouchFails
      <4>2. QED BY <1>2, <2>2, <4>1 DEF MarksOfRun
    <3>2. CASE pc[r] = "update"
      <4>1. ~Active(r)' \/ UNCHANGED <<pc[r], tag[r], remove[r]>>
        <5>1. Between(r) \/ Leaves(r)
          BY <3>2 DEF PlanStep, Begin, Start, StartFile, Active, Planning, GetBranch,
             Stat, Plan, ReadNew, SkipFresh, ReadSame, ReadChanged, Reading, SplitFull, SplitFile, Planned
        <5>2. CASE Between(r)
          BY <5>2 DEF Between, NextBatch, Touch
        <5>3. CASE Leaves(r)
          BY <5>3, ForgetIsBlank DEF Leaves, Finish, StatFails, NothingToCompute, TouchFails, Blank, Active
        <5>4. QED BY <5>1, <5>2, <5>3
      <4>2. QED BY <1>2, <1>3, <2>2, <4>1 DEF RunSnippets, MarksOfRun, Active, Adds
    <3>3. QED BY <3>1, <3>2
  <2>3. QED BY <2>1, <2>2
<1>12. ASSUME NEW q \in Runs PROVE DelsAlone(q)'
  <2>1. CASE q # r
    BY <1>1, <2>1 DEF NoOps, DelsAlone
  <2>2. ASSUME NEW o \in todo'[r] \cup batch'[r], o.kind = "del",
               NEW b \in Branches \ {tag[r]}, NEW x \in catalog'[b], x.key = o.key
        PROVE  FALSE
    <3>1. PICK y \in catalog[b] : SameEntry(y, x)
      BY <1>5
    <3>2. y.key = o.key
      BY <2>2, <3>1 DEF SameEntry
    <3>3. CASE o \in todo[r]
      BY <1>3, <2>2, <3>2, <3>3 DEF RunSnippets, DelsAlone, SnippetInv
    <3>4. CASE pc[r] = "read" /\ o \in AddOps(r)
      BY <2>2, <3>4, OpsFrom DEF Writes
    <3>5. CASE pc[r] = "read" /\ o \in RemoveOps(r)
      <4>1. marking = <<>>
        BY <1>3, <3>5 DEF RunSnippets, MarksOfRun, Active
      <4>2. \A c \in Branches : \A z \in catalog[c] : <<z.key, c>> \in gcache
        <5>1. \A z, c : ~AddedAfter(0, z, c)
          BY <4>1 DEF AddedAfter
        <5>2. QED BY <5>1 DEF SnippetInv, RowsCachedLate
      <4>3. ItemOf(o) \in remove[r] /\ KindOfRemove(o) = "del"
        BY <2>2, <3>5, OpsFrom
      <4>4. Listed(ItemOf(o), tag[r]) /\ tag[r] \in Branches
        BY <3>5, <4>3 DEF ScanInv, RunScanned, Scanned, TypeOK
      <4>5. PICK z \in catalog[tag[r]] : z.key = o.key
        BY <4>4 DEF Listed, SameEntry, ItemOf
      <4>6. <<o.key, tag[r]>> \in gcache /\ <<o.key, b>> \in gcache
        BY <3>2, <4>2, <4>4, <4>5
      <4>7. Cardinality(TagsOf(o.key)) > 1
        BY <4>4, <4>6, TwoTags
      <4>8. QED BY <4>3, <4>7 DEF KindOfRemove
    <3>6. QED BY <1>1, <2>2, <3>3, <3>4, <3>5
  <2>3. CASE q = r
    BY <1>1, <2>2, <2>3 DEF DelsAlone
  <2>4. QED BY <2>1, <2>3
<1>13. QED BY <1>6, <1>7, <1>8, <1>9, <1>10, <1>11, <1>12 DEF SnippetInv, RunSnippets

(* Statements that leave the plan and the marks alone.                     *)
LEMMA SnippetsKept ==
  ASSUME NEW owner, SnippetInv(owner), UNCHANGED <<vars, marking, cut>>,
         \A b \in Branches : \A x :
           (Listed(x, b) \/ \E j \in DOMAIN marking : Late(j, x, b)) /\ Excused(x, b) => Excused(x, b)'
  PROVE  /\ cut' = {} /\ MarkCalls(owner)' /\ RowsCachedLate' /\ RowsShown' /\ MarksShown'
         /\ \A q \in Runs : MarksOfRun(q)' /\ DelsAlone(q)'
<1>1. UNCHANGED <<catalog, gcache, pc, tag, remove, todo, batch>>
  BY DEF vars
<1>2. /\ \A j, x, b : RemovedAfter(j, x, b)' <=> RemovedAfter(j, x, b)
      /\ \A j, x, b : AddedAfter(j, x, b)' <=> AddedAfter(j, x, b)
  BY DEF RemovedAfter, AddedAfter, Late, Adds
<1>3. cut' = {} /\ MarkCalls(owner)'
  BY DEF SnippetInv, MarkCalls, Owns
<1>4. RowsCachedLate'
  BY <1>1, <1>2 DEF SnippetInv, RowsCachedLate, Late, Adds
<1>5. RowsShown'
  <2> SUFFICES ASSUME NEW b \in Branches, NEW x \in catalog[b]
               PROVE  Excused(x, b)' \/ RemovedAfter(0, x, b)
    BY <1>1, <1>2 DEF RowsShown
  <2>1. Listed(x, b)
    BY DEF Listed, SameEntry
  <2>2. QED BY <2>1 DEF SnippetInv, RowsShown
<1>6. MarksShown'
  <2> SUFFICES ASSUME NEW j \in DOMAIN marking, ~marking[j].half, Adds(j)
               PROVE  \/ Excused(marking[j].op, marking[j].branch)'
                      \/ RemovedAfter(j, marking[j].op, marking[j].branch)
    BY <1>2 DEF MarksShown, Adds
  <2>1. Late(j, marking[j].op, marking[j].branch)
    BY DEF Late, SameEntry
  <2>2. marking[j].branch \in Branches
    BY MarkTypes DEF SnippetInv
  <2>3. \/ Excused(marking[j].op, marking[j].branch)
        \/ RemovedAfter(j, marking[j].op, marking[j].branch)
    BY DEF SnippetInv, MarksShown
  <2>4. CASE Excused(marking[j].op, marking[j].branch)
    <3>1. PICK x, b : x = marking[j].op /\ b = marking[j].branch
      OBVIOUS
    <3>2. Late(j, x, b) /\ b \in Branches /\ Excused(x, b)
      BY <2>1, <2>2, <2>4, <3>1
    <3>3. Excused(x, b)'
      BY <3>2
    <3>4. QED BY <3>1, <3>3
  <2>5. QED BY <2>3, <2>4
<1>7. ASSUME NEW q \in Runs PROVE MarksOfRun(q)' /\ DelsAlone(q)'
  BY <1>1 DEF SnippetInv, RunSnippets, MarksOfRun, DelsAlone, Active, Adds
<1>8. QED BY <1>3, <1>4, <1>5, <1>6, <1>7

LEMMA FileParsed ==
  ASSUME NEW owner, TypeOK, ScanInv(owner), TextsOwned(owner), SnippetInv(owner),
         NEW r \in Runs, Alone(r), NEW o \in batch[r], Parse(r, o), UNCHANGED cut
  PROVE  SnippetInv(owner)'
<1>0. PICK q : q = [op |-> o, text |-> Text(o.path), next |-> 1, id |-> 0]
  OBVIOUS
<1>1. /\ UNCHANGED <<vars, snippets, snippetTags, found, marking, taken>>
      /\ o.kind \in Writes /\ parsed[r] = {} /\ found[r] = {}
      /\ parsed'[r] = {q} /\ \A p \in Runs \ {r} : UNCHANGED parsed[p]
      /\ SnippetDomains'
  BY <1>0 DEF Parse, Turn, snippetTables, SnippetInv, SnippetDomains, Writes
<1>2. UNCHANGED <<pc, tag, todo, batch, marked>>
  BY <1>1 DEF vars
<1>3. o \in Op /\ o.key = Text(o.path)
  BY <1>1, OpOwned
<1>4. ASSUME NEW b \in Branches, NEW x, Excused(x, b) PROVE Excused(x, b)'
  <2>1. Worked(x, b, Removes) => Worked(x, b, Removes)'
    BY <1>2 DEF Worked
  <2>2. BeingWritten(x, b) => BeingWritten(x, b)'
    BY <1>1, <1>2 DEF BeingWritten
  <2>3. AllParts(Shown(b), x) => AllParts(Shown(b), x)'
    BY <1>1 DEF AllParts, Shown
  <2>4. QED BY <1>1, <1>4, <2>1, <2>2, <2>3 DEF Excused
<1>5. PartsWritten(r, q)'
  <2>1. q \in Parsing /\ q.op = o /\ q.text = o.key /\ q.next = 1 /\ q.id = 0
    BY <1>0, <1>3 DEF Parsing, Op
  <2>2. QED BY <1>1, <1>2, <2>1 DEF PartsWritten
<1>6. RunSnippets(r)
  BY DEF SnippetInv
<1>7. SnippetMemory(r)'
  BY <1>1, <1>2, <1>5, <1>6 DEF RunSnippets, SnippetMemory
<1>8. SnippetIds'
  BY <1>1 DEF SnippetInv, SnippetIds
<1>9. QED
  BY <1>1, <1>2, <1>4, <1>7, <1>8, SnippetsKept, OtherSnippetsRest DEF SnippetInv, RunSnippets

LEMMA SnippetReplaced ==
  ASSUME NEW owner, TypeOK, ScanInv(owner), SnippetInv(owner), NEW r \in Runs, Alone(r),
         ReplaceSnippet(r), UNCHANGED cut
  PROVE  SnippetInv(owner)'
<1>1. PICK q \in parsed[r] :
        LET new == [id |-> NewId, path |-> q.op.path, key |-> q.op.key, text |-> q.text, idx |-> q.next]
            old == {x \in snippets : SameContent(x, new)}
        IN  /\ q.id = 0 /\ NewId <= MaxId
            /\ snippets' = (snippets \ old) \cup {new}
            /\ parsed' = [parsed EXCEPT ![r] = {[q EXCEPT !.id = NewId]}]
            /\ taken' = taken \cup
                 {<<ItemOf(q.op), b>> : b \in {c \in Branches \ {tag[r]} : \E x \in old : <<x.id, c>> \in snippetTags}}
            /\ UNCHANGED <<vars, snippetTags, found, marking>>
  BY DEF ReplaceSnippet
<1> DEFINE new == [id |-> NewId, path |-> q.op.path, key |-> q.op.key, text |-> q.text, idx |-> q.next]
           old == {x \in snippets : SameContent(x, new)}
<1>0. PICK p : p = [q EXCEPT !.id = NewId]
  OBVIOUS
<1>2. /\ NewId <= MaxId /\ snippets' = (snippets \ old) \cup {new}
      /\ taken' = taken \cup
           {<<ItemOf(q.op), b>> : b \in {c \in Branches \ {tag[r]} : \E x \in old : <<x.id, c>> \in snippetTags}}
      /\ UNCHANGED <<vars, snippetTags, found, marking>>
  BY <1>1
<1>3. parsed'[r] = {p} /\ (\A s \in Runs \ {r} : UNCHANGED parsed[s]) /\ SnippetDomains'
  BY <1>0, <1>1 DEF SnippetInv, SnippetDomains
<1>4. UNCHANGED <<pc, tag, todo, batch, marked>>
  BY <1>2 DEF vars
<1>5. RunSnippets(r) /\ PartsWritten(r, q) /\ found[r] = {} /\ parsed[r] = {q}
  BY DEF SnippetInv, RunSnippets, SnippetMemory
<1>6. NewId \in Nat \ {0} /\ \A x \in snippets : x.id < NewId
  BY NewIdIsNew DEF SnippetInv
<1>7. p \in Parsing /\ p.op = q.op /\ p.text = q.text /\ p.next = q.next /\ p.id = NewId
  <2>1. q \in Parsing
    BY <1>5 DEF PartsWritten
  <2>2. QED BY <1>0, <1>6, <2>1 DEF Parsing
<1>8. /\ new.id = NewId /\ new.idx = q.next /\ SameFile(new, q.op) /\ new \in snippets'
      /\ \A x \in old : SameFile(x, q.op) /\ x.idx = q.next
      /\ old \subseteq snippets
  BY <1>2 DEF SameContent, SameFile
<1> HIDE DEF new, old
<1>9. \A b : \A x \in Shown(b) : x \notin old => x \in Shown(b)'
  BY <1>2 DEF Shown
<1>10. ASSUME NEW b \in Branches, NEW x, Excused(x, b) PROVE Excused(x, b)'
  <2>1. Worked(x, b, Removes) => Worked(x, b, Removes)'
    BY <1>4 DEF Worked
  <2>2. BeingWritten(x, b) => BeingWritten(x, b)'
    <3> SUFFICES ASSUME BeingWritten(x, b) PROVE BeingWritten(x, b)'
      OBVIOUS
    <3>1. PICK s \in Runs : tag[s] = b /\ \E u \in parsed[s] : SameEntry(x, u.op)
      BY DEF BeingWritten
    <3>2. \E u \in parsed'[s] : SameEntry(x, u.op)
      BY <1>3, <1>5, <1>7, <3>1
    <3>3. QED BY <1>4, <3>1, <3>2 DEF BeingWritten
  <2>3. ASSUME AllParts(Shown(b), x) PROVE Excused(x, b)'
    <3>1. CASE ~SameEntry(x, q.op)
      <4>1. \A s \in Shown(b) : SameFile(s, x) => s \in Shown(b)'
        BY <1>8, <1>9, <3>1 DEF SameFile, SameEntry
      <4>2. AllParts(Shown(b), x)'
        BY <2>3, <4>1 DEF AllParts
      <4>3. QED BY <4>2 DEF Excused
    <3>2. CASE SameEntry(x, q.op) /\ b = tag[r]
      <4>1. p \in parsed'[r] /\ SameEntry(x, p.op) /\ tag'[r] = b
        BY <1>3, <1>4, <1>7, <3>2
      <4>2. QED BY <4>1 DEF Excused, BeingWritten
    <3>3. CASE SameEntry(x, q.op) /\ b # tag[r]
      <4>1. CASE \E s \in old : <<s.id, b>> \in snippetTags
        <5>1. ItemOf(x) = ItemOf(q.op)
          BY <3>3, SameItem
        <5>2. <<ItemOf(q.op), b>> \in taken'
          BY <1>2, <3>3, <4>1
        <5>3. QED BY <5>1, <5>2 DEF Excused
      <4>2. CASE \A s \in old : <<s.id, b>> \notin snippetTags
        <5>1. \A s \in Shown(b) : s \in Shown(b)'
          BY <1>9, <4>2 DEF Shown
        <5>2. AllParts(Shown(b), x)'
          BY <2>3, <5>1 DEF AllParts
        <5>3. QED BY <5>2 DEF Excused
      <4>3. QED BY <4>1, <4>2
    <3>4. QED BY <3>1, <3>2, <3>3
  <2>4. QED BY <1>2, <1>10, <2>1, <2>2, <2>3 DEF Excused
<1>11. PartsWritten(r, p)'
  <2>1. p.op \in batch'[r] /\ p.op.kind \in Writes /\ p.text = p.op.key
    BY <1>4, <1>5, <1>7 DEF PartsWritten
  <2>2. ASSUME NEW n \in 1 .. q.next - 1
        PROVE  \E s \in Shown(tag[r])' : SameFile(s, q.op) /\ s.idx = n
    <3>1. PICK s \in Shown(tag[r]) : SameFile(s, q.op) /\ s.idx = n
      BY <1>5 DEF PartsWritten
    <3>2. n # q.next
      BY <1>5 DEF PartsWritten, Parsing
    <3>3. s \notin old
      BY <1>8, <3>1, <3>2
    <3>4. QED BY <1>4, <1>9, <3>1, <3>3 DEF Shown
  <2>3. \E s \in snippets' : s.id = p.id /\ SameFile(s, p.op) /\ s.idx = p.next
    BY <1>7, <1>8
  <2>4. QED BY <1>4, <1>7, <2>1, <2>2, <2>3 DEF PartsWritten
<1>12. SnippetMemory(r)'
  BY <1>2, <1>3, <1>4, <1>5, <1>11 DEF RunSnippets, SnippetMemory
<1>13. SnippetIds'
  BY <1>2, <1>6, <1>8, IdAssumption DEF SnippetInv, SnippetIds
<1>14. QED
  BY <1>2, <1>3, <1>4, <1>10, <1>12, <1>13, SnippetsKept, OtherSnippetsRest DEF SnippetInv, RunSnippets

LEMMA SnippetTagReplaced ==
  ASSUME NEW owner, TypeOK, ScanInv(owner), SnippetInv(owner), NEW r \in Runs, Alone(r),
         ReplaceTag(r), UNCHANGED cut
  PROVE  SnippetInv(owner)'
<1>1. PICK q \in parsed[r] :
        /\ q.id # 0 /\ snippetTags' = snippetTags \cup {<<q.id, tag[r]>>}
        /\ parsed' = [parsed EXCEPT ![r] = {[q EXCEPT !.id = 0, !.next = @ + 1]}]
        /\ UNCHANGED <<vars, snippets, found, marking, taken>>
  BY DEF ReplaceTag
<1>0. PICK p : p = [q EXCEPT !.id = 0, !.next = @ + 1]
  OBVIOUS
<1>2. parsed'[r] = {p} /\ (\A s \in Runs \ {r} : UNCHANGED parsed[s]) /\ SnippetDomains'
  BY <1>0, <1>1 DEF SnippetInv, SnippetDomains
<1>3. UNCHANGED <<pc, tag, todo, batch, marked>>
  BY <1>1 DEF vars
<1>4. RunSnippets(r) /\ PartsWritten(r, q) /\ found[r] = {} /\ parsed[r] = {q}
  BY DEF SnippetInv, RunSnippets, SnippetMemory
<1>5. p \in Parsing /\ p.op = q.op /\ p.text = q.text /\ p.next = q.next + 1 /\ p.id = 0
  <2>1. q \in Parsing
    BY <1>4 DEF PartsWritten
  <2>2. q.next + 1 \in Nat \ {0} /\ 0 \in Nat
    BY <2>1 DEF Parsing
  <2>3. QED BY <1>0, <2>1, <2>2 DEF Parsing
<1>6. \A b : Shown(b) \subseteq Shown(b)'
  BY <1>1 DEF Shown
<1>7. ASSUME NEW b \in Branches, NEW x, Excused(x, b) PROVE Excused(x, b)'
  <2>1. Worked(x, b, Removes) => Worked(x, b, Removes)'
    BY <1>3 DEF Worked
  <2>2. BeingWritten(x, b) => BeingWritten(x, b)'
    <3> SUFFICES ASSUME BeingWritten(x, b) PROVE BeingWritten(x, b)'
      OBVIOUS
    <3>1. PICK s \in Runs : tag[s] = b /\ \E u \in parsed[s] : SameEntry(x, u.op)
      BY DEF BeingWritten
    <3>2. \E u \in parsed'[s] : SameEntry(x, u.op)
      BY <1>2, <1>4, <1>5, <3>1
    <3>3. QED BY <1>3, <3>1, <3>2 DEF BeingWritten
  <2>3. AllParts(Shown(b), x) => AllParts(Shown(b), x)'
    BY <1>6 DEF AllParts
  <2>4. QED BY <1>1, <1>7, <2>1, <2>2, <2>3 DEF Excused
<1>8. PartsWritten(r, p)'
  <2>1. p.op \in batch'[r] /\ p.op.kind \in Writes /\ p.text = p.op.key
    BY <1>3, <1>4, <1>5 DEF PartsWritten
  <2>2. PICK s \in snippets : s.id = q.id /\ SameFile(s, q.op) /\ s.idx = q.next
    BY <1>1, <1>4 DEF PartsWritten
  <2>3. s \in Shown(tag[r])'
    BY <1>1, <1>3, <2>2 DEF Shown
  <2>4. ASSUME NEW n \in 1 .. p.next - 1
        PROVE  \E u \in Shown(tag[r])' : SameFile(u, q.op) /\ u.idx = n
    <3>1. n = q.next \/ n \in 1 .. q.next - 1
      BY <1>4, <1>5 DEF PartsWritten, Parsing
    <3>2. CASE n = q.next
      BY <2>2, <2>3, <3>2
    <3>3. CASE n \in 1 .. q.next - 1
      BY <1>3, <1>4, <1>6, <3>3 DEF PartsWritten
    <3>4. QED BY <3>1, <3>2, <3>3
  <2>5. QED BY <1>3, <1>5, <2>1, <2>4 DEF PartsWritten
<1>9. SnippetMemory(r)'
  BY <1>1, <1>2, <1>3, <1>4, <1>8 DEF RunSnippets, SnippetMemory
<1>10. SnippetIds'
  BY <1>1 DEF SnippetInv, SnippetIds
<1>11. QED
  BY <1>1, <1>2, <1>3, <1>7, <1>9, <1>10, SnippetsKept, OtherSnippetsRest DEF SnippetInv, RunSnippets

(* The rows of a version go while it is being deleted, which no other      *)
(* branch lists.                                                           *)
LEMMA SnippetsDeleted ==
  ASSUME NEW owner, TypeOK, ScanInv(owner), TextsOwned(owner), SnippetInv(owner),
         NEW r \in Runs, Alone(r), NEW o \in batch[r], DeleteSnippets(r, o), UNCHANGED cut
  PROVE  SnippetInv(owner)'
<1>0. PICK f : f = [op |-> o, ids |-> IdsOf(o)]
  OBVIOUS
<1>1. /\ UNCHANGED <<vars, snippetTags, parsed, marking, taken>>
      /\ pc[r] = "update" /\ o.kind = "del" /\ parsed[r] = {} /\ found[r] = {}
      /\ found'[r] = {f} /\ (\A p \in Runs \ {r} : UNCHANGED found[p])
      /\ snippets' = {x \in snippets : x.id \notin IdsOf(o)}
      /\ SnippetDomains'
  BY <1>0 DEF DeleteSnippets, Turn, SnippetInv, SnippetDomains
<1>2. UNCHANGED <<pc, tag, todo, batch, marked>>
  BY <1>1 DEF vars
<1>3. RunSnippets(r) /\ Owns(owner, o) /\ tag[r] \in Branches
  BY OpOwned DEF SnippetInv, TypeOK
<1>4. \A x \in snippets : SameFile(x, o) \/ x \in snippets'
  BY <1>1 DEF IdsOf, SnippetInv, SnippetIds
<1>5. ASSUME NEW b \in Branches, NEW x, Excused(x, b),
             Listed(x, b) \/ \E j \in DOMAIN marking : Late(j, x, b)
      PROVE  Excused(x, b)'
  <2>1. Worked(x, b, Removes) => Worked(x, b, Removes)'
    BY <1>2 DEF Worked
  <2>2. BeingWritten(x, b) => BeingWritten(x, b)'
    BY <1>1, <1>2 DEF BeingWritten
  <2>3. ASSUME AllParts(Shown(b), x) PROVE Excused(x, b)'
    <3>1. CASE ~SameEntry(x, o)
      <4>1. \A s \in Shown(b) : SameFile(s, x) => s \in Shown(b)'
        BY <1>1, <1>4, <3>1 DEF Shown, SameFile, SameEntry
      <4>2. AllParts(Shown(b), x)'
        BY <2>3, <4>1 DEF AllParts
      <4>3. QED BY <4>2 DEF Excused
    <3>2. CASE SameEntry(x, o) /\ b = tag[r]
      BY <1>1, <1>2, <3>2 DEF Excused, Worked, Removes
    <3>3. CASE SameEntry(x, o) /\ b # tag[r]
      <4>1. ~Listed(x, b)
        BY <1>1, <1>3, <3>3 DEF RunSnippets, DelsAlone, SnippetInv, Listed, SameEntry
      <4>2. PICK j \in DOMAIN marking : marking[j].branch = b
        BY <1>5, <4>1 DEF Late
      <4>3. marking # <<>> /\ Active(r)
        BY <1>1, <4>2 DEF Active
      <4>4. QED BY <1>3, <3>3, <4>2, <4>3 DEF RunSnippets, MarksOfRun
    <3>4. QED BY <3>1, <3>2, <3>3
  <2>4. QED BY <1>1, <1>5, <2>1, <2>2, <2>3 DEF Excused
<1>6. f.op = o /\ f.ids = IdsOf(o)
  BY <1>0
<1>7. SnippetMemory(r)'
  BY <1>1, <1>2, <1>3, <1>6 DEF RunSnippets, SnippetMemory
<1>8. SnippetIds'
  BY <1>1 DEF SnippetInv, SnippetIds
<1>9. QED
  BY <1>1, <1>2, <1>5, <1>7, <1>8, SnippetsKept, OtherSnippetsRest DEF SnippetInv, RunSnippets

(* Statements that end with a call of markComplete.                        *)
LEMMA MarkAppended ==
  ASSUME NEW owner, TypeOK, ScanInv(owner), TextsOwned(owner), SnippetInv(owner),
         NEW r \in Runs, NEW o \in batch[r], CallMark(r, o)
  PROVE  LET n == Len(marking) + 1
         IN  /\ n \in DOMAIN marking' /\ marking' \in Seq(MarkCall)
             /\ marking'[n].op = o /\ marking'[n].branch = tag[r] /\ ~marking'[n].half
             /\ \A i \in DOMAIN marking : i \in DOMAIN marking' /\ marking'[i] = marking[i] /\ i < n /\ i > 0
             /\ \A i \in DOMAIN marking' : i \in DOMAIN marking \/ i = n
             /\ n > 0
<1> DEFINE m == [op |-> o, branch |-> tag[r], last |-> LastUpdated(r), half |-> FALSE]
<1>1. marking' = Append(marking, m) /\ marking \in Seq(MarkCall)
  BY DEF CallMark, SnippetInv, MarkCalls
<1>2. m \in MarkCall
  BY DEF TypeOK, MarkCall, LastUpdated
<1>3. m.op = o /\ m.branch = tag[r] /\ ~m.half
  OBVIOUS
<1> HIDE DEF m
<1>4. QED BY <1>1, <1>2, <1>3

LEMMA MarkCalled ==
  ASSUME NEW owner, TypeOK, ScanInv(owner), TextsOwned(owner), SnippetInv(owner),
         NEW r \in Runs, Alone(r), NEW o \in batch[r], CallMark(r, o), UNCHANGED cut,
         \A b \in Branches : \A x :
           (Listed(x, b) \/ \E j \in DOMAIN marking : Late(j, x, b)) /\ Excused(x, b) =>
             Excused(x, b)' \/ (b = tag[r] /\ SameEntry(x, o) /\ o.kind \notin Writes),
         o.kind \in Writes => Excused(o, tag[r])'
  PROVE  /\ ScanInv(owner)' /\ cut' = {}
         /\ MarkCalls(owner)' /\ RowsCachedLate' /\ RowsShown' /\ MarksShown'
         /\ MarksOfRun(r)' /\ DelsAlone(r)'
         /\ \A q \in Runs \ {r} : UNCHANGED <<pc[q], todo[q], batch[q], marked[q]>>
<1>0. PICK n : n = Len(marking) + 1
  OBVIOUS
<1>1. /\ UNCHANGED <<world, tables, pc, scope, plan, todo, marked>>
      /\ batch'[r] = batch[r] \ {o} /\ \A q \in Runs \ {r} : UNCHANGED batch[q]
  BY DEF CallMark, TypeOK
<1>2. /\ n \in DOMAIN marking' /\ marking' \in Seq(MarkCall)
      /\ marking'[n].op = o /\ marking'[n].branch = tag[r] /\ ~marking'[n].half
      /\ \A i \in DOMAIN marking : i \in DOMAIN marking' /\ marking'[i] = marking[i] /\ i < n /\ i > 0
      /\ \A i \in DOMAIN marking' : i \in DOMAIN marking \/ i = n
      /\ n > 0
  BY <1>0, MarkAppended
<1>3. Owns(owner, o) /\ tag[r] \in Branches /\ RunScanned(owner, r) /\ RunSnippets(r)
  BY OpOwned DEF TypeOK, ScanInv, SnippetInv
<1>4. pc[r] = "update"
  BY <1>3 DEF RunScanned, NothingAhead
<1>5. ScanInv(owner)'
  <2>1. RunScanned(owner, r)'
    BY <1>1, <1>3, <1>4 DEF RunScanned, NothingAhead, FilesThere, AddsCurrent, RemovesOwned, OpsPlanned,
       Scanned, TouchesListed, Listed, Unplanned, Exists, Text, Owns
  <2>2. QED BY <1>1, <2>1, RowsStay, OthersRest
<1>6. ASSUME NEW i \in DOMAIN marking
      PROVE  /\ Adds(i)' <=> Adds(i)
             /\ \A x, b : Late(i, x, b)' <=> Late(i, x, b)
  BY <1>2 DEF Adds, Late
<1>7. \A j, x, b : AddedAfter(j, x, b) => AddedAfter(j, x, b)'
  BY <1>2, <1>6 DEF AddedAfter
<1>8. \A j, x, b : RemovedAfter(j, x, b) => RemovedAfter(j, x, b)'
  BY <1>2, <1>6 DEF RemovedAfter
<1>9. ASSUME NEW j, j < n, NEW x, SameEntry(x, o), o.kind \notin Writes
      PROVE  RemovedAfter(j, x, tag[r])'
  <2>1. Late(n, x, tag[r])' /\ ~Adds(n)'
    BY <1>1, <1>2, <1>9 DEF Late, Adds, SameEntry
  <2>2. QED BY <1>1, <1>2, <1>9, <2>1 DEF RemovedAfter
<1>10. MarkCalls(owner)'
  <2>1. \A i \in DOMAIN marking' : Owns(owner, marking'[i].op)
    BY <1>2, <1>3 DEF SnippetInv, MarkCalls, Owns
  <2>2. \A i, j \in DOMAIN marking' : j < i /\ marking'[i].half => marking'[j].half
    <3> SUFFICES ASSUME NEW i \in DOMAIN marking', NEW j \in DOMAIN marking', j < i, marking'[i].half
                 PROVE  marking'[j].half
      OBVIOUS
    <3>1. i \in DOMAIN marking
      BY <1>2
    <3>2. DOMAIN marking = 1 .. Len(marking) /\ DOMAIN marking' = 1 .. Len(marking')
      BY <1>2 DEF SnippetInv, MarkCalls
    <3>3. j \in DOMAIN marking
      BY <1>0, <1>2, <3>1, <3>2
    <3>4. QED BY <1>2, <3>1, <3>3 DEF SnippetInv, MarkCalls
  <2>3. QED BY <1>2, <2>1, <2>2 DEF MarkCalls, Owns
<1>11. RowsCachedLate'
  <2> SUFFICES ASSUME NEW b \in Branches, NEW x \in catalog[b]
               PROVE  /\ <<x.key, b>> \in gcache \/ AddedAfter(0, x, b)'
                      /\ \A j \in DOMAIN marking' : Late(j, x, b)' /\ marking'[j].half /\ ~Adds(j)' =>
                           AddedAfter(j, x, b)'
    BY <1>1 DEF RowsCachedLate
  <2>1. <<x.key, b>> \in gcache \/ AddedAfter(0, x, b)'
    BY <1>7 DEF SnippetInv, RowsCachedLate
  <2>2. ASSUME NEW j \in DOMAIN marking', Late(j, x, b)', marking'[j].half, ~Adds(j)'
        PROVE  AddedAfter(j, x, b)'
    <3>1. j \in DOMAIN marking /\ marking[j].half /\ Late(j, x, b) /\ ~Adds(j)
      BY <1>2, <1>6, <2>2
    <3>2. AddedAfter(j, x, b)
      BY <3>1 DEF SnippetInv, RowsCachedLate
    <3>3. QED BY <1>7, <3>2
  <2>3. QED BY <2>1, <2>2
<1>12. RowsShown'
  <2> SUFFICES ASSUME NEW b \in Branches, NEW x \in catalog[b]
               PROVE  Excused(x, b)' \/ RemovedAfter(0, x, b)'
    BY <1>1 DEF RowsShown
  <2>1. Listed(x, b)
    BY DEF Listed, SameEntry
  <2>2. CASE RemovedAfter(0, x, b)
    BY <1>8, <2>2
  <2>3. CASE Excused(x, b)
    <3>1. CASE b = tag[r] /\ SameEntry(x, o) /\ o.kind \notin Writes
      <4>1. 0 < n
        BY <1>2
      <4>2. QED BY <1>1, <1>9, <3>1, <4>1
    <3>2. QED BY <2>1, <2>3, <3>1
  <2>4. QED BY <2>2, <2>3 DEF SnippetInv, RowsShown
<1>13. MarksShown'
  <2> SUFFICES ASSUME NEW j \in DOMAIN marking', ~marking'[j].half, Adds(j)'
               PROVE  \/ Excused(marking[j].op, marking[j].branch)'
                      \/ RemovedAfter(j, marking[j].op, marking[j].branch)'
    BY DEF MarksShown
  <2>1. CASE j = n
    <3>1. o.kind \in Writes
      BY <1>2, <2>1 DEF Adds
    <3>2. Excused(o, tag[r])'
      BY <3>1
    <3>3. marking'[j].op = o /\ marking'[j].branch = tag'[r]
      BY <1>1, <1>2, <2>1
    <3>4. QED BY <3>2, <3>3
  <2>2. CASE j \in DOMAIN marking
    <3>0. PICK x, b : x = marking[j].op /\ b = marking[j].branch
      OBVIOUS
    <3>1. ~marking[j].half /\ Adds(j)
      BY <1>2, <1>6, <2>2
    <3>2. Late(j, x, b) /\ b \in Branches
      BY <2>2, <3>0, MarkTypes DEF Late, SameEntry, SnippetInv
    <3>3. Excused(x, b) \/ RemovedAfter(j, x, b)
      BY <2>2, <3>0, <3>1 DEF SnippetInv, MarksShown
    <3>4. x = marking'[j].op /\ b = marking'[j].branch
      BY <1>2, <2>2, <3>0
    <3>5. j < n
      BY <1>2, <2>2
    <3>6. Excused(x, b)' \/ RemovedAfter(j, x, b)'
      <4>1. CASE RemovedAfter(j, x, b)
        BY <1>8, <4>1
      <4>2. CASE Excused(x, b)
        <5>1. CASE b = tag[r] /\ SameEntry(x, o) /\ o.kind \notin Writes
          BY <1>1, <1>9, <3>5, <5>1
        <5>2. QED BY <2>2, <3>2, <4>2, <5>1
      <4>3. QED BY <3>3, <4>1, <4>2
    <3>7. QED BY <3>4, <3>6
  <2>3. QED BY <1>2, <2>1, <2>2
<1>14. MarksOfRun(r)'
  <2> SUFFICES ASSUME NEW i \in DOMAIN marking'
               PROVE  /\ marking'[i].branch = tag[r]
                      /\ ~Adds(i)' => ItemOf(marking'[i].op) \in remove[r]
    BY <1>1, <1>4 DEF MarksOfRun
  <2>1. CASE i = n
    BY <1>2, <1>3, <2>1 DEF Adds, RunScanned, OpsPlanned
  <2>2. CASE i \in DOMAIN marking
    <3>1. marking # <<>> /\ Active(r)
      BY <1>4, <2>2 DEF Active
    <3>2. QED BY <1>2, <1>3, <1>6, <2>2, <3>1 DEF RunSnippets, MarksOfRun
  <2>3. QED BY <1>2, <2>1, <2>2
<1>15. DelsAlone(r)'
  BY <1>1, <1>3 DEF RunSnippets, DelsAlone, SnippetInv
<1>16. QED BY <1>1, <1>5, <1>10, <1>11, <1>12, <1>13, <1>14, <1>15 DEF SnippetInv

(* A file whose parts have all been written is shown.                      *)
LEMMA FileWritten ==
  ASSUME NEW owner, TypeOK, ScanInv(owner), TextsOwned(owner), SnippetInv(owner),
         NEW r \in Runs, Alone(r), Written(r), UNCHANGED cut
  PROVE  ScanInv(owner)' /\ SnippetInv(owner)'
<1>1. PICK q \in parsed[r] :
        /\ q.id = 0 /\ q.next > Parts[q.text] /\ CallMark(r, q.op)
        /\ parsed' = [parsed EXCEPT ![r] = {}]
        /\ UNCHANGED <<snippetTables, found, taken>>
  BY DEF Written
<1>2. /\ UNCHANGED <<snippets, snippetTags, found, taken>>
      /\ parsed'[r] = {} /\ (\A p \in Runs \ {r} : UNCHANGED parsed[p]) /\ SnippetDomains'
  BY <1>1 DEF snippetTables, SnippetInv, SnippetDomains
<1>3. /\ RunSnippets(r) /\ PartsWritten(r, q) /\ found[r] = {} /\ parsed[r] = {q}
      /\ tag[r] \in Branches
  <2>1. tag[r] \in Branches
    BY DEF TypeOK
  <2>2. QED BY <2>1 DEF SnippetInv, RunSnippets, SnippetMemory
<1>4. /\ UNCHANGED <<catalog, tag, marked, pc, todo>>
      /\ batch'[r] = batch[r] \ {q.op} /\ (\A p \in Runs \ {r} : UNCHANGED batch[p])
  BY <1>1 DEF CallMark, TypeOK
<1>5. q.op \in batch[r] /\ q.op.kind \in Writes /\ q.op \in Op
  BY <1>3 DEF PartsWritten, TypeOK
<1>6. \A b : Shown(b)' = Shown(b)
  BY <1>2 DEF Shown
<1>7. AllParts(Shown(tag[r]), q.op)
  <2>1. Parts[q.text] \in Nat /\ q.text = q.op.key /\ q.next \in Nat
    BY <1>3, PartsAssumption DEF PartsWritten, Parsing
  <2>2. 1 .. Parts[q.op.key] \subseteq 1 .. q.next - 1
    BY <1>1, <2>1
  <2>3. QED BY <1>3, <2>2 DEF PartsWritten, AllParts
<1>8. Excused(q.op, tag[r])'
  BY <1>4, <1>6, <1>7 DEF Excused, AllParts
<1>9. ASSUME NEW b \in Branches, NEW x, Excused(x, b) PROVE Excused(x, b)'
  <2>1. Worked(x, b, Removes) => Worked(x, b, Removes)'
    <3> SUFFICES ASSUME Worked(x, b, Removes) PROVE Worked(x, b, Removes)'
      OBVIOUS
    <3>1. PICK s \in Runs : tag[s] = b /\ \E u \in batch[s] : u.kind \in Removes /\ SameEntry(x, u)
      BY DEF Worked
    <3>2. PICK u \in batch[s] : u.kind \in Removes /\ SameEntry(x, u)
      BY <3>1
    <3>3. u # q.op
      BY <1>5, <3>2 DEF Removes, Writes
    <3>4. u \in batch'[s] /\ tag'[s] = b
      BY <1>4, <3>1, <3>2, <3>3
    <3>5. QED BY <3>2, <3>4 DEF Worked
  <2>2. BeingWritten(x, b) => BeingWritten(x, b)' \/ (SameEntry(x, q.op) /\ b = tag[r])
    <3> SUFFICES ASSUME NEW s \in Runs, tag[s] = b, NEW u \in parsed[s], SameEntry(x, u.op)
                 PROVE  BeingWritten(x, b)' \/ (SameEntry(x, q.op) /\ b = tag[r])
      BY DEF BeingWritten
    <3>1. CASE s = r
      BY <1>3, <3>1
    <3>2. CASE s # r
      BY <1>2, <1>4, <3>2 DEF BeingWritten
    <3>3. QED BY <3>1, <3>2
  <2>3. AllParts(Shown(b), x) => AllParts(Shown(b), x)'
    BY <1>6 DEF AllParts
  <2>4. SameEntry(x, q.op) /\ b = tag[r] => AllParts(Shown(b), x)'
    <3>1. SameEntry(x, q.op) => SameEntry(q.op, x)
      BY DEF SameEntry
    <3>2. SameEntry(x, q.op) /\ b = tag[r] => AllParts(Shown(b), x)
      BY <1>7, <3>1, SameParts
    <3>3. QED BY <2>3, <3>2
  <2>5. QED BY <1>2, <1>9, <2>1, <2>2, <2>3, <2>4 DEF Excused
<1>10. SnippetMemory(r)'
  BY <1>2, <1>3, <1>4 DEF RunSnippets, SnippetMemory
<1>11. SnippetIds'
  BY <1>2 DEF SnippetInv, SnippetIds
<1>12. /\ ScanInv(owner)' /\ cut' = {}
       /\ MarkCalls(owner)' /\ RowsCachedLate' /\ RowsShown' /\ MarksShown'
       /\ MarksOfRun(r)' /\ DelsAlone(r)'
  BY <1>1, <1>5, <1>8, <1>9, MarkCalled
<1>13. QED BY <1>2, <1>4, <1>10, <1>11, <1>12, OtherSnippetsRest DEF SnippetInv, RunSnippets

(* The rows of a version removed go, and a call to mark it is under way.   *)
LEMMA SnippetTagsDeleted ==
  ASSUME NEW owner, TypeOK, ScanInv(owner), TextsOwned(owner), SnippetInv(owner),
         NEW r \in Runs, Alone(r), UNCHANGED cut,
         DeleteSnippetTags(r) \/ \E o \in batch[r] : RemoveSnippetTag(r, o)
  PROVE  ScanInv(owner)' /\ SnippetInv(owner)'
<1>1. PICK o \in batch[r] :
        /\ CallMark(r, o) /\ o.kind \notin Writes
        /\ UNCHANGED <<snippets, parsed, taken>> /\ parsed[r] = {} /\ found'[r] = {}
        /\ \A p \in Runs \ {r} : UNCHANGED found[p]
        /\ DOMAIN found' = Runs
        /\ \A b : \A s \in Shown(b) : s \in Shown(b)' \/ (b = tag[r] /\ SameFile(s, o))
  <2>1. RunSnippets(r) /\ SnippetDomains
    BY DEF SnippetInv
  <2>2. CASE DeleteSnippetTags(r)
    <3>1. PICK f \in found[r] :
            /\ snippetTags' = {t \in snippetTags : t[1] \notin f.ids}
            /\ found' = [found EXCEPT ![r] = {}]
            /\ CallMark(r, f.op)
            /\ UNCHANGED <<snippets, parsed, taken>>
      BY <2>2 DEF DeleteSnippetTags
    <3>2. /\ f.op \in batch[r] /\ f.op.kind = "del" /\ parsed[r] = {}
          /\ \A x \in snippets : x.id \notin f.ids
      BY <2>1 DEF RunSnippets, SnippetMemory
    <3>3. \A b : \A s \in Shown(b) : s \in Shown(b)'
      BY <3>1, <3>2 DEF Shown
    <3>4. QED BY <2>1, <3>1, <3>2, <3>3 DEF Writes, SnippetDomains
  <2>3. ASSUME NEW o \in batch[r], RemoveSnippetTag(r, o)
        PROVE  /\ CallMark(r, o) /\ o.kind \notin Writes
               /\ UNCHANGED <<snippets, parsed, taken, found>> /\ parsed[r] = {} /\ found[r] = {}
               /\ \A b : \A s \in Shown(b) : s \in Shown(b)' \/ (b = tag[r] /\ SameFile(s, o))
    <3>1. /\ CallMark(r, o) /\ o.kind = "removeTag"
          /\ UNCHANGED <<snippets, parsed, taken, found>> /\ parsed[r] = {} /\ found[r] = {}
          /\ \/ UNCHANGED snippetTags
             \/ \E i \in IdsOf(o) : snippetTags' = snippetTags \ {<<i, tag[r]>>}
      BY <2>3 DEF RemoveSnippetTag, Turn
    <3>2. ASSUME NEW i \in IdsOf(o), snippetTags' = snippetTags \ {<<i, tag[r]>>},
                 NEW b, NEW s \in Shown(b)
          PROVE  s \in Shown(b)' \/ (b = tag[r] /\ SameFile(s, o))
      <4>1. CASE <<s.id, b>> # <<i, tag[r]>>
        BY <3>1, <3>2, <4>1 DEF Shown
      <4>2. CASE <<s.id, b>> = <<i, tag[r]>>
        <5>1. PICK y \in snippets : SameFile(y, o) /\ y.id = i
          BY DEF IdsOf
        <5>2. s = y /\ b = tag[r]
          BY <4>2, <5>1 DEF Shown, SnippetInv, SnippetIds
        <5>3. QED BY <5>1, <5>2
      <4>3. QED BY <4>1, <4>2
    <3>3. UNCHANGED snippetTags => \A b : \A s \in Shown(b) : s \in Shown(b)'
      BY <3>1 DEF Shown
    <3>4. QED BY <3>1, <3>2, <3>3 DEF Writes
  <2>4. CASE \E o \in batch[r] : RemoveSnippetTag(r, o)
    <3>1. PICK o \in batch[r] : RemoveSnippetTag(r, o)
      BY <2>4
    <3>2. QED BY <2>1, <2>3, <3>1 DEF SnippetDomains
  <2>5. QED BY <2>2, <2>4
<1>2. /\ UNCHANGED <<catalog, tag, marked, pc, todo>>
      /\ batch'[r] = batch[r] \ {o} /\ (\A p \in Runs \ {r} : UNCHANGED batch[p])
  BY <1>1 DEF CallMark, TypeOK
<1>3. RunSnippets(r)
  BY DEF SnippetInv
<1>4. ASSUME NEW b \in Branches, NEW x, Excused(x, b), ~(b = tag[r] /\ SameEntry(x, o))
      PROVE  Excused(x, b)'
  <2>1. Worked(x, b, Removes) => Worked(x, b, Removes)'
    <3> SUFFICES ASSUME Worked(x, b, Removes) PROVE Worked(x, b, Removes)'
      OBVIOUS
    <3>1. PICK s \in Runs : tag[s] = b /\ \E u \in batch[s] : u.kind \in Removes /\ SameEntry(x, u)
      BY DEF Worked
    <3>2. PICK u \in batch[s] : u.kind \in Removes /\ SameEntry(x, u)
      BY <3>1
    <3>3. u \in batch'[s] /\ tag'[s] = b
      BY <1>2, <1>4, <3>1, <3>2
    <3>4. QED BY <3>2, <3>3 DEF Worked
  <2>2. BeingWritten(x, b) => BeingWritten(x, b)'
    BY <1>1, <1>2 DEF BeingWritten
  <2>3. AllParts(Shown(b), x) => AllParts(Shown(b), x)'
    <3>1. \A s \in Shown(b) : SameFile(s, x) => s \in Shown(b)'
      BY <1>1, <1>4 DEF SameFile, SameEntry
    <3>2. QED BY <3>1 DEF AllParts
  <2>4. QED BY <1>1, <1>4, <2>1, <2>2, <2>3 DEF Excused
<1>5. SnippetMemory(r)'
  BY <1>1, <1>2, <1>3 DEF RunSnippets, SnippetMemory
<1>6. SnippetIds' /\ SnippetDomains'
  BY <1>1 DEF SnippetInv, SnippetIds, SnippetDomains
<1>7. /\ ScanInv(owner)' /\ cut' = {}
      /\ MarkCalls(owner)' /\ RowsCachedLate' /\ RowsShown' /\ MarksShown'
      /\ MarksOfRun(r)' /\ DelsAlone(r)'
  BY <1>1, <1>4, MarkCalled
<1>8. QED BY <1>1, <1>2, <1>5, <1>6, <1>7, OtherSnippetsRest DEF SnippetInv, RunSnippets

(* The first half of the first mark that has not had it.                   *)
LEMMA RowMarked ==
  ASSUME NEW owner, TypeOK, ScanInv(owner), SnippetInv(owner),
         NEW i \in DOMAIN marking, MarkRowLate(i), UNCHANGED cut
  PROVE  ScanInv(owner)' /\ SnippetInv(owner)'
<1>0. PICK o, c, t : o = marking[i].op /\ c = marking[i].branch /\ t = marking[i].last
  OBVIOUS
<1>1. /\ ~marking[i].half /\ \A j \in 1 .. i - 1 : marking[j].half
      /\ catalog' = [catalog EXCEPT ![c] = MarkRow(@, o, t)]
      /\ marking' = [marking EXCEPT ![i].half = TRUE]
      /\ UNCHANGED <<world, gcache, memory, snippets, snippetTags, parsed, found, taken>>
  BY <1>0 DEF MarkRowLate, snippetTables, snippetMemory
<1>2. /\ marking \in Seq(MarkCall) /\ marking[i] \in MarkCall /\ i \in Nat \ {0}
      /\ Owns(owner, o) /\ c \in Branches /\ MarkCalls(owner)
  <2>1. MarkCalls(owner)
    BY DEF SnippetInv
  <2>2. QED BY <1>0, <2>1, MarkTypes DEF MarkCalls
<1>3. \A j \in DOMAIN marking : j \in Nat \ {0} /\ marking[j] \in MarkCall /\ (marking[j].half <=> j < i)
  <2> SUFFICES ASSUME NEW j \in DOMAIN marking PROVE marking[j].half <=> j < i
    BY <1>2, MarkTypes
  <2>1. j \in Nat \ {0}
    BY <1>2, MarkTypes
  <2>2. CASE j < i
    BY <1>1, <1>2, <2>1, <2>2
  <2>3. CASE j = i
    BY <1>1, <1>2, <2>3
  <2>4. CASE i < j
    BY <1>1, <1>2, <2>1, <2>4 DEF MarkCalls
  <2>5. QED BY <1>2, <2>1, <2>2, <2>3, <2>4
<1>4. /\ DOMAIN marking' = DOMAIN marking /\ marking' \in Seq(MarkCall)
      /\ \A j \in DOMAIN marking : /\ marking'[j].op = marking[j].op
                                   /\ marking'[j].branch = marking[j].branch
                                   /\ marking'[j].half <=> j = i \/ marking[j].half
  <2>1. [marking[i] EXCEPT !.half = TRUE] \in MarkCall
    BY <1>2 DEF MarkCall
  <2>2. \A j \in DOMAIN marking : marking[j] \in MarkCall
    BY <1>2
  <2>3. marking' \in Seq(MarkCall) /\ DOMAIN marking' = DOMAIN marking
    BY <1>1, <1>2, <2>1
  <2>4. QED BY <1>1, <1>2, <2>2, <2>3 DEF MarkCall
<1>5. /\ RowsOwned(owner)' /\ RowsUnique'
      /\ \A b \in Branches \ {c} : catalog'[b] = catalog[b]
      /\ \A x : Listed(x, c)' <=> \/ Listed(x, c) /\ ~SameEntry(x, o)
                                  \/ o.kind \in Writes /\ SameEntry(x, o)
  BY <1>1, <1>2, MarkedRows DEF ScanInv
<1>6. ASSUME NEW r \in Runs, Active(r)
      PROVE  pc[r] = "update" /\ c = tag[r] /\ (~Adds(i) => ItemOf(o) \in remove[r])
  <2>1. marking # <<>>
    BY <1>2
  <2>2. QED BY <1>0, <1>6, <2>1 DEF SnippetInv, RunSnippets, MarksOfRun
<1>7. ScanInv(owner)'
  <2>1. ASSUME NEW r \in Runs, Active(r) PROVE RunScanned(owner, r)'
    <3>1. RunScanned(owner, r) /\ pc[r] = "update"
      BY <1>6, <2>1 DEF ScanInv
    <3>2. /\ NothingAhead(r)' /\ FilesThere(r)' /\ AddsCurrent(r)' /\ RemovesOwned(owner, r)'
          /\ OpsPlanned(r)' /\ Scanned(r)'
      BY <1>1, <1>6, <2>1, <3>1 DEF RunScanned, NothingAhead, FilesThere, AddsCurrent, RemovesOwned,
         OpsPlanned, Scanned, Unplanned, Exists, Text, Owns
    <3>3. TouchesListed(r)'
      <4> SUFFICES ASSUME NEW k \in touch[r] PROVE k \notin remove[r] /\ Listed(k, tag[r])'
        BY <1>1 DEF TouchesListed, Listed
      <4>1. k \notin remove[r] /\ Listed(k, tag[r]) /\ k \in Item
        BY <3>1 DEF RunScanned, TouchesListed, TypeOK
      <4>2. o.kind \notin Writes => ItemOf(o) \in remove[r]
        BY <1>0, <1>6, <2>1 DEF Adds
      <4>3. o.kind \notin Writes => ~SameEntry(k, o)
        BY <4>1, <4>2 DEF SameEntry, ItemOf, Item
      <4>4. QED BY <1>1, <1>5, <1>6, <2>1, <4>1, <4>3 DEF Listed
    <3>4. QED BY <3>2, <3>3 DEF RunScanned
  <2>2. ASSUME NEW r \in Runs, ~Active(r) PROVE RunScanned(owner, r)'
    <3>1. Blank(r)'
      BY <1>1, <2>2, BlankIsScanned DEF ScanInv, Blank
    <3>2. QED BY <3>1 DEF Blank, RunScanned, NothingAhead, FilesThere, AddsCurrent, RemovesOwned,
                          OpsPlanned, Scanned, TouchesListed, Unplanned
  <2>3. OneRun'
    BY <1>1 DEF ScanInv, OneRun, Active
  <2>4. QED BY <1>5, <2>1, <2>2, <2>3 DEF ScanInv
<1>8. /\ \A x, b : Excused(x, b)' <=> Excused(x, b)
      /\ \A j, x, b : Late(j, x, b)' <=> Late(j, x, b)
      /\ \A j \in DOMAIN marking : Adds(j)' <=> Adds(j)
  <2>1. \A x, b : Excused(x, b)' <=> Excused(x, b)
    BY <1>1 DEF Excused, BeingWritten, Worked, AllParts, Shown
  <2>2. QED BY <1>4, <2>1 DEF Late, Adds
<1>9. \A j, x, b : AddedAfter(j, x, b) => AddedAfter(j, x, b)'
  BY <1>4, <1>8 DEF AddedAfter
<1>10. ASSUME NEW j, NEW x, NEW b, NEW k \in DOMAIN marking, k > j, Late(k, x, b), k # i,
              ~marking[k].half, ~Adds(k)
       PROVE  RemovedAfter(j, x, b)'
  BY <1>4, <1>8, <1>10 DEF RemovedAfter
<1>11. Late(i, o, c) /\ (Adds(i) <=> o.kind \in Writes)
  BY <1>0 DEF Late, SameEntry, Adds
<1>12. ASSUME NEW b \in Branches, NEW x \in catalog'[b]
       PROVE  \/ Late(i, x, b) /\ Adds(i) /\ b = c /\ SameEntry(o, x)
              \/ ~Late(i, x, b) /\ \E y \in catalog[b] : SameEntry(y, x)
  <2>1. Listed(x, b)'
    BY DEF Listed, SameEntry
  <2>2. Late(i, x, b) <=> b = c /\ SameEntry(o, x)
    BY <1>0 DEF Late
  <2>3. SameEntry(o, x) <=> SameEntry(x, o)
    BY DEF SameEntry
  <2>4. CASE b # c
    <3>1. x \in catalog[b]
      BY <1>5, <2>4
    <3>2. QED BY <2>2, <2>4, <3>1 DEF SameEntry
  <2>5. CASE b = c
    BY <1>5, <1>11, <2>1, <2>2, <2>3, <2>5 DEF Listed
  <2>6. QED BY <2>4, <2>5
<1>13. ASSUME NEW x, NEW y, SameEntry(y, x), NEW b
       PROVE  /\ x.key = y.key
              /\ \A k : Late(k, x, b) <=> Late(k, y, b)
              /\ \A j : AddedAfter(j, x, b) <=> AddedAfter(j, y, b)
  BY <1>13 DEF SameEntry, Late, AddedAfter
<1>14. MarkCalls(owner)'
  <2>1. \A j \in DOMAIN marking' : Owns(owner, marking'[j].op)
    BY <1>2, <1>4 DEF MarkCalls, Owns
  <2>2. \A k, j \in DOMAIN marking' : j < k /\ marking'[k].half => marking'[j].half
    BY <1>2, <1>3, <1>4
  <2>3. QED BY <1>4, <2>1, <2>2 DEF MarkCalls, Owns
<1>15. RowsCachedLate'
  <2> SUFFICES ASSUME NEW b \in Branches, NEW x \in catalog'[b]
               PROVE  /\ <<x.key, b>> \in gcache \/ AddedAfter(0, x, b)'
                      /\ \A j \in DOMAIN marking' : Late(j, x, b)' /\ marking'[j].half /\ ~Adds(j)' =>
                           AddedAfter(j, x, b)'
    BY <1>1 DEF RowsCachedLate
  <2>1. CASE Late(i, x, b) /\ Adds(i)
    <3>1. ASSUME NEW j, j < i PROVE AddedAfter(j, x, b)'
      BY <1>2, <1>4, <1>8, <2>1, <3>1 DEF AddedAfter
    <3>2. QED BY <1>2, <1>3, <1>4, <1>8, <2>1, <3>1
  <2>2. CASE ~Late(i, x, b) /\ \E y \in catalog[b] : SameEntry(y, x)
    <3>1. PICK y \in catalog[b] : SameEntry(y, x)
      BY <2>2
    <3>2. /\ <<y.key, b>> \in gcache \/ AddedAfter(0, y, b)
          /\ \A j \in DOMAIN marking : Late(j, y, b) /\ marking[j].half /\ ~Adds(j) => AddedAfter(j, y, b)
      BY DEF SnippetInv, RowsCachedLate
    <3>3. <<x.key, b>> \in gcache \/ AddedAfter(0, x, b)'
      BY <1>9, <1>13, <3>1, <3>2
    <3>4. ASSUME NEW j \in DOMAIN marking', Late(j, x, b)', marking'[j].half, ~Adds(j)'
          PROVE  AddedAfter(j, x, b)'
      <4>1. j \in DOMAIN marking /\ Late(j, x, b) /\ ~Adds(j) /\ j # i
        BY <1>4, <1>8, <2>2, <3>4
      <4>2. marking[j].half /\ Late(j, y, b)
        BY <1>4, <1>13, <3>1, <3>4, <4>1
      <4>3. QED BY <1>9, <1>13, <3>1, <3>2, <4>1, <4>2
    <3>5. QED BY <3>3, <3>4
  <2>3. QED BY <1>12, <2>1, <2>2
<1>16. RowsShown'
  <2> SUFFICES ASSUME NEW b \in Branches, NEW x \in catalog'[b]
               PROVE  Excused(x, b)' \/ RemovedAfter(0, x, b)'
    BY DEF RowsShown
  <2>1. CASE Late(i, x, b) /\ Adds(i) /\ b = c /\ SameEntry(o, x)
    <3>1. Excused(o, c) \/ RemovedAfter(i, o, c)
      BY <1>0, <1>1, <2>1 DEF SnippetInv, MarksShown
    <3>2. CASE Excused(o, c)
      BY <1>8, <2>1, <3>2, ExcusedAlike
    <3>3. CASE RemovedAfter(i, o, c)
      <4>1. PICK k \in DOMAIN marking : k > i /\ Late(k, o, c) /\ ~marking[k].half /\ ~Adds(k)
        BY <3>3 DEF RemovedAfter
      <4>2. Late(k, x, b) /\ k > 0 /\ k # i
        BY <1>2, <1>3, <1>13, <2>1, <4>1
      <4>3. QED BY <1>10, <4>1, <4>2
    <3>4. QED BY <3>1, <3>2, <3>3
  <2>2. CASE ~Late(i, x, b) /\ \E y \in catalog[b] : SameEntry(y, x)
    <3>1. PICK y \in catalog[b] : SameEntry(y, x)
      BY <2>2
    <3>2. Excused(y, b) \/ RemovedAfter(0, y, b)
      BY DEF SnippetInv, RowsShown
    <3>3. CASE Excused(y, b)
      BY <1>8, <3>1, <3>3, ExcusedAlike
    <3>4. CASE RemovedAfter(0, y, b)
      <4>1. PICK k \in DOMAIN marking : k > 0 /\ Late(k, y, b) /\ ~marking[k].half /\ ~Adds(k)
        BY <3>4 DEF RemovedAfter
      <4>2. Late(k, x, b) /\ k # i
        BY <1>13, <2>2, <3>1, <4>1
      <4>3. QED BY <1>10, <4>1, <4>2
    <3>5. QED BY <3>2, <3>3, <3>4
  <2>3. QED BY <1>12, <2>1, <2>2
<1>17. MarksShown'
  <2> SUFFICES ASSUME NEW j \in DOMAIN marking, j # i, ~marking[j].half, Adds(j),
                      NEW x, NEW b, x = marking[j].op, b = marking[j].branch
               PROVE  Excused(x, b)' \/ RemovedAfter(j, x, b)'
    BY <1>4, <1>8 DEF MarksShown
  <2>1. Excused(x, b) \/ RemovedAfter(j, x, b)
    BY DEF SnippetInv, MarksShown
  <2>2. CASE RemovedAfter(j, x, b)
    <3>1. PICK k \in DOMAIN marking : k > j /\ Late(k, x, b) /\ ~marking[k].half /\ ~Adds(k)
      BY <2>2 DEF RemovedAfter
    <3>2. k # i
      BY <1>2, <1>3, <3>1
    <3>3. QED BY <1>10, <3>1, <3>2
  <2>3. QED BY <1>8, <2>1, <2>2
<1>18. ASSUME NEW r \in Runs PROVE RunSnippets(r)'
  <2>1. RunSnippets(r)
    BY DEF SnippetInv
  <2>2. SnippetMemory(r)'
    BY <1>1, <2>1 DEF RunSnippets, SnippetMemory, PartsWritten, Shown
  <2>3. MarksOfRun(r)'
    BY <1>1, <1>2, <1>4, <1>8, <2>1 DEF RunSnippets, MarksOfRun, Active
  <2>4. DelsAlone(r)'
    <3>1. CASE NoOps(r)
      BY <1>1, <3>1 DEF NoOps, DelsAlone
    <3>2. CASE ~NoOps(r)
      <4>1. c = tag[r]
        BY <1>6, <3>2, RestingOps
      <4>2. QED BY <1>1, <1>5, <2>1, <4>1 DEF RunSnippets, DelsAlone, SnippetInv
    <3>3. QED BY <3>1, <3>2
  <2>5. QED BY <2>2, <2>3, <2>4 DEF RunSnippets
<1>19. SnippetIds' /\ SnippetDomains' /\ cut' = {}
  BY <1>1 DEF SnippetInv, SnippetIds, SnippetDomains
<1>20. QED BY <1>7, <1>14, <1>15, <1>16, <1>17, <1>18, <1>19 DEF SnippetInv

(* The second half of the oldest mark.                                     *)
LEMMA CacheMarked ==
  ASSUME NEW owner, ScanInv(owner), SnippetInv(owner), MarkCacheLate, UNCHANGED cut
  PROVE  ScanInv(owner)' /\ SnippetInv(owner)'
<1>0. PICK o, c : o = marking[1].op /\ c = marking[1].branch
  OBVIOUS
<1>1. /\ marking # <<>> /\ marking \in Seq(MarkCall) /\ marking[1].half
      /\ gcache' = MarkCache(gcache, o, c) /\ marking' = Tail(marking)
      /\ UNCHANGED <<world, catalog, memory, snippets, snippetTags, parsed, found, taken>>
  BY <1>0 DEF MarkCacheLate, SnippetInv, MarkCalls, snippetTables, snippetMemory
<1>2. /\ \A j \in DOMAIN marking' : /\ j \in Nat \ {0} /\ j + 1 \in DOMAIN marking
                                    /\ marking'[j] = marking[j + 1]
      /\ \A k \in DOMAIN marking : k \in Nat \ {0} /\ (k # 1 => k - 1 \in DOMAIN marking')
      /\ 1 \in DOMAIN marking /\ marking' \in Seq(MarkCall)
  BY <1>1
<1>3. Owns(owner, o) /\ MarkCalls(owner)
  BY <1>0, <1>2 DEF SnippetInv, MarkCalls
<1>4. ScanInv(owner)'
  BY <1>1 DEF ScanInv, OneRun, RowsOwned, RowsUnique, RunScanned, NothingAhead, FilesThere, AddsCurrent,
     RemovesOwned, OpsPlanned, Scanned, TouchesListed, Listed, Active, Exists, Text, Owns
<1>5. ASSUME NEW j \in DOMAIN marking'
      PROVE  /\ Adds(j)' <=> Adds(j + 1)
             /\ \A x, b : Late(j, x, b)' <=> Late(j + 1, x, b)
  BY <1>2 DEF Adds, Late
<1>6. ASSUME NEW k \in DOMAIN marking, k # 1
      PROVE  /\ k - 1 \in DOMAIN marking' /\ marking'[k - 1] = marking[k]
             /\ Adds(k - 1)' <=> Adds(k)
             /\ \A x, b : Late(k - 1, x, b)' <=> Late(k, x, b)
  <2>1. k - 1 \in DOMAIN marking' /\ (k - 1) + 1 = k
    BY <1>2, <1>6
  <2>2. QED BY <1>2, <1>5, <2>1
<1>7. ASSUME NEW j \in Nat, NEW x, NEW b
      PROVE  /\ AddedAfter(j + 1, x, b) => AddedAfter(j, x, b)'
             /\ RemovedAfter(j + 1, x, b) => RemovedAfter(j, x, b)'
  <2>1. \A k \in DOMAIN marking : k > j + 1 => k # 1 /\ k - 1 > j
    BY <1>2
  <2>2. AddedAfter(j + 1, x, b) => AddedAfter(j, x, b)'
    BY <1>6, <2>1 DEF AddedAfter
  <2>3. RemovedAfter(j + 1, x, b) => RemovedAfter(j, x, b)'
    BY <1>6, <2>1 DEF RemovedAfter
  <2>4. QED BY <2>2, <2>3
<1>8. \A x, b : Excused(x, b)' <=> Excused(x, b)
  BY <1>1 DEF Excused, BeingWritten, Worked, AllParts, Shown
<1>9. MarkCalls(owner)'
  <2>1. \A j \in DOMAIN marking' : Owns(owner, marking'[j].op)
    BY <1>2, <1>3 DEF MarkCalls
  <2>2. \A k, j \in DOMAIN marking' : j < k /\ marking'[k].half => marking'[j].half
    <3> SUFFICES ASSUME NEW k \in DOMAIN marking', NEW j \in DOMAIN marking', j < k, marking'[k].half
                 PROVE  marking'[j].half
      OBVIOUS
    <3>1. j + 1 \in DOMAIN marking /\ k + 1 \in DOMAIN marking /\ j + 1 < k + 1
      BY <1>2
    <3>2. marking[k + 1].half
      BY <1>2
    <3>3. marking[j + 1].half
      BY <1>3, <3>1, <3>2 DEF MarkCalls
    <3>4. QED BY <1>2, <3>3
  <2>3. QED BY <1>2, <2>1, <2>2 DEF MarkCalls, Owns
<1>10. RowsCachedLate'
  <2> SUFFICES ASSUME NEW b \in Branches, NEW x \in catalog[b]
               PROVE  /\ <<x.key, b>> \in gcache' \/ AddedAfter(0, x, b)'
                      /\ \A j \in DOMAIN marking' : Late(j, x, b)' /\ marking'[j].half /\ ~Adds(j)' =>
                           AddedAfter(j, x, b)'
    BY <1>1 DEF RowsCachedLate
  <2>1. /\ <<x.key, b>> \in gcache \/ AddedAfter(0, x, b)
        /\ \A j \in DOMAIN marking : Late(j, x, b) /\ marking[j].half /\ ~Adds(j) => AddedAfter(j, x, b)
    BY DEF SnippetInv, RowsCachedLate
  <2>2. ASSUME NEW j \in DOMAIN marking', Late(j, x, b)', marking'[j].half, ~Adds(j)'
        PROVE  AddedAfter(j, x, b)'
    <3>1. j + 1 \in DOMAIN marking /\ Late(j + 1, x, b) /\ marking[j + 1].half /\ ~Adds(j + 1)
      BY <1>2, <1>5, <2>2
    <3>2. QED BY <1>2, <1>7, <2>1, <3>1
  <2>3. AddedAfter(1, x, b) => AddedAfter(0, x, b)'
    BY <1>7
  <2>4. <<x.key, b>> \in gcache' \/ AddedAfter(0, x, b)'
    <3>4. CASE <<x.key, b>> \in gcache
      <4>1. CASE <<x.key, b>> \in gcache'
        BY <4>1
      <4>2. CASE <<x.key, b>> \notin gcache'
        <5>1. o.kind \notin Writes /\ o.key = x.key /\ c = b
          BY <1>1, <3>4, <4>2 DEF MarkCache, Writes
        <5>2. Owns(owner, x)
          BY DEF ScanInv, RowsOwned
        <5>3. SameEntry(o, x)
          BY <1>3, <5>1, <5>2 DEF Owns, SameEntry
        <5>4. Late(1, x, b) /\ ~Adds(1)
          BY <1>0, <1>2, <5>1, <5>3 DEF Late, Adds
        <5>5. QED BY <1>1, <1>2, <2>1, <2>3, <5>4
      <4>3. QED BY <4>1, <4>2
    <3>5. CASE AddedAfter(0, x, b)
      <4>1. PICK k \in DOMAIN marking : k > 0 /\ Late(k, x, b) /\ marking[k].half /\ Adds(k)
        BY <3>5 DEF AddedAfter
      <4>2. CASE k = 1
        <5>1. o.key = x.key /\ c = b /\ o.kind \in Writes
          BY <1>0, <4>1, <4>2 DEF Late, Adds, SameEntry
        <5>2. QED BY <1>1, <5>1 DEF MarkCache, Writes
      <4>3. CASE k # 1
        <5>1. k > 1
          BY <1>2, <4>1, <4>3
        <5>2. QED BY <2>3, <4>1, <5>1 DEF AddedAfter
      <4>4. QED BY <4>2, <4>3
    <3>6. QED BY <2>1, <3>4, <3>5
  <2>5. QED BY <2>2, <2>4
<1>11. RowsShown'
  <2> SUFFICES ASSUME NEW b \in Branches, NEW x \in catalog[b]
               PROVE  Excused(x, b) \/ RemovedAfter(0, x, b)'
    BY <1>1, <1>8 DEF RowsShown
  <2>1. RemovedAfter(0, x, b) => RemovedAfter(1, x, b)
    BY <1>1, <1>2 DEF RemovedAfter
  <2>2. QED BY <1>7, <2>1 DEF SnippetInv, RowsShown
<1>12. MarksShown'
  <2> SUFFICES ASSUME NEW j \in DOMAIN marking', ~marking[j + 1].half, Adds(j + 1),
                      NEW x, NEW b, x = marking[j + 1].op, b = marking[j + 1].branch
               PROVE  Excused(x, b) \/ RemovedAfter(j, x, b)'
    BY <1>2, <1>5, <1>8 DEF MarksShown
  <2>1. Excused(x, b) \/ RemovedAfter(j + 1, x, b)
    BY <1>2 DEF SnippetInv, MarksShown
  <2>2. QED BY <1>2, <1>7, <2>1
<1>13. ASSUME NEW r \in Runs PROVE RunSnippets(r)'
  <2>1. RunSnippets(r)
    BY DEF SnippetInv
  <2>2. SnippetMemory(r)'
    BY <1>1, <2>1 DEF RunSnippets, SnippetMemory, PartsWritten, Shown
  <2>3. MarksOfRun(r)'
    BY <1>1, <1>2, <1>5, <2>1 DEF RunSnippets, MarksOfRun, Active
  <2>4. DelsAlone(r)'
    BY <1>1, <2>1 DEF RunSnippets, DelsAlone, SnippetInv
  <2>5. QED BY <2>2, <2>3, <2>4 DEF RunSnippets
<1>14. SnippetIds' /\ SnippetDomains' /\ cut' = {}
  BY <1>1 DEF SnippetInv, SnippetIds, SnippetDomains
<1>15. QED BY <1>4, <1>9, <1>10, <1>11, <1>12, <1>13, <1>14 DEF SnippetInv

LEMMA SnippetsRest ==
  ASSUME NEW owner, SnippetInv(owner),
         UNCHANGED <<catalog, gcache, pc, tag, remove, todo, batch, marked, snippetVars, cut>>
  PROVE  SnippetInv(owner)'
<1>1. UNCHANGED <<snippets, snippetTags, parsed, found, marking, taken>>
  BY DEF snippetVars, snippetTables, snippetMemory
<1>2. /\ \A x, b : Excused(x, b)' <=> Excused(x, b)
      /\ \A j, x, b : AddedAfter(j, x, b)' <=> AddedAfter(j, x, b)
      /\ \A j, x, b : RemovedAfter(j, x, b)' <=> RemovedAfter(j, x, b)
  BY <1>1 DEF Excused, BeingWritten, Worked, AllParts, Shown, AddedAfter, RemovedAfter, Late, Adds
<1>3. RowsCachedLate' /\ RowsShown' /\ MarksShown'
  BY <1>1, <1>2 DEF SnippetInv, RowsCachedLate, RowsShown, MarksShown, Late, Adds
<1>4. MarkCalls(owner)' /\ SnippetIds' /\ SnippetDomains'
  BY <1>1 DEF SnippetInv, MarkCalls, SnippetIds, SnippetDomains, Owns
<1>5. ASSUME NEW r \in Runs PROVE RunSnippets(r)'
  BY <1>1 DEF SnippetInv, RunSnippets, SnippetMemory, PartsWritten, Shown, MarksOfRun, DelsAlone, Active,
     Adds
<1>6. QED BY <1>3, <1>4, <1>5 DEF SnippetInv

(* The plan does not change with the tables.                               *)
LEMMA ScanRests ==
  ASSUME NEW owner, ScanInv(owner), UNCHANGED <<vars, cut>>
  PROVE  ScanInv(owner)'
  BY DEF ScanInv, OneRun, RowsOwned, RowsUnique, RunScanned, NothingAhead, FilesThere, AddsCurrent,
         RemovesOwned, OpsPlanned, Scanned, TouchesListed, Listed, Active, Exists, Text, Owns, vars

SnippetsFollow(owner) == TypeOK /\ ScanInv(owner) /\ SnippetInv(owner)

LEMMA SnippetType ==
  ASSUME NEW owner, SnippetsFollow(owner), [SnippetNext]_<<vars, snippetVars>>
  PROVE  TypeOK'
<1>1. ASSUME [Next]_vars PROVE TypeOK'
  BY <1>1, NextType DEF SnippetsFollow
<1>2. ASSUME NEW r \in Runs, NEW o, CallMark(r, o) PROVE TypeOK'
  BY <1>2 DEF CallMark, SnippetsFollow, TypeOK
<1>3. ASSUME NEW r \in Runs, SnippetStep(r) PROVE TypeOK'
  <2>1. CASE PlanStep(r)
    BY <1>1, <2>1, PlanStepIsNext
  <2>2. CASE ReplaceSnippet(r) \/ ReplaceTag(r)
    BY <1>1, <2>2 DEF ReplaceSnippet, ReplaceTag
  <2>3. CASE Written(r) \/ DeleteSnippetTags(r)
    BY <1>2, <2>3 DEF Written, DeleteSnippetTags
  <2>4. ASSUME NEW o, Parse(r, o) \/ DeleteSnippets(r, o) \/ RemoveSnippetTag(r, o) PROVE TypeOK'
    BY <1>1, <1>2, <2>4 DEF Parse, DeleteSnippets, RemoveSnippetTag
  <2>5. QED BY <1>3, <2>1, <2>2, <2>3, <2>4 DEF SnippetStep, PlanStep
<1>4. ASSUME NEW i \in DOMAIN marking PROVE marking[i].op \in Op /\ marking[i].branch \in Branches
                                            /\ marking[i].last \in Nat
  BY MarkTypes DEF SnippetsFollow, SnippetInv
<1>5. ASSUME NEW i \in DOMAIN marking, MarkRowLate(i) PROVE TypeOK'
  <2>1. \A rows \in SUBSET Row : MarkRow(rows, marking[i].op, marking[i].last) \in SUBSET Row
    BY <1>4, MarkRowType
  <2>2. /\ catalog' = [catalog EXCEPT ![marking[i].branch] = MarkRow(@, marking[i].op, marking[i].last)]
        /\ UNCHANGED <<world, gcache, memory>>
    BY <1>5 DEF MarkRowLate
  <2>3. catalog' \in [Branches -> SUBSET Row]
    BY <2>1, <2>2 DEF SnippetsFollow, TypeOK
  <2>4. QED BY <2>2, <2>3 DEF SnippetsFollow, TypeOK
<1>6. ASSUME MarkCacheLate PROVE TypeOK'
  <2>1. 1 \in DOMAIN marking /\ Head(marking) = marking[1]
    BY <1>6 DEF MarkCacheLate, SnippetsFollow, SnippetInv, MarkCalls
  <2>2. /\ gcache' = MarkCache(gcache, marking[1].op, marking[1].branch)
        /\ UNCHANGED <<world, catalog, memory>>
    BY <1>6, <2>1 DEF MarkCacheLate
  <2>3. marking[1].op.key \in Contents /\ marking[1].branch \in Branches
    BY <1>4, <2>1 DEF Op
  <2>4. gcache' \in SUBSET (Contents \X Branches)
    BY <2>2, <2>3 DEF MarkCache, SnippetsFollow, TypeOK
  <2>5. QED BY <2>2, <2>4 DEF SnippetsFollow, TypeOK
<1>7. CASE World
  BY <1>1, <1>7 DEF Next
<1>8. CASE UNCHANGED <<vars, snippetVars>>
  BY <1>1, <1>8
<1>9. QED BY <1>3, <1>5, <1>6, <1>7, <1>8 DEF SnippetNext

LEMMA SnippetsNext ==
  ASSUME NEW owner, SnippetsFollow(owner), TextsOwned(owner), UNCHANGED cut,
         [SnippetNext]_<<vars, snippetVars>>
  PROVE  SnippetsFollow(owner)'
<1>1. TypeOK' /\ TypeOK /\ ScanInv(owner) /\ SnippetInv(owner)
  BY SnippetType DEF SnippetsFollow
<1>2. CASE World /\ Quiet /\ UNCHANGED snippetVars
  <2>1. UNCHANGED <<catalog, gcache, pc, tag, remove, todo, batch, marked>>
    BY <1>2 DEF World, WriteFile, Edit, DeleteFile, Save, Checkout
  <2>2. QED BY <1>1, <1>2, <2>1, ScanWorld, SnippetsRest DEF SnippetsFollow
<1>3. ASSUME NEW r \in Runs, SnippetStep(r), Alone(r) PROVE SnippetsFollow(owner)'
  <2>1. CASE PlanStep(r) /\ UNCHANGED snippetVars /\ (Begin(r) => marking = <<>>)
    BY <1>1, <1>3, <2>1, PlanStepScans, SnippetsPlanned DEF SnippetsFollow
  <2>2. CASE ReplaceSnippet(r)
    <3>1. UNCHANGED vars
      BY <2>2 DEF ReplaceSnippet
    <3>2. QED BY <1>1, <1>3, <2>2, <3>1, ScanRests, SnippetReplaced DEF SnippetsFollow
  <2>3. CASE ReplaceTag(r)
    <3>1. UNCHANGED vars
      BY <2>3 DEF ReplaceTag
    <3>2. QED BY <1>1, <1>3, <2>3, <3>1, ScanRests, SnippetTagReplaced DEF SnippetsFollow
  <2>4. CASE Written(r)
    BY <1>1, <1>3, <2>4, FileWritten DEF SnippetsFollow
  <2>5. CASE DeleteSnippetTags(r) \/ \E o \in batch[r] : RemoveSnippetTag(r, o)
    BY <1>1, <1>3, <2>5, SnippetTagsDeleted DEF SnippetsFollow
  <2>6. ASSUME NEW o \in batch[r], Parse(r, o) \/ DeleteSnippets(r, o) PROVE SnippetsFollow(owner)'
    <3>1. UNCHANGED vars
      BY <2>6 DEF Parse, DeleteSnippets
    <3>2. QED BY <1>1, <1>3, <2>6, <3>1, ScanRests, FileParsed, SnippetsDeleted DEF SnippetsFollow
  <2>7. CASE (Planning(r) \/ Between(r) \/ Leaves(r)) /\ UNCHANGED snippetVars
    <3>1. Active(r)
      BY <2>7 DEF Active, Planning, GetBranch, Stat, Plan, ReadNew, SkipFresh, ReadSame, ReadChanged, Reading,
         SplitFull, SplitFile, Planned, Between, NextBatch, Touch, AllMarked, Leaves, Finish, StatFails,
         NothingToCompute, TouchFails
    <3>2. ~Begin(r)
      BY <3>1 DEF Begin, Start, StartFile, Active
    <3>3. QED BY <2>1, <2>7, <3>2 DEF PlanStep
  <2>8. QED BY <1>3, <2>1, <2>2, <2>3, <2>4, <2>5, <2>6, <2>7 DEF SnippetStep, PlanStep
<1>4. ASSUME NEW i \in DOMAIN marking, MarkRowLate(i) PROVE SnippetsFollow(owner)'
  BY <1>1, <1>4, RowMarked DEF SnippetsFollow
<1>5. CASE MarkCacheLate
  BY <1>1, <1>5, CacheMarked DEF SnippetsFollow
<1>6. CASE UNCHANGED <<vars, snippetVars>>
  <2>1. UNCHANGED <<catalog, gcache, pc, tag, remove, todo, batch, marked>>
    BY <1>6 DEF vars
  <2>2. QED BY <1>1, <1>6, <2>1, ScanRests, SnippetsRest DEF SnippetsFollow
<1>7. QED BY <1>2, <1>3, <1>4, <1>5, <1>6 DEF SnippetNext

LEMMA SnippetsBegin == ASSUME NEW owner, Init, SnippetInit, cut = {} PROVE SnippetsFollow(owner)
<1>1. TypeOK /\ ScanInv(owner)
  BY PlanBegins, InitType
<1>2. MarkCalls(owner) /\ SnippetIds /\ SnippetDomains
  BY DEF SnippetInit, MarkCalls, SnippetIds, SnippetDomains
<1>3. RowsCachedLate /\ RowsShown /\ MarksShown
  BY DEF Init, SnippetInit, RowsCachedLate, RowsShown, MarksShown
<1>4. \A r \in Runs : RunSnippets(r)
  BY DEF Init, SnippetInit, RunSnippets, SnippetMemory, MarksOfRun, DelsAlone
<1>5. QED BY <1>1, <1>2, <1>3, <1>4 DEF SnippetsFollow, SnippetInv

(* What SnippetsAreShown asks for.                                         *)
LEMMA SnippetsAreListedShown == ASSUME NEW owner, SnippetInv(owner) PROVE SnippetsAreShown
<1> SUFFICES ASSUME NEW b \in Branches, NEW x \in catalog[b]
             PROVE  \/ <<ItemOf(x), b>> \in taken \/ BeingWritten(x, b)
                    \/ Being(x, b, {"del", "removeTag"}) \/ BeingMarked(x, b, {"del", "removeTag"})
                    \/ \A n \in 1 .. Parts[x.key] : \E s \in Shown(b) : SameFile(s, x) /\ s.idx = n
  BY DEF SnippetsAreShown
<1>1. Excused(x, b) \/ RemovedAfter(0, x, b)
  BY DEF SnippetInv, RowsShown
<1>2. CASE Excused(x, b)
  BY <1>2 DEF Excused, Worked, Removes, Being, AllParts
<1>3. CASE RemovedAfter(0, x, b)
  <2>1. PICK i \in DOMAIN marking : Late(i, x, b) /\ ~Adds(i)
    BY <1>3 DEF RemovedAfter
  <2>2. marking[i].op.kind \in Kinds
    BY MarkTypes DEF SnippetInv, Op
  <2>3. SameEntry(x, marking[i].op) /\ marking[i].branch = b
    BY <2>1 DEF Late, SameEntry
  <2>4. QED BY <2>1, <2>2, <2>3 DEF BeingMarked, Adds, Writes, Kinds
<1>4. QED BY <1>1, <1>2, <1>3

(* And of the snippets: a listed version is shown whenever no run is about *)
(* to take it out or to write it again, however late the marks of the runs *)
(* before come and however ids are used again, unless another branch has   *)
(* replaced its rows.  A batch may hold as little as it likes.             *)
THEOREM SnippetsFollowListings ==
  ASSUME NEW owner
  PROVE  TagIndexesSpec /\ []TextsOwned(owner) => []ListedSnippetsShown
<1> DEFINE Inv == artifact = "snippets" => SnippetsFollow(owner)
<1>1. TagIndexesInit => Inv
  BY SnippetsBegin DEF TagIndexesInit, ChunkInit, VectorInit
<1>2. Inv /\ TextsOwned(owner) /\ [TagIndexesNext]_indexVars => Inv'
  <2> SUFFICES ASSUME Inv, TextsOwned(owner), [TagIndexesNext]_indexVars, artifact' = "snippets"
               PROVE  SnippetsFollow(owner)'
    OBVIOUS
  <2>1. artifact = "snippets" /\ [SnippetNext]_<<vars, snippetVars>> /\ UNCHANGED cut
    BY DEF TagIndexesNext, indexVars, chunkVars, vectorVars
  <2>2. QED BY <2>1, SnippetsNext
<1>3. Inv => ListedSnippetsShown
  BY SnippetsAreListedShown DEF SnippetsFollow, ListedSnippetsShown
<1>4. QED BY <1>1, <1>2, <1>3, PTL DEF TagIndexesSpec

=============================================================================
