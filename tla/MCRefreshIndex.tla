--------------------------- MODULE MCRefreshIndex ---------------------------
(* Two kinds of small instances of RefreshConvergence, for TLC: one run    *)
(* after another over two files and two branches, or two runs that overlap *)
(* over one file, which may be open with unsaved edits, on one branch.     *)
EXTENDS RefreshConvergence, TLC

VARIABLE inPlay  \* the files, runs and branches a behaviour uses

Symmetry == Permutations(Runs) \cup Permutations(Paths)

Alone == [paths : {Paths}, runs : {{r} : r \in Runs}, branches : {Branches}]

Overlaps == [paths : {{p} : p \in Paths}, runs : {Runs}, branches : {{AnyBranch}}]

OnlyInPlay ==
  /\ branch \in inPlay.branches
  /\ \A p \in Paths : Exists(p) => p \in inPlay.paths
  /\ \A r \in Runs : /\ Active(r) => r \in inPlay.runs
                     /\ files[r] \subseteq inPlay.paths

MCInit == ConvInit /\ inPlay \in Alone \cup Overlaps /\ OnlyInPlay

NextAlone == inPlay \in Alone /\ ConvNext /\ \A p \in Paths : buffer'[p] = NoBuffer

(* Without Stop: to the other run, a run that has stopped is one that      *)
(* takes no further step.                                                  *)
NextOverlap ==
  /\ inPlay \in Overlaps
  /\ \/ \E p \in Paths, c \in Contents : WriteFile(p, c) \/ Edit(p, c)
     \/ \E p \in Paths : DeleteFile(p) \/ Save(p)
     \/ \E r \in Runs : \/ Begin(r) \/ Progress(r) \/ Finish(r)
                       \/ StatFails(r) \/ NothingToCompute(r) \/ TouchFails(r)
  /\ UNCHANGED <<calm, whole>>

MCNext == (NextAlone \/ NextOverlap) /\ UNCHANGED inPlay /\ OnlyInPlay'

MCSpec == MCInit /\ [][MCNext]_<<convVars, inPlay>>

=============================================================================
