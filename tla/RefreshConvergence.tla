------------------------- MODULE RefreshConvergence -------------------------
(***************************************************************************)
(* What full refreshes achieve when nothing disturbs them.  RefreshIndex   *)
(* with a history variable: how many full refreshes have run to their end  *)
(* in a row, each alone, with no change to the workspace and no crash      *)
(* since the first of them began.                                          *)
(***************************************************************************)
EXTENDS RefreshIndex

VARIABLE calm   \* number of undisturbed full refreshes in a row, up to 2
VARIABLE whole  \* runs that nothing has disturbed since they started

convVars == <<vars, calm, whole>>

ConvInit == Init /\ calm = 0 /\ whole = {}

Disturbed == calm' = 0 /\ whole' = {}

Others(r) == {q \in Runs \ {r} : Active(q)}

(* A run ends whole when it comes to Finish, not to Stop or an error.      *)
ConvNext ==
  \/ World /\ Disturbed
  \/ \E r \in Runs :
       \/ /\ Start(r)
          /\ whole' = IF Others(r) = {} THEN {r} ELSE {}
          /\ calm' = IF Others(r) = {} THEN calm ELSE 0
       \/ \E p \in Paths : StartFile(r, p) /\ Disturbed
       \/ Progress(r) /\ UNCHANGED <<calm, whole>>
       \/ /\ Finish(r)
          /\ whole' = whole \ {r}
          /\ calm' = IF r \in whole /\ calm < 2 THEN calm + 1 ELSE calm
       \/ Fail(r) /\ Disturbed

ConvSpec == ConvInit /\ [][ConvNext]_convVars

-----------------------------------------------------------------------------
NoUnsavedEdits == \A p \in Paths : buffer[p] = NoBuffer

Indexed(p, k) == \E x \in catalog[branch] : x.path = p /\ x.key = k

(* The catalog of the branch checked out lists exactly the files of the    *)
(* workspace, each under the key of its text.                              *)
CatalogMatchesDisk ==
  /\ \A p \in Paths : Exists(p) => Indexed(p, disk[p].content)
  /\ \A x \in catalog[branch] : Exists(x.path) /\ x.key = disk[x.path].content

(* Whatever a crash, an aborted run or refreshFile left behind, two full    *)
(* refreshes in a row that nothing disturbs bring the catalog in line with  *)
(* the workspace (README steps 1 to 5; getAddRemoveForTag and               *)
(* markComplete).                                                           *)
TwoRefreshesConverge ==
  calm = 2 /\ NoUnsavedEdits => CatalogMatchesDisk

(* One is enough for this half: no row of a deleted file, and no row with   *)
(* an outdated key, survives an undisturbed refresh.                        *)
OneRefreshLeavesNoStaleRow ==
  calm > 0 /\ NoUnsavedEdits =>
    \A x \in catalog[branch] : Exists(x.path) /\ x.key = disk[x.path].content

=============================================================================
