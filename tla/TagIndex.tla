------------------------------ MODULE TagIndex ------------------------------
(***************************************************************************)
(* What the tagged indexes of core/indexing have in common: each is an     *)
(* artifact of its own, refreshed by the plan of RefreshIndex, and keeps   *)
(* rows for the parts (chunks, snippets) of each version of a file.  The   *)
(* modules ChunkIndex, VectorIndex and SnippetIndex add their tables and   *)
(* the steps of their update.                                              *)
(***************************************************************************)
EXTENDS RefreshIndex

CONSTANTS
  Parts,      \* text -> number of parts it is cut into
  MaxCopies   \* bound on rows with the same content, for model checking only

ASSUME PartsAssumption ==
  /\ IsFiniteSet(Branches)
  /\ Parts \in [Contents -> Nat]
  /\ MaxCopies \in Nat \ {0}

MaxParts == CHOOSE n \in {Parts[c] : c \in Contents} : \A c \in Contents : Parts[c] <= n

(* WHERE path = ? AND cacheKey = ?                                         *)
SameFile(x, o) == x.path = o.path /\ x.key = o.key

(* The steps of a run before update is called, between two calls, and its  *)
(* ends other than at any await.                                           *)
Planning(r) ==
  \/ GetBranch(r) \/ Stat(r) \/ Plan(r)
  \/ \E p \in Paths : \/ ReadNew(r, p) \/ SkipFresh(r, p)
                      \/ ReadSame(r, p) \/ ReadChanged(r, p)
  \/ SplitFull(r) \/ SplitFile(r)

Between(r) == NextBatch(r) \/ \E i \in touch[r] : Touch(r, i)

Leaves(r) == Finish(r) \/ StatFails(r) \/ NothingToCompute(r) \/ TouchFails(r)

(* A steady world changes between runs only, which come one by one.        *)
Quiet    == \A r \in Runs : ~Active(r)
Alone(r) == \A q \in Runs \ {r} : ~Active(q)

(* A run on the branch is about to do this to the file.                    *)
Being(x, b, kinds) ==
  \E r \in Runs : tag[r] = b /\ \E o \in todo[r] \cup batch[r] : o.kind \in kinds /\ SameEntry(x, o)

=============================================================================
