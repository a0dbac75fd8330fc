----------------------------- MODULE MCTagIndexes -----------------------------
(* Small instances of TagIndexes for TLC: fewer changes where updates of the *)
(* vector index may be cut off, and one of these at most; empty files where  *)
(* there are few changes and no such cut.                                    *)
EXTENDS TagIndexes, TLC

CONSTANTS short, long

VARIABLE cuts  \* bound: how many updates may be cut off

Symmetry == Permutations(Branches)

(* An empty file is not chunked (shouldChunk), a long one is cut in two.    *)
Lengths == [c \in Contents |-> IF c = EmptyText THEN 0 ELSE IF c = long THEN 2 ELSE 1]

MCClock == [chunks |-> 5, vectors |-> 4, snippets |-> 4]

Emptied == \E p \in Paths : Exists(p) /\ Text(p) = EmptyText

MCInit ==
  /\ TagIndexesInit
  /\ cuts \in 0 .. 1 /\ (cuts = 1 => artifact = "vectors" /\ ~Emptied)

MCNext ==
  /\ TagIndexesNext
  /\ cut' # cut => cuts = 1 /\ cut = {}
  /\ clock' <= MCClock[artifact] - cuts
  /\ Emptied' => clock' <= 3 /\ cuts = 0
  /\ UNCHANGED cuts

MCSpec == MCInit /\ [][MCNext]_<<indexVars, cuts>>

=============================================================================
