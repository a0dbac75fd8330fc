------------------------------ MODULE TagIndexes ------------------------------
(***************************************************************************)
(* The chunk, the vector and the snippet index side by side.  Each is an   *)
(* artifact with a catalog and a refresh of its own, and they do not meet: *)
(* a behaviour is of one of them, and the tables of the others stay empty. *)
(***************************************************************************)
EXTENDS ChunkIndex, VectorIndex, SnippetIndex

VARIABLE artifact

Artifacts == {"chunks", "vectors", "snippets"}

indexVars == <<chunkVars, vectorVars, snippetVars, artifact>>

TagIndexesInit == ChunkInit /\ VectorInit /\ SnippetInit /\ artifact \in Artifacts

TagIndexesNext ==
  /\ \/ artifact = "chunks" /\ SteadyNext /\ UNCHANGED <<vectorVars, snippetVars>>
     \/ artifact = "vectors" /\ VectorNext /\ UNCHANGED <<chunkTables, chunkMemory, snippetVars>>
     \/ artifact = "snippets" /\ SnippetNext /\ UNCHANGED <<chunkTables, chunkMemory, vectorVars>>
  /\ UNCHANGED artifact

TagIndexesSpec == TagIndexesInit /\ [][TagIndexesNext]_indexVars

-----------------------------------------------------------------------------
(* In a branch a search finds all chunks of the file versions its catalog  *)
(* lists, see IndexedFilesHaveChunks.                                      *)
ListedChunksFound == artifact = "chunks" => IndexedFilesHaveChunks

(* It finds the chunks of no others, see NoLeftoverChunks.                 *)
OnlyListedChunksFound == artifact = "chunks" => NoLeftoverChunks

(* The same of the vectors, up to the versions whose update was cut off,   *)
(* see VectorsFollowCatalog.                                               *)
ListedVectorsFound == artifact = "vectors" => VectorsFollowCatalog

(* The snippets of the file versions its catalog lists are shown in a      *)
(* branch, however late the marks, see SnippetsAreShown.                   *)
ListedSnippetsShown == artifact = "snippets" => SnippetsAreShown

=============================================================================
