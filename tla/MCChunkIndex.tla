---------------------------- MODULE MCChunkIndex ----------------------------
(* Small instances of ChunkIndex for TLC. *)
EXTENDS ChunkIndex, TLC

(* An empty file is not chunked (shouldChunk). *)
OnePart  == [c \in Contents |-> IF c = EmptyText THEN 0 ELSE 1]
=============================================================================
