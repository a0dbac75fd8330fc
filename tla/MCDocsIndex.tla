----------------------------- MODULE MCDocsIndex -----------------------------
(* Small instances of DocsIndex for TLC. *)
EXTENDS DocsIndex, TLC
=============================================================================
