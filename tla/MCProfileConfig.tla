--------------------------- MODULE MCProfileConfig ---------------------------
(* Small instances of ProfileConfig for TLC. *)
EXTENDS ProfileConfig, TLC
=============================================================================
