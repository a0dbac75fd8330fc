---------------------------- MODULE MCAutocomplete ----------------------------
(* Small instances of Autocomplete for TLC. *)
EXTENDS Autocomplete, TLC

\* The second prefix is LIKE the third, which is longer and none of its own.
MCInputs == {<<"x">>, <<"x", "y">>, <<"X", "_", "%">>}
MCChunks == {<<>>, <<"y", "n">>}
MCLetters == {{"x", "X"}}
=============================================================================
