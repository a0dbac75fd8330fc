---------------------------- MODULE MCStreamDiff ----------------------------
(* Small instances of StreamDiff for TLC. *)
EXTENDS StreamDiff, TLC

(* Texts p and q are close for a match with at most one line between.      *)
MCSimilar ==
  {t \in Line \X Line \X (0 .. 1) : {t[1].text, t[2].text} = {"p", "q"}}
=============================================================================
