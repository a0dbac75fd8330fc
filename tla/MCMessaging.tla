----------------------------- MODULE MCMessaging -----------------------------
(* Small instances of MessageStreams and of IpcFraming for TLC.  Nothing   *)
(* joins the two, as VS Code runs the core in the extension's process and  *)
(* others use a pipe: a behaviour is of the one or the other.              *)
EXTENDS MessageStreams, IpcFraming

CONSTANTS c1, k1

MCStreams == {c1, k1}

(* Two chunks of the chat, so that one too many comes after its abort.     *)
MCLength == [s \in MCStreams |-> IF s = c1 THEN 2 ELSE 1]

MCInit == Init /\ FrameInit

MCNext ==
  \/ received = 0 /\ Next /\ UNCHANGED frameVars
  \/ (\A s \in Streams : gui[s].state = "new") /\ FrameNext /\ UNCHANGED vars

MCSpec == MCInit /\ [][MCNext]_<<vars, frameVars>> /\ Fairness

=============================================================================
