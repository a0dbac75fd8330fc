---------------------------- MODULE ConfigSource ----------------------------
(***************************************************************************)
(* What the callers of ConfigHandler (core/config/ConfigHandler.ts) may    *)
(* rely on.  The source of each profile (config.json, or the settings of a *)
(* workspace) has versions.  The floor of a profile is the version that    *)
(* its last reload found, or an older one that a call under way had read   *)
(* before and could still cache: a call made later is answered with the    *)
(* floor or something newer, or fails.                                     *)
(***************************************************************************)
EXTENDS Naturals

CONSTANTS
  Profiles,
  Calls,     \* callers; each makes one call after the other
  None, Failed, Lost

VARIABLES
  newest,  \* version of the source of a profile
  floor,
  asking,  \* the profile a caller is waiting for, None, or Lost: for ever
  since,   \* the floor of that profile when it called
  answer   \* what this step has answered, or None

vars == <<newest, floor, asking, since, answer>>

Init ==
  /\ newest = [p \in Profiles |-> 0] /\ floor = [p \in Profiles |-> 0]
  /\ asking = [c \in Calls |-> None] /\ since = [c \in Calls |-> 0]
  /\ answer = None

(* A floor only rises, and never above the source.                         *)
FloorsRise == \A p \in Profiles : floor'[p] \in floor[p] .. newest'[p]

Change(p) ==
  /\ newest' = [newest EXCEPT ![p] = @ + 1]
  /\ answer' = None
  /\ UNCHANGED <<asking, since>>

Ask(c, p) ==
  /\ asking[c] = None
  /\ asking' = [asking EXCEPT ![c] = p]
  /\ since'  = [since EXCEPT ![c] = floor'[p]]
  /\ answer' = None
  /\ UNCHANGED newest

Reply(c, a, then) ==
  /\ asking[c] \in Profiles
  /\ answer' = a
  /\ asking' = [asking EXCEPT ![c] = then]
  /\ since'  = [since EXCEPT ![c] = 0]
  /\ UNCHANGED newest

Answer(c) == asking[c] \in Profiles /\ \E v \in since[c] .. newest[asking[c]] : Reply(c, v, None)
Fail(c)   == Reply(c, Failed, None)
Lose(c)   == Reply(c, Lost, Lost)

Next ==
  /\ FloorsRise
  /\ \/ \E p \in Profiles : Change(p)
     \/ \E c \in Calls, p \in Profiles : Ask(c, p)
     \/ \E c \in Calls : Answer(c) \/ Fail(c) \/ Lose(c)
     \/ answer' = None /\ UNCHANGED <<newest, asking, since>>

Spec == Init /\ [][Next]_vars

(* A call comes to its end, or is lost with the load it waits for.         *)
CallsEnd == \A c \in Calls : asking[c] \in Profiles ~> asking[c] \in {None, Lost}
=============================================================================
