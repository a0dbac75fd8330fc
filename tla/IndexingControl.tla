--------------------------- MODULE IndexingControl ---------------------------
(***************************************************************************)
(* How refreshes of the codebase index are started, cancelled and paused:  *)
(* refreshCodebaseIndex and refreshCodebaseIndexFiles of core/core.ts, with *)
(* the one indexingCancellationController they share, the abort and pause  *)
(* checks of refreshDirs and refreshFiles (core/indexing/CodebaseIndexer.ts)*)
(* and the start-up of Core.                                               *)
(*                                                                         *)
(* A run is one call.  What it does up to the next place where the abort   *)
(* signal and the pause token are looked at is one segment of work: a file *)
(* of the walk, an update of an index, with all that lies between.  Some   *)
(* yields (those before a walk) are followed by no look at them; these lie *)
(* within a segment.                                                       *)
(***************************************************************************)
EXTENDS Naturals

CONSTANTS
  Calls,          \* calls that may be made; each name is used once
  First,         \* the call Core makes at start-up
  Segments,      \* bound on the segments of a run
  PauseOnStart,  \* the IDE setting pauseCodebaseIndexOnStart
  None           \* "no controller"

ASSUME ControlAssumption ==
  /\ First \in Calls
  /\ None \notin Calls
  /\ Segments \in Nat
  /\ PauseOnStart \in BOOLEAN

VARIABLES
  ready,       \* codebaseIndexerPromise has resolved
  booted,      \* the start-up code after it has run
  controller,  \* indexingCancellationController, named by the run that made it
  aborted,     \* controllers that have been aborted
  paused,      \* the pause token
  stage,       \* where each run is
  isFull,      \* a full refresh, as opposed to a refresh of files
  signal,      \* the controller whose signal a full refresh watches
  left         \* segments still to do

VARIABLES      \* history: what each run has done that it perhaps should not
  extra,       \* segments begun after its abort
  late         \* segments begun since the user paused

run         == <<stage, isFull, signal, left>>
history     == <<extra, late>>
controlVars == <<ready, booted, controller, aborted, paused, run, history>>

Stages == {"new", "await", "work", "check", "wait", "end", "done", "threw", "skipped"}

Ended(r)  == stage[r] \in {"done", "threw", "skipped"}

Goto(r, l) == stage' = [stage EXCEPT ![r] = l]

-----------------------------------------------------------------------------
(* Calls.                                                                  *)

(* The part of refreshCodebaseIndex before its first await.                *)
BeginFull(r) ==
  /\ stage[r] = "new"
  /\ aborted' = IF controller = None THEN aborted ELSE aborted \cup {controller}
  /\ controller' = r
  /\ Goto(r, "await")
  /\ isFull' = [isFull EXCEPT ![r] = TRUE]
  /\ \E n \in 0 .. Segments : left' = [left EXCEPT ![r] = n]
  /\ UNCHANGED <<signal, history>>

(* index/forceReIndex, clearing no index.                                  *)
CallFull(r) ==
  /\ r # First
  /\ BeginFull(r)
  /\ UNCHANGED <<ready, booted, paused>>

Indexing == controller # None /\ controller \notin aborted

(* index/forceReIndexFiles.                                                *)
CallFiles(r) ==
  /\ r # First
  /\ stage[r] = "new"
  /\ ~Indexing
  /\ controller' = r
  /\ Goto(r, "await")
  /\ \E n \in 0 .. Segments : left' = [left EXCEPT ![r] = n]
  /\ UNCHANGED <<ready, booted, aborted, paused, isFull, signal, history>>

SkipFiles(r) ==
  /\ r # First
  /\ stage[r] = "new"
  /\ Indexing
  /\ Goto(r, "skipped")
  /\ UNCHANGED <<ready, booted, controller, aborted, paused, isFull, signal, left, history>>

-----------------------------------------------------------------------------
(* Start-up.                                                               *)

Resolve ==
  /\ ~ready
  /\ ready' = TRUE
  /\ UNCHANGED <<booted, controller, aborted, paused, run, history>>

(* The token is set whatever the setting says; the setting only decides    *)
(* whether the first run is started.                                       *)
Boot ==
  /\ ready /\ ~booted
  /\ booted' = TRUE
  /\ paused' = TRUE
  /\ IF PauseOnStart
     THEN UNCHANGED <<controller, aborted, run, history>>
     ELSE BeginFull(First)
  /\ UNCHANGED ready

(* index/setPaused.                                                        *)
SetPaused(v) ==
  /\ paused # v
  /\ paused' = v
  /\ late' = [r \in Calls |-> 0]
  /\ UNCHANGED <<ready, booted, controller, aborted, run, extra>>

-----------------------------------------------------------------------------
(* Runs.                                                                   *)

(* `(await this.codebaseIndexerPromise).refreshDirs(paths,                 *)
(* this.indexingCancellationController.signal)`: the controller is read    *)
(* after the await, and may be another run's by then.                      *)
Resume(r) ==
  /\ ready
  /\ stage[r] = "await"
  /\ isFull[r] => controller # None
  /\ signal' = IF isFull[r] THEN [signal EXCEPT ![r] = controller] ELSE signal
  /\ Goto(r, "work")
  /\ UNCHANGED <<ready, booted, controller, aborted, paused, isFull, left, history>>

(* ... or nobody's: undefined.signal throws.                               *)
ResumeThrows(r) ==
  /\ ready
  /\ stage[r] = "await"
  /\ isFull[r] /\ controller = None
  /\ Goto(r, "threw")
  /\ UNCHANGED <<ready, booted, controller, aborted, paused, isFull, signal, left, history>>

(* The controller whose abort is meant for a run.                          *)
Watched(r) == IF isFull[r] THEN signal[r] ELSE r

(* One segment, up to the next look at signal and token.                   *)
Work(r) ==
  /\ stage[r] = "work"
  /\ left[r] > 0
  /\ left' = [left EXCEPT ![r] = @ - 1]
  /\ extra' = [extra EXCEPT ![r] = IF Watched(r) \in aborted THEN @ + 1 ELSE @]
  /\ late' = [late EXCEPT ![r] = IF paused THEN @ + 1 ELSE @]
  /\ Goto(r, "check")
  /\ UNCHANGED <<ready, booted, controller, aborted, paused, isFull, signal>>

(* The generator is exhausted, or a segment throws within its try and the  *)
(* error becomes the last update.                                          *)
WorkEnds(r) ==
  /\ stage[r] = "work"
  /\ Goto(r, "end")
  /\ UNCHANGED <<ready, booted, controller, aborted, paused, isFull, signal, left, history>>

(* A full refresh throws outside of the try: while it loads the config, or *)
(* while it walks a directory or asks for its repository and branch.  The  *)
(* controller stays.                                                       *)
WorkThrows(r) ==
  /\ stage[r] = "work"
  /\ isFull[r]
  /\ Goto(r, "threw")
  /\ UNCHANGED <<ready, booted, controller, aborted, paused, isFull, signal, left, history>>

(* Where a run goes from there: refreshDirs looks at its signal first,     *)
(* refreshFiles has none; both then look at the pause token.               *)
Cancelled(r) == isFull[r] /\ signal[r] \in aborted

(* Bug: the pause is looked at first.                                      *)
AfterYieldPauseFirst(r) ==
  IF paused THEN "wait" ELSE IF Cancelled(r) THEN "end" ELSE "work"

(* Bug: the pause is not looked at.                                        *)
AfterYieldNoPause(r) == IF Cancelled(r) THEN "end" ELSE "work"

AfterYield(r) ==
  IF Cancelled(r) THEN "end" ELSE IF paused THEN "wait" ELSE "work"

Check(r) ==
  /\ stage[r] = "check"
  /\ Goto(r, AfterYield(r))
  /\ UNCHANGED <<ready, booted, controller, aborted, paused, isFull, signal, left, history>>

(* Bug: a cancelled run is left waiting.                                   *)
WakeUncancelled(r) ==
  /\ stage[r] = "wait"
  /\ ~paused /\ ~Cancelled(r)
  /\ Goto(r, "work")
  /\ UNCHANGED <<ready, booted, controller, aborted, paused, isFull, signal, left, history>>

(* yieldUpdateAndPause looks at the token only, every 100 ms.              *)
Wake(r) ==
  /\ stage[r] = "wait"
  /\ ~paused
  /\ Goto(r, "work")
  /\ UNCHANGED <<ready, booted, controller, aborted, paused, isFull, signal, left, history>>

(* The end of refreshCodebaseIndex forgets the controller, whosever it is; *)
(* refreshCodebaseIndexFiles leaves its own in place.                      *)
ControllerAfter(r) == IF isFull[r] THEN None ELSE controller

End(r) ==
  /\ stage[r] = "end"
  /\ controller' = ControllerAfter(r)
  /\ Goto(r, "done")
  /\ UNCHANGED <<ready, booted, aborted, paused, isFull, signal, left, history>>

-----------------------------------------------------------------------------
ControlInit ==
  /\ ready = FALSE /\ booted = FALSE
  /\ controller = None
  /\ aborted = {}
  /\ paused \in BOOLEAN
  /\ stage = [r \in Calls |-> "new"]
  /\ isFull = [r \in Calls |-> FALSE]
  /\ signal = [r \in Calls |-> None]
  /\ left = [r \in Calls |-> 0]
  /\ extra = [r \in Calls |-> 0]
  /\ late = [r \in Calls |-> 0]

RunStep(r) == Resume(r) \/ ResumeThrows(r) \/ Work(r) \/ WorkEnds(r) \/ WorkThrows(r)
                \/ Check(r) \/ Wake(r) \/ End(r)

User ==
  \/ \E r \in Calls : CallFull(r) \/ CallFiles(r) \/ SkipFiles(r)
  \/ \E v \in BOOLEAN : SetPaused(v)

ControlNext == Resolve \/ Boot \/ User \/ \E r \in Calls : RunStep(r)

ControlSpec == ControlInit /\ [][ControlNext]_controlVars

(* The event loop runs what is ready; nothing obliges the user to act.     *)
Fairness ==
  /\ WF_controlVars(Resolve) /\ WF_controlVars(Boot)
  /\ \A r \in Calls : WF_controlVars(RunStep(r))

ControlFairSpec == ControlSpec /\ Fairness

-----------------------------------------------------------------------------
ControlTypeOK ==
  /\ ready \in BOOLEAN /\ booted \in BOOLEAN
  /\ controller \in Calls \cup {None}
  /\ aborted \subseteq Calls
  /\ paused \in BOOLEAN
  /\ stage \in [Calls -> Stages]
  /\ isFull \in [Calls -> BOOLEAN]
  /\ signal \in [Calls -> Calls \cup {None}]
  /\ left \in [Calls -> Nat]
  /\ extra \in [Calls -> Nat]
  /\ late \in [Calls -> Nat]

(* A full refresh whose signal has been aborted begins at most one more     *)
(* segment, even if it was paused in between.                               *)
CancelledRunStops ==
  \A r \in Calls : isFull[r] => extra[r] <= 1

(* Why: from its one late segment a run goes to the check and from there to *)
(* the end, never back to work.                                             *)
CancelInv ==
  \A r \in Calls :
    /\ stage[r] \in {"new", "await"} => extra[r] = 0
    /\ isFull[r] /\ extra[r] # 0 =>
         extra[r] = 1 /\ signal[r] \in aborted /\ stage[r] \in {"check", "end", "done"}

(* After the user pauses, a run begins at most one more segment until the   *)
(* pause is lifted.                                                         *)
PausedRunRests == \A r \in Calls : late[r] <= 1

PauseInv ==
  \A r \in Calls : late[r] # 0 =>
    late[r] = 1 /\ paused /\ stage[r] \in {"check", "wait", "end", "done"}

(* If pauses do not go on for ever, every call comes to its end.            *)
CallsEnd ==
  <>[]~paused => \A r \in Calls : stage[r] = "await" ~> Ended(r)

=============================================================================
