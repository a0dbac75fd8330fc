---------------------------- MODULE ProfileConfig ----------------------------
(***************************************************************************)
(* How the config is loaded and cached: ProfileLifecycleManager            *)
(* (core/config/ProfileLifecycleManager.ts), one for each profile, under   *)
(* ConfigHandler (core/config/ConfigHandler.ts), which selects a profile   *)
(* and reloads it.                                                         *)
(*                                                                         *)
(* A config is represented by the version of the source it was read from.  *)
(* A promise of loadConfig is named by the call that makes it, and awaits  *)
(* it; when it settles, every call that awaits it has its value.  A reload *)
(* reads for itself.  That listeners are told of a config, and that a      *)
(* selection is recorded in the global context for the next start, is left *)
(* out: neither is read back here.                                         *)
(***************************************************************************)
EXTENDS Naturals, FiniteSetsExt, Functions

CONSTANTS
  Profiles, Local,
  Calls,        \* bound: callers at the same time
  MaxChanges,   \* bound on the changes of the sources
  None,
  Failed, Lost  \* a promise rejected, and one that never settles

ASSUME ProfilesAssumption == Local \in Profiles /\ None \notin Profiles \cup Calls
ASSUME VersionsAssumption ==
  /\ MaxChanges \in Nat
  /\ {None, Failed, Lost} \cap Nat = {} /\ None # Failed /\ None # Lost /\ Failed # Lost
  /\ {Failed, Lost} \cap Calls = {} /\ Calls \cap Nat = {}

VARIABLES
  version,   \* of the source of each profile
  selected,  \* selectedProfileId
  saved, browser, pending,   \* the fields of each manager
  pc, kind, profile, on, got, \* the calls: what they await, what they have got
  read,      \* what the load made by a call has read
  floor, since, answer       \* history, see ConfigSource

sources  == <<version, selected>>
managers == <<saved, browser, pending>>
calls    == <<pc, kind, profile, on, got, read>>
vars     == <<sources, managers, calls, floor, since, answer>>

Idle == "idle"

Silent == answer' = None /\ UNCHANGED <<floor, since>>

(* What the calls under way have read, and are still going to write into   *)
(* the caches of profile p.                                                *)
Writes(c) == pc[c] = "made" \/ (pc[c] = "got" /\ kind[c] = "serialized")
Brings(c) == IF Writes(c) THEN got[c] ELSE read[c]
Held(p)   == {Brings(c) : c \in {d \in Calls : profile[d] = p}} \cap Nat

-----------------------------------------------------------------------------
(* Calls of loadConfig, getSerializedConfig and setSelectedProfile.        *)

Begin(c, k, p, l) ==
  /\ pc[c] = Idle
  /\ pc' = [pc EXCEPT ![c] = l]
  /\ kind' = [kind EXCEPT ![c] = k]
  /\ profile' = [profile EXCEPT ![c] = p]
  /\ since' = [since EXCEPT ![c] = floor'[p]]
  /\ answer' = None

Get(c, k, p, v) ==
  /\ Begin(c, k, p, "got")
  /\ got' = [got EXCEPT ![c] = v]
  /\ UNCHANGED <<pending, on, read>>

Await(c, k, p, d) ==
  /\ Begin(c, k, p, "wait")
  /\ on' = [on EXCEPT ![c] = d]
  /\ UNCHANGED got

(* The branches of loadConfig, and before them that of getSerializedConfig.*)
UseBrowserConfig(c, k, p) == k = "serialized" /\ browser[p] # None /\ Get(c, "load", p, browser[p])

UseSavedConfig(c, k, p) == saved[p] # None /\ Get(c, k, p, saved[p])

UsePending(c, k, p) ==
  /\ saved[p] = None
  /\ \/ pending[p] \in {Failed, Lost} /\ Get(c, k, p, pending[p])
     \/ pending[p] \in Calls /\ Await(c, k, p, pending[p]) /\ UNCHANGED <<pending, read>>

StartLoad(c, k, p) ==
  /\ saved[p] = None /\ pending[p] = None
  /\ Await(c, k, p, c)
  /\ pending' = [pending EXCEPT ![p] = c]
  /\ read' = [read EXCEPT ![c] = None]

Request(c, k, p) ==
  /\ UNCHANGED <<version, saved, browser, floor>>
  /\ \/ UseBrowserConfig(c, k, p)
     \/ /\ k # "serialized" \/ browser[p] = None
        /\ UseSavedConfig(c, k, p) \/ UsePending(c, k, p) \/ StartLoad(c, k, p)

LoadConfig(c)          == Request(c, "load", selected) /\ UNCHANGED selected
GetSerializedConfig(c) == Request(c, "serialized", selected) /\ UNCHANGED selected
SetSelectedProfile(c)  == \E p \in Profiles : selected' = p /\ Request(c, "load", p)

-----------------------------------------------------------------------------
(* The executor of the promise of call d.                                  *)

Loading(d) == pc[d] = "wait" /\ on[d] = d

ReadSource(d) ==
  /\ Loading(d) /\ read[d] = None
  /\ read' = [read EXCEPT ![d] = version[profile[d]]]
  /\ UNCHANGED <<sources, managers, pc, kind, profile, on, got>>
  /\ Silent

(* Mutant: only the call that made the promise goes on.                    *)
SettleMaker(d, v) ==
  /\ pc' = [pc EXCEPT ![d] = "made"]
  /\ got' = [got EXCEPT ![d] = v]
  /\ on' = [on EXCEPT ![d] = None]
  /\ read' = [read EXCEPT ![d] = None]
  /\ UNCHANGED <<sources, browser, kind, profile>>
  /\ Silent

Settle(d, v) ==
  /\ pc' = [c \in Calls |-> IF on[c] # d THEN pc[c] ELSE IF c = d THEN "made" ELSE "got"]
  /\ got' = [c \in Calls |-> IF on[c] = d THEN v ELSE got[c]]
  /\ on' = [c \in Calls |-> IF on[c] = d THEN None ELSE on[c]]
  /\ read' = [read EXCEPT ![d] = None]
  /\ UNCHANGED <<sources, browser, kind, profile>>
  /\ Silent

Resolve(d) ==
  /\ Loading(d) /\ read[d] # None
  /\ saved' = [saved EXCEPT ![profile[d]] = read[d]]
  /\ UNCHANGED pending
  /\ Settle(d, read[d])

(* The source has errors, or the loader throws and the promise never       *)
(* settles.  The promise stays where it is.                                *)
Break(d, outcome) ==
  /\ Loading(d)
  /\ pending' = [p \in Profiles |-> IF pending[p] = d THEN outcome ELSE pending[p]]
  /\ UNCHANGED saved
  /\ Settle(d, outcome)

Reject(d)       == read[d] # None /\ Break(d, Failed)
LoaderThrows(d) == Break(d, Lost)

-----------------------------------------------------------------------------
(* What the calls do with the config.                                      *)

Reply(c, a) == answer' = a /\ since' = [since EXCEPT ![c] = 0]

End(c, l) ==
  /\ pc' = [pc EXCEPT ![c] = l]
  /\ kind' = [kind EXCEPT ![c] = "load"]
  /\ profile' = [profile EXCEPT ![c] = Local]
  /\ got' = [got EXCEPT ![c] = None]
  /\ UNCHANGED <<on, read>>

(* The call that made the promise saves the config once more and forgets   *)
(* the promise; getSerializedConfig keeps what it returns.                 *)
Deliver(c) ==
  /\ pc[c] \in {"got", "made"} /\ got[c] \in Nat
  /\ saved' = IF pc[c] = "made" THEN [saved EXCEPT ![profile[c]] = got[c]] ELSE saved
  /\ pending' = IF pc[c] = "made" THEN [pending EXCEPT ![profile[c]] = None] ELSE pending
  /\ browser' = IF kind[c] = "serialized" THEN [browser EXCEPT ![profile[c]] = got[c]] ELSE browser
  /\ End(c, Idle)
  /\ Reply(c, got[c])
  /\ UNCHANGED <<sources, floor>>

DeliverError(c) ==
  /\ pc[c] \in {"got", "made"} /\ got[c] = Failed
  /\ End(c, Idle)
  /\ Reply(c, Failed)
  /\ UNCHANGED <<sources, managers, floor>>

WaitForEver(c) ==
  /\ pc[c] \in {"got", "made"} /\ got[c] = Lost
  /\ End(c, "stuck")
  /\ Reply(c, Lost)
  /\ UNCHANGED <<sources, managers, floor>>

-----------------------------------------------------------------------------
(* reloadConfig.                                                           *)

(* Mutant: the config of the GUI is kept.                                  *)
ClearSaved(ps) ==
  /\ saved'   = [p \in Profiles |-> IF p \in ps THEN None ELSE saved[p]]
  /\ pending' = [p \in Profiles |-> IF p \in ps THEN None ELSE pending[p]]
  /\ UNCHANGED browser

Clear(ps) ==
  /\ saved'   = [p \in Profiles |-> IF p \in ps THEN None ELSE saved[p]]
  /\ browser' = [p \in Profiles |-> IF p \in ps THEN None ELSE browser[p]]
  /\ pending' = [p \in Profiles |-> IF p \in ps THEN None ELSE pending[p]]

(* Only what a call under way has read already may be older than what a    *)
(* reload finds in the source.                                             *)
Oldest(p) == Min({version[p]} \cup Held(p))

RaiseFloors(ps) ==
  floor' = [p \in Profiles |-> IF p \in ps THEN Oldest(p) ELSE floor[p]]

Reload(c) ==
  /\ Clear({selected})
  /\ RaiseFloors({selected})
  /\ Begin(c, "reload", selected, "read")
  /\ UNCHANGED <<sources, on, got, read>>

ReloadReads(c) ==
  /\ pc[c] = "read" /\ got[c] = None
  /\ got' = [got EXCEPT ![c] = version[profile[c]]]
  /\ UNCHANGED <<sources, managers, pc, kind, profile, on, read>>
  /\ Silent

Inactive == Profiles \ {selected}

(* Mutant: the other profiles keep their configs.                          *)
ReloadEndsAlone(c) ==
  /\ pc[c] = "read" /\ got[c] # None
  /\ RaiseFloors(Inactive)
  /\ End(c, Idle)
  /\ Reply(c, got[c])
  /\ UNCHANGED <<sources, managers>>

ReloadEnds(c) ==
  /\ pc[c] = "read" /\ got[c] # None
  /\ Clear(Inactive)
  /\ RaiseFloors(Inactive)
  /\ End(c, Idle)
  /\ Reply(c, got[c])
  /\ UNCHANGED sources

ReloadFails(c) ==
  /\ pc[c] = "read"
  /\ End(c, Idle)
  /\ Reply(c, Failed)
  /\ UNCHANGED <<sources, managers, floor>>

(* Somebody writes config.json, or the settings of a workspace.            *)
ChangeSource(p) ==
  /\ FoldFunction(+, 0, version) < MaxChanges
  /\ version' = [version EXCEPT ![p] = @ + 1]
  /\ UNCHANGED <<selected, managers, calls>>
  /\ Silent

-----------------------------------------------------------------------------
Init ==
  /\ version = [p \in Profiles |-> 0] /\ selected = Local
  /\ saved = [p \in Profiles |-> None] /\ browser = saved /\ pending = saved
  /\ pc = [c \in Calls |-> Idle] /\ kind = [c \in Calls |-> "load"]
  /\ profile = [c \in Calls |-> Local] /\ on = [c \in Calls |-> None]
  /\ got = on /\ read = on
  /\ floor = version /\ since = [c \in Calls |-> 0] /\ answer = None

CallStep(c) ==
  \/ ReadSource(c) \/ Resolve(c) \/ Reject(c) \/ LoaderThrows(c)
  \/ Deliver(c) \/ DeliverError(c) \/ WaitForEver(c)
  \/ ReloadReads(c) \/ ReloadEnds(c) \/ ReloadFails(c)

Caller(c) == LoadConfig(c) \/ GetSerializedConfig(c) \/ SetSelectedProfile(c) \/ Reload(c)

Next ==
  \/ \E c \in Calls : CallStep(c) \/ Caller(c)
  \/ \E p \in Profiles : ChangeSource(p)

Spec == Init /\ [][Next]_vars

(* Reading a source comes to an end, and the event loop is fair.           *)
FairSpec == Spec /\ \A c \in Calls : WF_vars(CallStep(c))

-----------------------------------------------------------------------------
(* What is kept for later calls is a config, never an error or a promise   *)
(* forgotten: no newer than the source, and no older than the last reload  *)
(* found it, but for what calls under way at that reload had read already. *)
(* Neither a cache that the reload forgot, nor a load that it forgot and   *)
(* that reads the source afterwards, nor a call under way that has its     *)
(* answer from before and keeps no config may bring an older one back.     *)
CachesReachFloor ==
  \A p \in Profiles :
    /\ saved[p] \in {None} \cup floor[p] .. version[p]
    /\ browser[p] \in {None} \cup floor[p] .. version[p]

(* ProfileConfig implements ConfigSource.                                  *)
Asking == [c \in Calls |-> CASE pc[c] = Idle -> None
                           [] pc[c] = "stuck" -> Lost
                           [] OTHER -> profile[c]]

Source == INSTANCE ConfigSource WITH newest <- version, asking <- Asking

(* Every answer is one ConfigSource allows: a config no older than the     *)
(* floor at the time of the call, or an error.                             *)
ImplementsSource == Source!Spec

(* Every call is answered, with a config or an error, unless the load it   *)
(* waits for has thrown: no reload, selection or clearing of a manager     *)
(* makes a call wait for a promise that has been forgotten.                *)
CallsEnd == Source!CallsEnd
=============================================================================
