------------------------- MODULE ProfileConfigProofs -------------------------
(***************************************************************************)
(* The caches of ProfileConfig keep no config older than the last reload   *)
(* found, but for what calls under way had read before, and ProfileConfig  *)
(* implements ConfigSource: for any number of profiles, callers, reloads   *)
(* and changes.                                                            *)
(***************************************************************************)
EXTENDS ProfileConfig, WellFoundedInduction, TLAPS

Pc == {Idle, "wait", "got", "made", "read", "stuck"}

Cached == Nat \cup {None}

Outcome == Nat \cup {Failed, Lost}

TypeOK ==
  /\ version \in [Profiles -> Nat] /\ floor \in [Profiles -> Nat]
  /\ selected \in Profiles
  /\ saved \in [Profiles -> Cached] /\ browser \in [Profiles -> Cached]
  /\ pending \in [Profiles -> Calls \cup {None, Failed, Lost}]
  /\ pc \in [Calls -> Pc] /\ kind \in [Calls -> {"load", "serialized", "reload"}]
  /\ profile \in [Calls -> Profiles] /\ on \in [Calls -> Calls \cup {None}]
  /\ got \in [Calls -> Outcome \cup {None}] /\ read \in [Calls -> Cached]
  /\ since \in [Calls -> Nat]

Reaches(v, p) == v \in Nat => floor[p] <= v /\ v <= version[p]

(* What is cached is as new as the floor.                                  *)
CacheFresh(p) == floor[p] <= version[p] /\ Reaches(saved[p], p) /\ Reaches(browser[p], p)

(* So is what a call under way has read, or has got and will cache; and    *)
(* what it has got, or waits for, is as new as the floor was at its start. *)
CallFresh(c) ==
  pc[c] \notin {Idle, "stuck"} =>
    /\ since[c] <= version[profile[c]]
    /\ pc[c] = "wait" => since[c] <= floor[profile[c]]
    /\ got[c] \in Nat => since[c] <= got[c] /\ got[c] <= version[profile[c]]
    /\ Writes(c) => Reaches(got[c], profile[c])
    /\ Reaches(read[c], profile[c])

(* A call waits for a load of its profile that is under way.               *)
WaitsForLoad(c) ==
  /\ pc[c] = "wait" <=> on[c] # None
  /\ pc[c] = "wait" => on[on[c]] = on[c] /\ profile[on[c]] = profile[c] /\ got[c] = None
  /\ pc[c] \in {"got", "made"} => got[c] # None
  /\ pc[c] = "read" => got[c] \in Cached
  /\ pc[c] \in {Idle, "stuck"} => got[c] = None
  /\ read[c] # None => Loading(c)

(* The promise a profile keeps belongs to such a load, or to one that has  *)
(* just saved what it read.                                                *)
PromiseOfLoad(p) ==
  pending[p] \in Calls =>
    /\ profile[pending[p]] = p
    /\ \/ Loading(pending[p])
       \/ pc[pending[p]] = "made" /\ got[pending[p]] \in Nat /\ saved[p] # None

FreshInv   == (\A p \in Profiles : CacheFresh(p)) /\ (\A c \in Calls : CallFresh(c))
PromiseInv == (\A c \in Calls : WaitsForLoad(c)) /\ (\A p \in Profiles : PromiseOfLoad(p))

Inv == TypeOK /\ FreshInv /\ PromiseInv

-----------------------------------------------------------------------------
(* Sets of numbers have a least element.                                   *)

LEMMA LessThan == \A x, y \in Nat : y < x => <<y, x>> \in OpToRel(<, Nat)
  BY SMT DEF OpToRel

LEMMA LeastExists ==
  ASSUME NEW T, T \subseteq Nat, T # {}
  PROVE  Min(T) \in T /\ \A y \in T : Min(T) <= y
<1>1. \E x \in T : \A y \in T : ~(<<y, x>> \in OpToRel(<, Nat))
  BY NatLessThanWellFounded, WFMin, Zenon
<1>2. \E x \in T : \A y \in T : ~(y < x)
  BY <1>1, LessThan, Zenon
<1>3. \E x \in T : \A y \in T : x <= y
  BY <1>2
<1>4. QED BY <1>3 DEF Min

LEMMA OldestHeld ==
  ASSUME NEW p, version[p] \in Nat
  PROVE  /\ Oldest(p) \in Nat /\ Oldest(p) <= version[p]
         /\ Oldest(p) = version[p] \/ Oldest(p) \in Held(p)
         /\ \A v \in Held(p) : Oldest(p) <= v
<1> DEFINE S == {version[p]} \cup Held(p)
<1>1. S \subseteq Nat /\ S # {}
  BY DEF Held
<1>2. Min(S) \in S /\ \A y \in S : Min(S) <= y
  BY <1>1, LeastExists
<1>3. QED BY <1>1, <1>2 DEF Oldest

-----------------------------------------------------------------------------
(* Type correctness.                                                       *)

LEMMA InitInv == Init => Inv
<1> SUFFICES ASSUME Init PROVE Inv
  OBVIOUS
<1> USE ProfilesAssumption, VersionsAssumption DEF Init, Idle
<1>1. TypeOK
  BY DEF TypeOK, Cached, Outcome, Pc
<1>2. FreshInv
  BY DEF FreshInv, CacheFresh, CallFresh, Reaches, Writes
<1>3. PromiseInv
  BY DEF PromiseInv, WaitsForLoad, PromiseOfLoad, Loading, Cached
<1>4. QED BY <1>1, <1>2, <1>3 DEF Inv

LEMMA ChangeStep ==
  ASSUME NEW p, ChangeSource(p)
  PROVE  /\ version' = [version EXCEPT ![p] = @ + 1]
         /\ UNCHANGED <<selected, managers, calls>> /\ Silent
  BY Zenon DEF ChangeSource

LEMMA RequestType ==
  ASSUME TypeOK, NEW c \in Calls, NEW p \in Profiles, NEW k \in {"load", "serialized"},
         Request(c, k, p), selected' \in Profiles
  PROVE  TypeOK'
<1> USE ProfilesAssumption DEF TypeOK, Cached, Outcome, Pc, Idle, Request, Begin
<1>1. CASE UseBrowserConfig(c, k, p) \/ UseSavedConfig(c, k, p)
  BY <1>1 DEF UseBrowserConfig, UseSavedConfig, Get
<1>2. CASE UsePending(c, k, p)
  BY <1>2 DEF UsePending, Get, Await
<1>3. CASE StartLoad(c, k, p)
  BY <1>3 DEF StartLoad, Await
<1>4. QED BY <1>1, <1>2, <1>3

LEMMA LoadType ==
  ASSUME TypeOK, NEW d \in Calls,
         ReadSource(d) \/ Resolve(d) \/ Reject(d) \/ LoaderThrows(d)
  PROVE  TypeOK'
<1> USE DEF TypeOK, Cached, Outcome, Pc, sources, managers, Silent
<1>1. CASE ReadSource(d)
  BY <1>1 DEF ReadSource
<1>2. CASE Resolve(d)
  BY <1>2 DEF Resolve, Settle, Loading
<1>3. CASE Reject(d) \/ LoaderThrows(d)
  BY <1>3 DEF Reject, LoaderThrows, Break, Settle
<1>4. QED BY <1>1, <1>2, <1>3

LEMMA DeliveryType ==
  ASSUME TypeOK, NEW c \in Calls, Deliver(c) \/ DeliverError(c) \/ WaitForEver(c)
  PROVE  TypeOK'
<1> USE ProfilesAssumption DEF TypeOK, Cached, Outcome, Pc, Idle, sources, managers, End, Reply
<1>1. CASE Deliver(c)
  BY <1>1 DEF Deliver
<1>2. CASE DeliverError(c) \/ WaitForEver(c)
  BY <1>2 DEF DeliverError, WaitForEver
<1>3. QED BY <1>1, <1>2

LEMMA ReloadType ==
  ASSUME TypeOK, NEW c \in Calls,
         Reload(c) \/ ReloadReads(c) \/ ReloadEnds(c) \/ ReloadFails(c)
  PROVE  TypeOK'
<1> USE ProfilesAssumption DEF TypeOK, Cached, Outcome, Pc, Idle, sources, managers, Silent, End, Reply, Clear, RaiseFloors
<1>0. \A p \in Profiles : Oldest(p) \in Nat
  BY OldestHeld
<1>1. CASE Reload(c)
  BY <1>0, <1>1 DEF Reload, Begin
<1>2. CASE ReloadReads(c)
  BY <1>2 DEF ReloadReads
<1>3. CASE ReloadEnds(c) \/ ReloadFails(c)
  BY <1>0, <1>3, SMTT(20) DEF ReloadEnds, ReloadFails
<1>4. QED BY <1>1, <1>2, <1>3

LEMMA NextType == TypeOK /\ [Next]_vars => TypeOK'
<1> SUFFICES ASSUME TypeOK, [Next]_vars PROVE TypeOK'
  OBVIOUS
<1>1. ASSUME NEW c \in Calls, CallStep(c) PROVE TypeOK'
  BY <1>1, LoadType, DeliveryType, ReloadType DEF CallStep
<1>2. ASSUME NEW c \in Calls, Caller(c) PROVE TypeOK'
  <2>1. selected \in Profiles
    BY DEF TypeOK
  <2>2. CASE LoadConfig(c) \/ GetSerializedConfig(c)
    BY <2>1, <2>2, RequestType DEF LoadConfig, GetSerializedConfig
  <2>3. CASE SetSelectedProfile(c)
    BY <2>3, RequestType DEF SetSelectedProfile
  <2>4. QED BY <1>2, <2>2, <2>3, ReloadType DEF Caller
<1>3. ASSUME NEW p \in Profiles, ChangeSource(p) PROVE TypeOK'
  BY <1>3, ChangeStep DEF TypeOK, managers, calls, Silent
<1>4. CASE UNCHANGED vars
  BY <1>4 DEF vars, sources, managers, calls, TypeOK
<1>5. QED BY <1>1, <1>2, <1>3, <1>4 DEF Next

-----------------------------------------------------------------------------
(* The caches and the calls.                                               *)

(* What is known of a call and of a profile in a state of the invariant.   *)
LEMMA KnownOfCall ==
  ASSUME Inv, NEW c \in Calls
  PROVE  /\ CallFresh(c) /\ WaitsForLoad(c)
         /\ on[c] \in Calls \cup {None} /\ profile[c] \in Profiles /\ pc[c] \in Pc
         /\ got[c] \in Outcome \cup {None} /\ read[c] \in Cached
         /\ on[c] # None => on[c] \in Calls /\ Loading(on[c])
  <1>1. CallFresh(c) /\ WaitsForLoad(c)
    BY DEF Inv, FreshInv, PromiseInv
  <1>2. TypeOK
    BY DEF Inv
  <1>3. on[c] # None => on[c] \in Calls /\ WaitsForLoad(on[c])
    BY <1>2 DEF TypeOK, Inv, PromiseInv
  <1>4. on[c] # None => Loading(on[c])
    BY <1>1, <1>3 DEF WaitsForLoad, Loading
  <1>5. QED BY <1>1, <1>2, <1>3, <1>4 DEF TypeOK

LEMMA BringsReach ==
  ASSUME Inv, NEW c \in Calls
  PROVE  Reaches(Brings(c), profile[c])
<1>1. CASE Writes(c)
  BY <1>1, KnownOfCall DEF CallFresh, Brings, Writes, Idle
<1>2. CASE ~Writes(c) /\ read[c] = None
  BY <1>2, VersionsAssumption DEF Brings, Reaches
<1>3. CASE ~Writes(c) /\ read[c] # None
  BY <1>3, KnownOfCall DEF CallFresh, Brings, WaitsForLoad, Loading, Idle
<1>4. QED BY <1>1, <1>2, <1>3

LEMMA KnownOfProfile ==
  ASSUME Inv, NEW p \in Profiles
  PROVE  /\ CacheFresh(p) /\ PromiseOfLoad(p)
         /\ version[p] \in Nat /\ floor[p] \in Nat
         /\ saved[p] \in Cached /\ browser[p] \in Cached
         /\ pending[p] \in Calls \cup {None, Failed, Lost}
  BY DEF Inv, FreshInv, PromiseInv, TypeOK

LEMMA RequestFresh ==
  ASSUME Inv, NEW c \in Calls, NEW p \in Profiles, NEW k \in {"load", "serialized"},
         Request(c, k, p)
  PROVE  FreshInv'
<1> USE ProfilesAssumption, VersionsAssumption
<1>1. ASSUME NEW q \in Profiles PROVE CacheFresh(q)'
  BY <1>1, KnownOfProfile DEF Request, CacheFresh, Reaches
<1>2. ASSUME NEW d \in Calls, d # c PROVE CallFresh(d)'
  <2>1. UNCHANGED <<pc[d], since[d], floor, version, profile[d], got[d], read[d], kind[d]>>
    BY <1>2 DEF Inv, TypeOK, Request, Begin, UseBrowserConfig, UseSavedConfig, UsePending, StartLoad, Get, Await
  <2>2. QED BY <2>1, KnownOfCall DEF CallFresh, Reaches, Writes
<1>3. CallFresh(c)'
  <2>1. since'[c] = floor[p] /\ profile'[c] = p /\ UNCHANGED <<floor, version>> /\ pc[c] = Idle
    BY DEF Inv, TypeOK, Request, Begin, UseBrowserConfig, UseSavedConfig, UsePending, StartLoad, Get, Await
  <2>2. read[c] = None /\ got[c] = None
    BY <2>1, KnownOfCall DEF WaitsForLoad, Loading, Idle
  <2>3. read'[c] = None
    BY <2>2 DEF Inv, TypeOK, Request, UseBrowserConfig, UseSavedConfig, UsePending, StartLoad, Get, Await
  <2>4. got'[c] \in {None, Failed, Lost, saved[p], browser[p]}
    BY <2>2 DEF Inv, TypeOK, Request, UseBrowserConfig, UseSavedConfig, UsePending, StartLoad, Get, Await
  <2>5. QED BY <2>1, <2>3, <2>4, KnownOfProfile DEF CallFresh, CacheFresh, Reaches
<1>4. QED BY <1>1, <1>2, <1>3 DEF FreshInv

LEMMA RequestPromise ==
  ASSUME Inv, NEW c \in Calls, NEW p \in Profiles, NEW k \in {"load", "serialized"},
         Request(c, k, p)
  PROVE  PromiseInv'
<1> USE ProfilesAssumption, VersionsAssumption
<1>1. /\ pc[c] = Idle /\ profile'[c] = p /\ UNCHANGED <<saved, browser>>
      /\ \A d \in Calls \ {c} : UNCHANGED <<pc[d], profile[d], on[d], got[d], read[d]>>
  BY DEF Inv, TypeOK, Request, Begin, UseBrowserConfig, UseSavedConfig, UsePending, StartLoad, Get, Await
<1>2. read[c] = None /\ got[c] = None /\ on[c] = None
  BY <1>1, KnownOfCall DEF WaitsForLoad, Loading, Idle
<1>3. ASSUME NEW d \in Calls, Loading(d) PROVE d # c /\ Loading(d)'
  BY <1>1, <1>3 DEF Loading, Idle
<1>4. ASSUME NEW d \in Calls, d # c PROVE WaitsForLoad(d)'
  BY <1>1, <1>3, <1>4, KnownOfCall DEF WaitsForLoad, Loading
<1>5. \/ pc'[c] = "got" /\ got'[c] # None /\ UNCHANGED <<pending, on, read>>
      \/ /\ pc'[c] = "wait" /\ on'[c] = pending[p] /\ pending[p] \in Calls /\ saved[p] = None
         /\ UNCHANGED <<got, pending, read>>
      \/ /\ pc'[c] = "wait" /\ on'[c] = c /\ pending' = [pending EXCEPT ![p] = c]
         /\ UNCHANGED got /\ read'[c] = None
  BY DEF Inv, TypeOK, Request, Begin, UseBrowserConfig, UseSavedConfig, UsePending, StartLoad, Get, Await
<1>6. ASSUME saved[p] = None, pending[p] \in Calls
      PROVE  Loading(pending[p]) /\ profile[pending[p]] = p
  BY <1>6, KnownOfProfile DEF PromiseOfLoad
<1>7. WaitsForLoad(c)'
  BY <1>1, <1>2, <1>3, <1>5, <1>6 DEF WaitsForLoad, Loading, Idle
<1>8. ASSUME NEW q \in Profiles PROVE PromiseOfLoad(q)'
  <2>1. CASE pending'[q] = pending[q]
    BY <1>1, <1>3, <2>1, KnownOfProfile DEF PromiseOfLoad, Loading, Idle
  <2>2. CASE pending'[q] # pending[q]
    <3>1. q = p /\ pending'[q] = c /\ pc'[c] = "wait" /\ on'[c] = c
      BY <1>5, <2>2, KnownOfProfile DEF Inv, TypeOK
    <3>2. QED BY <1>1, <3>1 DEF PromiseOfLoad, Loading
  <2>3. QED BY <2>1, <2>2
<1>9. QED BY <1>4, <1>7, <1>8 DEF PromiseInv

(* The executor of a promise: reading changes only what call d has read;   *)
(* settling answers every call that awaits d.                              *)
LEMMA ReadSourceInv ==
  ASSUME Inv, NEW d \in Calls, ReadSource(d)
  PROVE  FreshInv' /\ PromiseInv'
<1>1. /\ UNCHANGED <<version, saved, browser, pending, pc, kind, profile, on, got, floor, since>>
      /\ read' = [read EXCEPT ![d] = version[profile[d]]] /\ Loading(d)
  BY DEF ReadSource, sources, managers, Silent
<1>2. ASSUME NEW p \in Profiles PROVE CacheFresh(p)' /\ PromiseOfLoad(p)'
  BY <1>1, KnownOfProfile DEF CacheFresh, Reaches, PromiseOfLoad, Loading
<1>3. ASSUME NEW c \in Calls PROVE CallFresh(c)' /\ WaitsForLoad(c)'
  <2>1. CacheFresh(profile[d])
    BY KnownOfCall, KnownOfProfile
  <2>2. read'[c] = (IF c = d THEN version[profile[d]] ELSE read[c])
    BY <1>1 DEF Inv, TypeOK
  <2>3. CallFresh(c)'
    BY <1>1, <2>1, <2>2, KnownOfCall, KnownOfProfile DEF CallFresh, CacheFresh, Reaches, Writes
  <2>4. WaitsForLoad(c)'
    BY <1>1, <2>2, KnownOfCall DEF WaitsForLoad, Loading
  <2>5. QED BY <2>3, <2>4
<1>4. QED BY <1>2, <1>3 DEF FreshInv, PromiseInv

LEMMA SettleCalls ==
  ASSUME Inv, NEW d \in Calls, Loading(d), NEW v \in Outcome, Settle(d, v),
         Reaches(v, profile[d])
  PROVE  \A c \in Calls : CallFresh(c)' /\ WaitsForLoad(c)'
<1> USE ProfilesAssumption, VersionsAssumption
<1> SUFFICES ASSUME NEW c \in Calls PROVE CallFresh(c)' /\ WaitsForLoad(c)'
  OBVIOUS
<1>1. UNCHANGED <<version, floor, since, profile, kind>>
  BY DEF Settle, sources, Silent
<1>2. v # None
  BY DEF Outcome
<1>3. CASE on[c] = d
  <2>1. pc[c] = "wait" /\ profile[c] = profile[d]
    BY <1>3, KnownOfCall DEF WaitsForLoad
  <2>2. /\ pc'[c] \in {"got", "made"} /\ got'[c] = v /\ on'[c] = None
        /\ read'[c] = IF c = d THEN None ELSE read[c]
    BY <1>3 DEF Settle, Inv, TypeOK
  <2>3. read'[c] = None
    BY <1>3, <2>2, KnownOfCall DEF WaitsForLoad, Loading
  <2>4. CallFresh(c)'
    <3>1. since[c] <= floor[profile[d]] /\ since[c] \in Nat /\ floor[profile[d]] \in Nat
          /\ version[profile[d]] \in Nat /\ since[c] <= version[profile[d]]
      BY <2>1, KnownOfCall, KnownOfProfile DEF CallFresh, Idle, Inv, TypeOK
    <3>2. read'[c] \notin Nat
      BY <2>3
    <3>3. QED BY <1>1, <2>1, <2>2, <3>1, <3>2 DEF CallFresh, Reaches
  <2>5. WaitsForLoad(c)'
    BY <1>2, <2>2, <2>3 DEF WaitsForLoad, Idle
  <2>6. QED BY <2>4, <2>5
<1>4. CASE on[c] # d
  <2>1. UNCHANGED <<pc[c], got[c], on[c], read[c]>>
    BY <1>4 DEF Settle, Inv, TypeOK, Loading
  <2>2. on[c] # None => UNCHANGED on[on[c]]
    BY <1>4, KnownOfCall DEF Settle, Loading
  <2>3. CallFresh(c)'
    BY <1>1, <2>1, KnownOfCall DEF CallFresh, Reaches, Writes
  <2>4. WaitsForLoad(c)'
    BY <1>1, <2>1, <2>2, KnownOfCall DEF WaitsForLoad, Loading
  <2>5. QED BY <2>3, <2>4
<1>5. QED BY <1>3, <1>4

(* A promise that is kept and is not d's stays that of a load.             *)
LEMMA SettleOthers ==
  ASSUME Inv, NEW d \in Calls, Loading(d), NEW v, Settle(d, v),
         NEW p \in Profiles, pending[p] \in Calls, pending[p] # d,
         saved[p] # None => saved'[p] # None, pending'[p] = pending[p]
  PROVE  PromiseOfLoad(p)'
<1> DEFINE e == pending[p]
<1>1. PromiseOfLoad(p)
  BY KnownOfProfile
<1>2. Loading(e) \/ pc[e] = "made"
  BY <1>1 DEF PromiseOfLoad
<1>3. on[e] # d
  BY <1>2, KnownOfCall DEF Loading, WaitsForLoad
<1>4. UNCHANGED <<pc[e], got[e], on[e], profile>>
  BY <1>3 DEF Settle
<1>5. QED BY <1>1, <1>4 DEF PromiseOfLoad, Loading

LEMMA ResolveInv ==
  ASSUME Inv, NEW d \in Calls, Resolve(d)
  PROVE  FreshInv' /\ PromiseInv'
<1> USE ProfilesAssumption, VersionsAssumption
<1>1. /\ Loading(d) /\ Settle(d, read[d]) /\ UNCHANGED <<pending, version, browser, floor, profile>>
      /\ saved' = [saved EXCEPT ![profile[d]] = read[d]]
  BY DEF Resolve, Settle, sources, Silent
<1>2. read[d] \in Nat /\ Reaches(read[d], profile[d]) /\ profile[d] \in Profiles
  BY <1>1, KnownOfCall DEF Resolve, Cached, CallFresh, Loading, Idle
<1>3. \A c \in Calls : CallFresh(c)' /\ WaitsForLoad(c)'
  BY <1>1, <1>2, SettleCalls DEF Outcome
<1>4. ASSUME NEW p \in Profiles PROVE CacheFresh(p)'
  <2>1. saved'[p] = IF p = profile[d] THEN read[d] ELSE saved[p]
    BY <1>1 DEF Inv, TypeOK
  <2>2. QED BY <1>1, <1>2, <2>1, KnownOfProfile DEF CacheFresh, Reaches
<1>5. ASSUME NEW p \in Profiles, pending[p] \in Calls PROVE PromiseOfLoad(p)'
  <2>1. saved[p] # None => saved'[p] # None
    BY <1>1, <1>2 DEF Inv, TypeOK
  <2>2. CASE pending[p] # d
    BY <1>1, <1>5, <2>1, <2>2, SettleOthers
  <2>3. CASE pending[p] = d
    <3>1. profile[d] = p
      BY <1>5, <2>3, KnownOfProfile DEF PromiseOfLoad
    <3>2. pc'[d] = "made" /\ got'[d] = read[d] /\ saved'[p] = read[d]
      BY <1>1, <3>1 DEF Settle, Loading, Inv, TypeOK
    <3>3. QED BY <1>1, <1>2, <2>3, <3>1, <3>2 DEF PromiseOfLoad
  <2>4. QED BY <2>2, <2>3
<1>6. ASSUME NEW p \in Profiles PROVE PromiseOfLoad(p)'
  BY <1>1, <1>5 DEF PromiseOfLoad
<1>7. QED BY <1>3, <1>4, <1>6 DEF FreshInv, PromiseInv

LEMMA BreakInv ==
  ASSUME Inv, NEW d \in Calls, Reject(d) \/ LoaderThrows(d)
  PROVE  FreshInv' /\ PromiseInv'
<1> USE ProfilesAssumption, VersionsAssumption
<1>1. PICK v \in {Failed, Lost} : Break(d, v)
  BY DEF Reject, LoaderThrows
<1>2. /\ Loading(d) /\ Settle(d, v) /\ UNCHANGED <<saved, version, browser, floor, profile>>
      /\ pending' = [p \in Profiles |-> IF pending[p] = d THEN v ELSE pending[p]]
  BY <1>1 DEF Break, Settle, sources, Silent
<1>3. \A c \in Calls : CallFresh(c)' /\ WaitsForLoad(c)'
  BY <1>2, SettleCalls DEF Outcome, Reaches
<1>4. ASSUME NEW p \in Profiles PROVE CacheFresh(p)'
  BY <1>2, KnownOfProfile DEF CacheFresh, Reaches
<1>5. ASSUME NEW p \in Profiles PROVE PromiseOfLoad(p)'
  BY <1>2, SettleOthers DEF PromiseOfLoad
<1>6. QED BY <1>3, <1>4, <1>5 DEF FreshInv, PromiseInv

-----------------------------------------------------------------------------
(* The floors rise, but not above what a call under way brings.            *)

Rising ==
  /\ \A p \in Profiles : floor'[p] \in Nat /\ floor[p] <= floor'[p]
  /\ \A c \in Calls : Brings(c) \in Nat => floor'[profile[c]] <= Brings(c)

LEMMA SameFloors == Inv /\ UNCHANGED floor => Rising
<1> SUFFICES ASSUME Inv, UNCHANGED floor PROVE Rising
  OBVIOUS
<1>1. \A p \in Profiles : floor[p] \in Nat
  BY KnownOfProfile
<1>2. \A c \in Calls : Brings(c) \in Nat => floor[profile[c]] <= Brings(c)
  BY BringsReach DEF Reaches
<1>3. QED BY <1>1, <1>2 DEF Rising

LEMMA RaisedFloors ==
  ASSUME Inv, NEW ps, RaiseFloors(ps)
  PROVE  Rising /\ \A p \in Profiles : floor'[p] <= version[p]
<1>1. ASSUME NEW p \in Profiles, NEW v \in Held(p) PROVE v \in Nat /\ floor[p] <= v
  <2>1. PICK c \in Calls : profile[c] = p /\ v = Brings(c)
    BY <1>1 DEF Held
  <2>2. Reaches(v, p)
    BY <2>1, BringsReach
  <2>3. v \in Nat
    BY <1>1 DEF Held
  <2>4. QED BY <2>2, <2>3 DEF Reaches
<1>2. ASSUME NEW p \in Profiles
      PROVE  floor'[p] \in Nat /\ floor[p] <= floor'[p] /\ floor'[p] <= version[p]
  <2>1. version[p] \in Nat /\ floor[p] \in Nat /\ floor[p] <= version[p]
    BY KnownOfProfile DEF CacheFresh
  <2>2. floor'[p] \in {floor[p], Oldest(p)}
    BY DEF RaiseFloors
  <2>3. Oldest(p) \in Nat /\ floor[p] <= Oldest(p) /\ Oldest(p) <= version[p]
    BY <1>1, <2>1, OldestHeld
  <2>4. QED BY <2>1, <2>2, <2>3
<1>3. ASSUME NEW c \in Calls, Brings(c) \in Nat PROVE floor'[profile[c]] <= Brings(c)
  <2>1. profile[c] \in Profiles /\ version[profile[c]] \in Nat
    BY KnownOfCall, KnownOfProfile
  <2>2. floor[profile[c]] <= Brings(c)
    BY <1>3, BringsReach DEF Reaches
  <2>3. Brings(c) \in Held(profile[c])
    BY <1>3 DEF Held
  <2>4. Oldest(profile[c]) <= Brings(c)
    BY <2>1, <2>3, OldestHeld
  <2>5. floor'[profile[c]] \in {floor[profile[c]], Oldest(profile[c])}
    BY <2>1 DEF RaiseFloors
  <2>6. QED BY <2>2, <2>4, <2>5
<1>4. QED BY <1>2, <1>3 DEF Rising

(* So a call that nothing else touches stays fresh.                        *)
LEMMA RisenCall ==
  ASSUME Inv, Rising, NEW c \in Calls, UNCHANGED version,
         UNCHANGED <<pc[c], kind[c], profile[c], got[c], read[c], since[c]>>
  PROVE  CallFresh(c)'
<1> SUFFICES ASSUME pc[c] \notin {Idle, "stuck"} PROVE CallFresh(c)'
  BY DEF CallFresh
<1>1. CallFresh(c) /\ profile[c] \in Profiles /\ Reaches(Brings(c), profile[c])
      /\ since[c] \in Nat
  BY KnownOfCall, BringsReach DEF Inv, TypeOK
<1>2. floor'[profile[c]] \in Nat /\ floor[profile[c]] \in Nat /\ floor[profile[c]] <= floor'[profile[c]]
      /\ (Brings(c) \in Nat => floor'[profile[c]] <= Brings(c))
  BY <1>1, KnownOfProfile DEF Rising
<1>3. CASE Writes(c)
  <2>1. read[c] = None
    BY <1>3, KnownOfCall DEF Writes, WaitsForLoad, Loading
  <2>2. QED BY <1>1, <1>2, <1>3, <2>1, VersionsAssumption DEF CallFresh, Reaches, Brings, Writes
<1>4. CASE ~Writes(c)
  BY <1>1, <1>2, <1>4 DEF CallFresh, Reaches, Brings, Writes
<1>5. QED BY <1>3, <1>4

-----------------------------------------------------------------------------
(* A call that ends.  No other call waits for it.                          *)

LEMMA EndedCall ==
  ASSUME Inv, NEW c \in Calls, NEW l \in {Idle, "stuck"}, pc[c] \in {"got", "made", "read"},
         End(c, l), UNCHANGED version, since' = [since EXCEPT ![c] = 0], Rising
  PROVE  \A d \in Calls : CallFresh(d)' /\ WaitsForLoad(d)'
<1> SUFFICES ASSUME NEW d \in Calls PROVE CallFresh(d)' /\ WaitsForLoad(d)'
  OBVIOUS
<1>1. on[c] = None /\ read[c] = None
  BY KnownOfCall DEF WaitsForLoad, Loading
<1>2. /\ pc'[c] = l /\ got'[c] = None /\ UNCHANGED <<on, read>>
  BY DEF End, Inv, TypeOK
<1>3. CASE d = c
  BY <1>1, <1>2, <1>3 DEF CallFresh, WaitsForLoad, Idle
<1>4. CASE d # c
  <2>1. UNCHANGED <<pc[d], kind[d], profile[d], got[d], since[d]>>
    BY <1>4 DEF End, Inv, TypeOK
  <2>2. CallFresh(d)'
    BY <1>2, <2>1, RisenCall
  <2>3. on[d] # None => on[d] # c /\ UNCHANGED profile[on[d]]
    BY <1>1, KnownOfCall DEF Loading, End
  <2>4. WaitsForLoad(d)'
    BY <1>2, <2>1, <2>3, KnownOfCall DEF WaitsForLoad, Loading
  <2>5. QED BY <2>2, <2>4
<1>5. QED BY <1>3, <1>4

LEMMA EndedPromise ==
  ASSUME Inv, NEW c \in Calls, NEW l, End(c, l),
         NEW p \in Profiles, pending[p] \in Calls => pending[p] # c,
         saved[p] # None => saved'[p] # None, pending'[p] = pending[p]
  PROVE  PromiseOfLoad(p)'
<1>1. PromiseOfLoad(p)
  BY KnownOfProfile
<1>2. pending[p] \in Calls => UNCHANGED <<pc[pending[p]], profile[pending[p]], got[pending[p]], on>>
  BY DEF End, Inv, TypeOK
<1>3. QED BY <1>1, <1>2 DEF PromiseOfLoad, Loading

LEMMA DeliverInv ==
  ASSUME Inv, NEW c \in Calls, Deliver(c)
  PROVE  FreshInv' /\ PromiseInv'
<1> USE ProfilesAssumption, VersionsAssumption
<1>1. /\ pc[c] \in {"got", "made"} /\ got[c] \in Nat /\ End(c, Idle)
      /\ UNCHANGED <<version, floor>> /\ since' = [since EXCEPT ![c] = 0]
  BY DEF Deliver, Reply, sources
<1>2. (Writes(c) => Reaches(got[c], profile[c])) /\ profile[c] \in Profiles
  BY <1>1, KnownOfCall DEF CallFresh, Idle
<1>3. \A d \in Calls : CallFresh(d)' /\ WaitsForLoad(d)'
  BY <1>1, SameFloors, EndedCall
<1>4. ASSUME NEW p \in Profiles
      PROVE  saved'[p] \in {saved[p], got[c]} /\ browser'[p] \in {browser[p], got[c]}
             /\ (p # profile[c] \/ ~Writes(c) => UNCHANGED <<saved[p], browser[p]>>)
             /\ pending'[p] = IF pc[c] = "made" /\ p = profile[c] THEN None ELSE pending[p]
  BY DEF Deliver, Writes, Inv, TypeOK
<1>5. ASSUME NEW p \in Profiles PROVE CacheFresh(p)'
  BY <1>1, <1>2, <1>4, KnownOfProfile DEF CacheFresh, Reaches
<1>6. ASSUME NEW p \in Profiles PROVE PromiseOfLoad(p)'
  <2>1. CASE pc[c] = "made" /\ p = profile[c]
    BY <1>4, <2>1 DEF PromiseOfLoad
  <2>2. CASE ~(pc[c] = "made" /\ p = profile[c])
    <3>1. pending[p] # c
      BY <1>1, <2>2, KnownOfProfile DEF PromiseOfLoad, Loading
    <3>2. saved[p] # None => saved'[p] # None
      BY <1>1, <1>4
    <3>3. QED BY <1>1, <1>4, <2>2, <3>1, <3>2, EndedPromise
  <2>3. QED BY <2>1, <2>2
<1>7. QED BY <1>3, <1>5, <1>6 DEF FreshInv, PromiseInv

(* A call that gives up leaves the caches alone.                           *)
LEMMA GiveUpInv ==
  ASSUME Inv, NEW c \in Calls, DeliverError(c) \/ WaitForEver(c) \/ ReloadFails(c)
  PROVE  FreshInv' /\ PromiseInv'
<1> USE ProfilesAssumption, VersionsAssumption
<1>1. PICK l \in {Idle, "stuck"} : End(c, l)
  BY DEF DeliverError, WaitForEver, ReloadFails
<1>2. /\ UNCHANGED <<version, saved, browser, pending, floor>> /\ since' = [since EXCEPT ![c] = 0]
      /\ \/ pc[c] = "read"
         \/ pc[c] \in {"got", "made"} /\ got[c] \notin Nat
  BY DEF DeliverError, WaitForEver, ReloadFails, Reply, sources, managers
<1>3. \A d \in Calls : CallFresh(d)' /\ WaitsForLoad(d)'
  BY <1>1, <1>2, SameFloors, EndedCall
<1>4. ASSUME NEW p \in Profiles PROVE CacheFresh(p)'
  BY <1>2, KnownOfProfile DEF CacheFresh, Reaches
<1>5. ASSUME NEW p \in Profiles PROVE PromiseOfLoad(p)'
  <2>1. pending[p] \in Calls => pending[p] # c
    BY <1>2, KnownOfProfile DEF PromiseOfLoad, Loading
  <2>2. QED BY <1>1, <1>2, <2>1, EndedPromise
<1>6. QED BY <1>3, <1>4, <1>5 DEF FreshInv, PromiseInv

-----------------------------------------------------------------------------
(* reloadConfig, and changes of the source.                                *)

(* Where a floor rises, the caches of the profile are cleared in the same  *)
(* step.                                                                   *)
LEMMA ClearFresh ==
  ASSUME Inv, NEW ps, Clear(ps), RaiseFloors(ps), UNCHANGED version
  PROVE  /\ Rising /\ \A p \in Profiles : CacheFresh(p)'
         /\ \A p \in Profiles : pending'[p] = None \/ UNCHANGED <<pending[p], saved[p]>>
<1>1. Rising /\ \A p \in Profiles : floor'[p] <= version[p]
  BY RaisedFloors
<1>2. ASSUME NEW p \in Profiles PROVE CacheFresh(p)'
  BY <1>1, VersionsAssumption, KnownOfProfile DEF Clear, RaiseFloors, CacheFresh, Reaches
<1>3. \A p \in Profiles : pending'[p] = None \/ UNCHANGED <<pending[p], saved[p]>>
  BY DEF Clear
<1>4. QED BY <1>1, <1>2, <1>3

LEMMA ReloadInv ==
  ASSUME Inv, NEW c \in Calls, Reload(c)
  PROVE  FreshInv' /\ PromiseInv'
<1> USE ProfilesAssumption, VersionsAssumption
<1>1. /\ UNCHANGED <<version, on, got, read>> /\ pc[c] = Idle /\ selected \in Profiles
      /\ pc' = [pc EXCEPT ![c] = "read"] /\ profile' = [profile EXCEPT ![c] = selected]
      /\ since' = [since EXCEPT ![c] = floor'[selected]]
  BY DEF Reload, Begin, sources, Inv, TypeOK
<1>2. Rising /\ \A p \in Profiles : CacheFresh(p)'
  BY <1>1, ClearFresh DEF Reload
<1>3. \A p \in Profiles : pending'[p] = None \/ UNCHANGED <<pending[p], saved[p]>>
  BY <1>1, ClearFresh DEF Reload
<1>4. on[c] = None /\ read[c] = None /\ got[c] = None
  BY <1>1, KnownOfCall DEF WaitsForLoad, Loading, Idle
<1>5. pc'[c] = "read" /\ profile'[c] = selected /\ since'[c] = floor'[selected]
  BY <1>1 DEF Inv, TypeOK
<1>6. CallFresh(c)' /\ WaitsForLoad(c)'
  BY <1>1, <1>2, <1>4, <1>5 DEF CallFresh, CacheFresh, Writes, Reaches, WaitsForLoad, Cached, Idle
<1>7. ASSUME NEW d \in Calls, d # c PROVE CallFresh(d)' /\ WaitsForLoad(d)'
  <2>1. UNCHANGED <<pc[d], kind[d], profile[d], since[d]>>
    BY <1>1, <1>7 DEF Reload, Begin, Inv, TypeOK
  <2>2. CallFresh(d)'
    BY <1>1, <1>2, <2>1, RisenCall
  <2>3. on[d] # None => on[d] # c /\ UNCHANGED profile[on[d]]
    BY <1>1, <1>4, KnownOfCall DEF Loading, Inv, TypeOK
  <2>4. WaitsForLoad(d)'
    BY <1>1, <2>1, <2>3, KnownOfCall DEF WaitsForLoad, Loading
  <2>5. QED BY <2>2, <2>4
<1>8. ASSUME NEW p \in Profiles PROVE PromiseOfLoad(p)'
  <2>1. pending[p] \in Calls => pending[p] # c
    BY <1>1, <1>4, KnownOfProfile DEF PromiseOfLoad, Loading, Idle
  <2>2. CASE pending'[p] = None
    BY <2>2 DEF PromiseOfLoad
  <2>3. CASE pending'[p] # None /\ pending[p] \in Calls
    <3>1. UNCHANGED <<pending[p], saved[p], pc[pending[p]], profile[pending[p]]>>
      BY <1>1, <1>3, <2>1, <2>3 DEF Inv, TypeOK
    <3>2. QED BY <1>1, <2>3, <3>1, KnownOfProfile DEF PromiseOfLoad, Loading
  <2>4. QED BY <1>3, <2>2, <2>3 DEF PromiseOfLoad
<1>9. QED BY <1>2, <1>6, <1>7, <1>8 DEF FreshInv, PromiseInv

LEMMA ReloadReadsInv ==
  ASSUME Inv, NEW c \in Calls, ReloadReads(c)
  PROVE  FreshInv' /\ PromiseInv'
<1> USE ProfilesAssumption, VersionsAssumption
<1>1. /\ UNCHANGED <<version, saved, browser, pending, pc, kind, profile, on, read, floor, since>>
      /\ pc[c] = "read" /\ got' = [got EXCEPT ![c] = version[profile[c]]]
  BY DEF ReloadReads, sources, managers, Silent
<1>2. ASSUME NEW p \in Profiles PROVE CacheFresh(p)' /\ PromiseOfLoad(p)'
  <2>1. pending[p] \in Calls => UNCHANGED got[pending[p]] \/ pc[pending[p]] = "read"
    BY <1>1 DEF Inv, TypeOK
  <2>2. QED BY <1>1, <2>1, KnownOfProfile, KnownOfCall
               DEF CacheFresh, Reaches, PromiseOfLoad, Loading
<1>3. ASSUME NEW d \in Calls PROVE CallFresh(d)' /\ WaitsForLoad(d)'
  <2>1. CacheFresh(profile[c]) /\ version[profile[c]] \in Nat
    BY KnownOfCall, KnownOfProfile
  <2>2. got'[d] = IF d = c THEN version[profile[c]] ELSE got[d]
    BY <1>1 DEF Inv, TypeOK
  <2>3. CallFresh(d)'
    BY <1>1, <2>1, <2>2, KnownOfCall DEF CallFresh, CacheFresh, Reaches, Writes, Idle, Inv, TypeOK
  <2>4. WaitsForLoad(d)'
    BY <1>1, <2>1, <2>2, KnownOfCall DEF WaitsForLoad, Loading, Cached, Idle
  <2>5. QED BY <2>3, <2>4
<1>4. QED BY <1>2, <1>3 DEF FreshInv, PromiseInv

LEMMA ReloadEndsInv ==
  ASSUME Inv, NEW c \in Calls, ReloadEnds(c)
  PROVE  FreshInv' /\ PromiseInv'
<1>1. /\ pc[c] = "read" /\ End(c, Idle) /\ UNCHANGED version
      /\ since' = [since EXCEPT ![c] = 0]
  BY DEF ReloadEnds, Reply, sources
<1>2. Rising /\ \A p \in Profiles : CacheFresh(p)'
  BY <1>1, ClearFresh DEF ReloadEnds
<1>3. \A p \in Profiles : pending'[p] = None \/ UNCHANGED <<pending[p], saved[p]>>
  BY <1>1, ClearFresh DEF ReloadEnds
<1>4. \A d \in Calls : CallFresh(d)' /\ WaitsForLoad(d)'
  BY <1>1, <1>2, EndedCall
<1>5. ASSUME NEW p \in Profiles PROVE PromiseOfLoad(p)'
  <2>1. CASE pending'[p] = None
    BY <2>1, ProfilesAssumption DEF PromiseOfLoad
  <2>2. CASE pending'[p] # None
    <3>1. pending[p] \in Calls => pending[p] # c
      BY <1>1, KnownOfProfile DEF PromiseOfLoad, Loading
    <3>2. UNCHANGED <<pending[p], saved[p]>>
      BY <1>3, <2>2
    <3>3. QED BY <1>1, <3>1, <3>2, EndedPromise
  <2>3. QED BY <2>1, <2>2
<1>6. QED BY <1>2, <1>4, <1>5 DEF FreshInv, PromiseInv

LEMMA SamePromises ==
  ASSUME PromiseInv, UNCHANGED <<saved, pending, pc, profile, on, got, read>>
  PROVE  PromiseInv'
  BY DEF PromiseInv, WaitsForLoad, PromiseOfLoad, Loading

LEMMA ChangeSourceInv ==
  ASSUME Inv, NEW p \in Profiles, ChangeSource(p)
  PROVE  FreshInv' /\ PromiseInv'
<1>1. /\ version' = [version EXCEPT ![p] = @ + 1]
      /\ UNCHANGED <<saved, browser, pending, pc, kind, profile, on, got, read, floor, since>>
  BY ChangeStep DEF managers, calls, Silent
<1>2. \A q \in Profiles : version'[q] \in Nat /\ version[q] \in Nat /\ version[q] <= version'[q]
  BY <1>1 DEF Inv, TypeOK
<1>3. ASSUME NEW q \in Profiles PROVE CacheFresh(q)'
  BY <1>1, <1>2, KnownOfProfile DEF CacheFresh, Reaches
<1>4. ASSUME NEW c \in Calls PROVE CallFresh(c)'
  <2>1. /\ profile[c] \in Profiles /\ CallFresh(c)
        /\ floor[profile[c]] \in Nat /\ since[c] \in Nat
    BY KnownOfCall, KnownOfProfile DEF Inv, TypeOK
  <2>2. QED BY <1>1, <1>2, <2>1 DEF CallFresh, Reaches, Writes
<1>5. PromiseInv'
  BY <1>1, SamePromises DEF Inv
<1>6. QED BY <1>3, <1>4, <1>5 DEF FreshInv

LEMMA NextInv == Inv /\ [Next]_vars => Inv'
<1> SUFFICES ASSUME Inv, [Next]_vars PROVE Inv'
  OBVIOUS
<1>1. TypeOK'
  BY NextType DEF Inv
<1>2. ASSUME NEW c \in Calls, CallStep(c) PROVE FreshInv' /\ PromiseInv'
  BY <1>2, ReadSourceInv, ResolveInv, BreakInv, DeliverInv, GiveUpInv, ReloadReadsInv, ReloadEndsInv
     DEF CallStep
<1>3. ASSUME NEW c \in Calls, Caller(c) PROVE FreshInv' /\ PromiseInv'
  <2>1. selected \in Profiles
    BY DEF Inv, TypeOK
  <2>2. CASE LoadConfig(c) \/ GetSerializedConfig(c) \/ SetSelectedProfile(c)
    BY <2>1, <2>2, RequestFresh, RequestPromise DEF LoadConfig, GetSerializedConfig, SetSelectedProfile
  <2>3. QED BY <1>3, <2>2, ReloadInv DEF Caller
<1>4. ASSUME NEW p \in Profiles, ChangeSource(p) PROVE FreshInv' /\ PromiseInv'
  BY <1>4, ChangeSourceInv
<1>5. CASE UNCHANGED vars
  <2>1. UNCHANGED <<version, saved, browser, pending, pc, kind, profile, on, got, read, floor, since>>
    BY <1>5 DEF vars, sources, managers, calls
  <2>2. FreshInv'
    BY <2>1 DEF Inv, FreshInv, CacheFresh, CallFresh, Reaches, Writes
  <2>3. PromiseInv'
    BY <2>1, SamePromises DEF Inv
  <2>4. QED BY <1>1, <2>2, <2>3 DEF Inv
<1>6. QED BY <1>1, <1>2, <1>3, <1>4, <1>5 DEF Next, Inv

(* For any number of profiles, calls and changes: the fields of a manager  *)
(* hold what their types say.                                              *)
THEOREM TypeCorrect == Spec => []TypeOK
<1>1. Init => TypeOK
  BY InitInv DEF Inv
<1>2. QED BY <1>1, NextType, PTL DEF Spec

(* The caches of ProfileLifecycleManager hold no config older than what    *)
(* the last reload of the profile found, but for what a call under way at  *)
(* that reload had read before and caches afterwards.                      *)
THEOREM CachesAreFresh == Spec => []CachesReachFloor
<1>1. Inv => CachesReachFloor
  <2> SUFFICES ASSUME Inv, NEW p \in Profiles
               PROVE  /\ saved[p] \in {None} \cup floor[p] .. version[p]
                      /\ browser[p] \in {None} \cup floor[p] .. version[p]
    BY DEF CachesReachFloor
  <2> QED BY KnownOfProfile DEF CacheFresh, Reaches, Cached
<1>2. QED BY <1>1, InitInv, NextInv, PTL DEF Spec

-----------------------------------------------------------------------------
(* ProfileConfig implements ConfigSource.                                  *)

LEMMA FloorsRise == ASSUME Inv, Inv', [Next]_vars PROVE Source!FloorsRise
<1> SUFFICES ASSUME NEW p \in Profiles PROVE floor'[p] \in floor[p] .. version'[p]
  BY DEF Source!FloorsRise
<1>1. Rising
  <2>1. ASSUME NEW c \in Calls, CallStep(c) \/ Caller(c)
        PROVE  UNCHANGED floor \/ \E ps : RaiseFloors(ps)
    <3>1. CASE Reload(c) \/ ReloadEnds(c)
      BY <3>1 DEF Reload, ReloadEnds
    <3>2. CASE ~(Reload(c) \/ ReloadEnds(c))
      BY <2>1, <3>2 DEF CallStep, ReadSource, Resolve, Reject, LoaderThrows, Break, Settle, Deliver,
                DeliverError, WaitForEver, ReloadReads, ReloadFails, Caller, LoadConfig,
                GetSerializedConfig, SetSelectedProfile, Request, Silent
    <3>3. QED BY <3>1, <3>2
  <2>2. ASSUME NEW q \in Profiles, ChangeSource(q) PROVE UNCHANGED floor
    BY <2>2, ChangeStep DEF Silent
  <2>3. UNCHANGED vars => UNCHANGED floor
    BY DEF vars
  <2>4. UNCHANGED floor \/ \E ps : RaiseFloors(ps)
    BY <2>1, <2>2, <2>3, Zenon DEF Next
  <2>5. CASE UNCHANGED floor
    BY <2>5, SameFloors
  <2>6. ASSUME NEW ps, RaiseFloors(ps) PROVE Rising
    BY <2>6, RaisedFloors
  <2>7. QED BY <2>4, <2>5, <2>6, Zenon
<1>2. CacheFresh(p) /\ CacheFresh(p)' /\ floor[p] \in Nat /\ version[p] \in Nat
      /\ floor'[p] \in Nat /\ version'[p] \in Nat
  BY DEF Inv, FreshInv, TypeOK
<1>3. QED BY <1>1, <1>2 DEF CacheFresh, Rising

(* Who is asking changes only in the steps that begin or end a call.       *)
LEMMA AskingOf ==
  ASSUME NEW c \in Calls
  PROVE  /\ Asking[c] = IF pc[c] = Idle THEN None ELSE IF pc[c] = "stuck" THEN Lost ELSE profile[c]
         /\ Asking'[c] = IF pc'[c] = Idle THEN None ELSE IF pc'[c] = "stuck" THEN Lost ELSE profile'[c]
  BY DEF Asking, Idle

LEMMA SameAsking ==
  ASSUME \A c \in Calls : UNCHANGED profile[c] /\ (UNCHANGED pc[c] \/
                          ({pc[c], pc'[c]} \subseteq {"wait", "got", "made"}))
  PROVE  UNCHANGED Asking
<1> SUFFICES ASSUME NEW c \in Calls PROVE Asking'[c] = Asking[c]
  BY DEF Asking
<1> QED BY AskingOf DEF Idle

LEMMA AskingUpdate ==
  ASSUME NEW c \in Calls, NEW v,
         \A d \in Calls : Asking'[d] = IF d = c THEN v ELSE Asking[d]
  PROVE  Asking' = [Asking EXCEPT ![c] = v]
<1>1. Asking = [d \in Calls |-> Asking[d]]
  BY DEF Asking
<1>2. Asking' = [d \in Calls |-> Asking'[d]]
  BY DEF Asking
<1>3. QED BY <1>1, <1>2

LEMMA SilentStep ==
  ASSUME Inv, NEW d \in Calls,
         ReadSource(d) \/ Resolve(d) \/ Reject(d) \/ LoaderThrows(d) \/ ReloadReads(d)
  PROVE  answer' = None /\ UNCHANGED <<version, Asking, since>>
<1>1. CASE ReadSource(d) \/ ReloadReads(d)
  BY <1>1, SameAsking DEF ReadSource, ReloadReads, sources, Silent
<1>2. CASE Resolve(d) \/ Reject(d) \/ LoaderThrows(d)
  <2>1. PICK v : Settle(d, v)
    BY <1>2 DEF Resolve, Reject, LoaderThrows, Break
  <2>2. ASSUME NEW c \in Calls, pc'[c] # pc[c]
        PROVE  pc[c] = "wait" /\ pc'[c] \in {"got", "made"}
    BY <2>1, <2>2, KnownOfCall, <1>2, ProfilesAssumption DEF Settle, WaitsForLoad
  <2>3. UNCHANGED Asking
    BY <2>1, <2>2, SameAsking DEF Settle
  <2>4. QED BY <2>1, <2>3 DEF Settle, sources, Silent
<1>3. QED BY <1>1, <1>2

LEMMA AskStep ==
  ASSUME Inv, NEW c \in Calls, NEW p \in Profiles, pc[c] = Idle,
         NEW l \in {"got", "wait", "read"}, NEW k, Begin(c, k, p, l), UNCHANGED version
  PROVE  Source!Ask(c, p)
<1>1. Asking[c] = None
  BY AskingOf
<1>2. Asking' = [Asking EXCEPT ![c] = p]
  <2> SUFFICES ASSUME NEW d \in Calls PROVE Asking'[d] = IF d = c THEN p ELSE Asking[d]
    BY AskingUpdate
  <2>1. /\ pc'[d] = IF d = c THEN l ELSE pc[d]
        /\ profile'[d] = IF d = c THEN p ELSE profile[d]
    BY DEF Begin, Inv, TypeOK
  <2>2. QED BY <2>1, AskingOf DEF Idle
<1>3. QED BY <1>1, <1>2 DEF Begin, Source!Ask

LEMMA ReplyStep ==
  ASSUME Inv, NEW c \in Calls, pc[c] \in {"got", "made", "read"}, NEW a,
         NEW l \in {Idle, "stuck"}, End(c, l), Reply(c, a), UNCHANGED version
  PROVE  /\ Asking[c] = profile[c]
         /\ Source!Reply(c, a, IF l = Idle THEN None ELSE Lost)
<1>1. Asking[c] = profile[c] /\ profile[c] \in Profiles
  BY AskingOf, KnownOfCall DEF Idle
<1>2. Asking' = [Asking EXCEPT ![c] = IF l = Idle THEN None ELSE Lost]
  <2> SUFFICES ASSUME NEW d \in Calls
               PROVE  Asking'[d] = IF d = c THEN (IF l = Idle THEN None ELSE Lost) ELSE Asking[d]
    BY AskingUpdate
  <2>1. /\ pc'[d] = IF d = c THEN l ELSE pc[d]
        /\ d # c => profile'[d] = profile[d]
    BY DEF End, Inv, TypeOK
  <2>2. QED BY <2>1, AskingOf DEF Idle
<1>3. QED BY <1>1, <1>2 DEF Reply, Source!Reply

LEMMA RequestAsks ==
  ASSUME Inv, NEW c \in Calls, NEW p \in Profiles, NEW k, Request(c, k, p)
  PROVE  Source!Ask(c, p)
<1>1. PICK j \in {k, "load"}, l \in {"got", "wait"} : Begin(c, j, p, l)
  BY DEF Request, UseBrowserConfig, UseSavedConfig, UsePending, StartLoad, Get, Await
<1>2. pc[c] = Idle /\ UNCHANGED version
  BY <1>1 DEF Begin, Request
<1>3. QED BY <1>1, <1>2, AskStep

LEMMA CallRefines ==
  ASSUME Inv, Inv', NEW c \in Calls, CallStep(c) \/ Caller(c)
  PROVE  \/ \E p \in Profiles : Source!Ask(c, p)
         \/ Source!Answer(c) \/ Source!Fail(c) \/ Source!Lose(c)
         \/ answer' = None /\ UNCHANGED <<version, Asking, since>>
<1> USE ProfilesAssumption, VersionsAssumption
<1>1. selected \in Profiles
  BY DEF Inv, TypeOK
<1>2. CASE ReadSource(c) \/ Resolve(c) \/ Reject(c) \/ LoaderThrows(c) \/ ReloadReads(c)
  BY <1>2, SilentStep
<1>3. CASE LoadConfig(c) \/ GetSerializedConfig(c) \/ SetSelectedProfile(c)
  BY <1>1, <1>3, RequestAsks DEF LoadConfig, GetSerializedConfig, SetSelectedProfile
<1>4. CASE Reload(c)
  <2>1. Begin(c, "reload", selected, "read") /\ UNCHANGED version /\ pc[c] = Idle
    BY <1>4 DEF Reload, sources, Begin
  <2>2. QED BY <1>1, <2>1, AskStep
<1>5. CASE Deliver(c) \/ ReloadEnds(c)
  <2>1. /\ pc[c] \in {"got", "made", "read"} /\ got[c] \in Nat
        /\ End(c, Idle) /\ Reply(c, got[c]) /\ UNCHANGED version
    BY <1>5, KnownOfCall DEF Deliver, ReloadEnds, WaitsForLoad, Cached, sources
  <2>2. CallFresh(c) /\ CacheFresh(profile[c]) /\ profile[c] \in Profiles
        /\ version[profile[c]] \in Nat /\ floor[profile[c]] \in Nat
    BY KnownOfCall, KnownOfProfile
  <2>3. got[c] \in since[c] .. version[profile[c]]
    BY <2>1, <2>2 DEF CallFresh, Idle, Inv, TypeOK
  <2>4. Asking[c] = profile[c] /\ Source!Reply(c, got[c], None)
    BY <2>1, ReplyStep
  <2>5. QED BY <2>2, <2>3, <2>4 DEF Source!Answer
<1>6. CASE DeliverError(c) \/ ReloadFails(c)
  <2>1. /\ pc[c] \in {"got", "made", "read"} /\ End(c, Idle) /\ Reply(c, Failed) /\ UNCHANGED version
    BY <1>6 DEF DeliverError, ReloadFails, sources
  <2>2. QED BY <2>1, ReplyStep DEF Source!Fail
<1>7. CASE WaitForEver(c)
  <2>1. /\ pc[c] \in {"got", "made", "read"} /\ End(c, "stuck") /\ Reply(c, Lost) /\ UNCHANGED version
    BY <1>7 DEF WaitForEver, sources
  <2>2. QED BY <2>1, ReplyStep DEF Source!Lose, Idle
<1>8. QED BY <1>2, <1>3, <1>4, <1>5, <1>6, <1>7 DEF CallStep, Caller

LEMMA ChangeRefines ==
  ASSUME NEW p \in Profiles, ChangeSource(p)
  PROVE  Source!Change(p)
<1>1. UNCHANGED <<pc, profile>> /\ UNCHANGED Asking
  BY ChangeStep, SameAsking DEF calls
<1>2. QED BY <1>1, ChangeStep DEF Source!Change, Silent

LEMMA StepRefines == Inv /\ Inv' /\ [Next]_vars => [Source!Next]_Source!vars
<1> SUFFICES ASSUME Inv, Inv', [Next]_vars PROVE [Source!Next]_Source!vars
  OBVIOUS
<1>1. Source!FloorsRise
  BY FloorsRise
<1>2. ASSUME NEW c \in Calls, CallStep(c) \/ Caller(c) PROVE Source!Next
  BY <1>1, <1>2, CallRefines DEF Source!Next
<1>3. ASSUME NEW p \in Profiles, ChangeSource(p) PROVE Source!Next
  BY <1>1, <1>3, ChangeRefines DEF Source!Next
<1>4. CASE UNCHANGED vars
  <2>1. UNCHANGED <<version, floor, since, answer, pc, profile>>
    BY <1>4 DEF vars, sources, calls
  <2>2. UNCHANGED Asking
    BY <2>1, SameAsking
  <2>3. QED BY <2>1, <2>2 DEF Source!vars
<1>5. QED BY <1>2, <1>3, <1>4 DEF Next

LEMMA InitRefines == Init => Source!Init
<1> SUFFICES ASSUME Init PROVE Source!Init
  OBVIOUS
<1>1. Asking = [c \in Calls |-> None]
  BY AskingOf DEF Init, Asking, Idle
<1>2. QED BY <1>1 DEF Init, Source!Init

(* Every answer of ConfigHandler is one that ConfigSource allows: a config *)
(* no older than the floor of the profile at the time of the call, and no  *)
(* newer than the source, or an error.                                     *)
THEOREM ProfilesImplementSource == Spec => ImplementsSource
  BY InitInv, NextInv, InitRefines, StepRefines, PTL DEF Spec, ImplementsSource, Source!Spec

=============================================================================
