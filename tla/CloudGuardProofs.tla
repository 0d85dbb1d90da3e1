--------------------------- MODULE CloudGuardProofs ---------------------------
(***************************************************************************)
(* Theorems about CloudGuard, for any set of entries, builds, routes and   *)
(* client states.  The invariants say what the main thread may rely on     *)
(* inside a call: what its hook has checked stays true until it returns.   *)
(***************************************************************************)
EXTENDS CloudGuard, SequenceTheorems, TLAPS

-----------------------------------------------------------------------------
(* The installation order.                                                 *)

LEMMA OrderProperties ==
    /\ Len(HookOrder) \in Nat
    /\ \A k \in 1..Len(HookOrder) : HookOrder[k] \in Hooks
    /\ Len(HookOrder) = Len(EntryOrder) + 3
    /\ \A j \in 1..Len(EntryOrder) : HookOrder[j + 3] = EntryOrder[j]
<1>. DEFINE S == GuardedEntries \cup {SelectPhotonAppId, SetUpPhoton, FriendsUpdate}
            first == <<SelectPhotonAppId, SetUpPhoton, FriendsUpdate>>
<1>1. first \in Seq(S) /\ Len(first) = 3
  OBVIOUS
<1>2. EntryOrder \in Seq(S) /\ Len(EntryOrder) \in Nat
  BY GuardAssumption
<1>. HIDE DEF S, first
<1>3. /\ Len(first \o EntryOrder) = 3 + Len(EntryOrder)
      /\ \A k \in 1..3 + Len(EntryOrder) :
            (first \o EntryOrder)[k] = IF k <= 3 THEN first[k] ELSE EntryOrder[k - 3]
  <2>1. /\ Len(first \o EntryOrder) = Len(first) + Len(EntryOrder)
        /\ \A k \in 1..Len(first) + Len(EntryOrder) :
              (first \o EntryOrder)[k] =
                  IF k <= Len(first) THEN first[k] ELSE EntryOrder[k - Len(first)]
    BY <1>1, <1>2, ConcatProperties, Zenon
  <2>. QED  BY <1>1, <2>1
<1>4. HookOrder = first \o EntryOrder
  BY DEF HookOrder, first
<1>5. Len(HookOrder) = Len(EntryOrder) + 3 /\ Len(HookOrder) \in Nat
  BY <1>2, <1>3, <1>4
<1>6. ASSUME NEW j \in 1..Len(EntryOrder) PROVE HookOrder[j + 3] = EntryOrder[j]
  BY <1>2, <1>3, <1>4
<1>7. \A k \in 1..Len(HookOrder) : HookOrder[k] \in Hooks
  BY DEF Hooks
<1>. QED  BY <1>5, <1>6, <1>7

-----------------------------------------------------------------------------
(* Typing.                                                                 *)

LEMMA InitTyped == Init => TypeOK
<1>. SUFFICES ASSUME Init PROVE TypeOK
  OBVIOUS
<1>1. pos \in 1..Len(HookOrder) + 1
  BY OrderProperties DEF Init
<1>2. pun \in PunStates
  BY GuardAssumption DEF Init
<1>3. frame \in Frames
  BY DEF Init, Game, Frames
<1>. QED  BY <1>1, <1>2, <1>3 DEF Init, TypeOK

LEMMA InstallTyped == TypeOK /\ Install => TypeOK'
<1>. SUFFICES ASSUME TypeOK, Install PROVE TypeOK'
  OBVIOUS
<1>1. UNCHANGED <<build, photon, net, frame, lastUpdate>>
  BY DEF Install, InstallHook, Report
<1>2. pos' \in 1..Len(HookOrder) + 1
  BY OrderProperties DEF Install, InstallHook, Report, TypeOK
<1>3. hooks' \subseteq Hooks
  <2>1. CASE InstallHook
    <3>1. HookOrder[pos] \in Hooks
      BY <2>1, OrderProperties DEF InstallHook, TypeOK
    <3>. QED  BY <2>1, <3>1 DEF InstallHook, TypeOK
  <2>2. CASE Report
    BY <2>2 DEF Report, TypeOK
  <2>. QED  BY <2>1, <2>2 DEF Install
<1>4. report' \in {"none", "ready", "failed"}
  BY DEF Install, InstallHook, Report, TypeOK
<1>. QED  BY <1>1, <1>2, <1>3, <1>4 DEF TypeOK, photon, net

(* A call that begins is a frame; every SDK call leaves a route. *)
LEMMA EnterTyped ==
    ASSUME NEW where \in {"game", "setup", "setupEnd", "entry", "update"},
           NEW h \in BOOLEAN, NEW ok \in BOOLEAN
    PROVE  Enter(where, h, ok) \in Frames
  BY DEF Enter, Frames

LEMMA GameTyped == Game \in Frames
  BY DEF Game, Frames

LEMMA UseCloudTyped ==
    ASSUME NEW r \in Routes, NEW written PROVE UseCloud(r, written) \in Routes
  BY GuardAssumption DEF UseCloud, Routes

LEMMA LoadedTyped == \A ids : LoadedRoutes(ids) \subseteq Routes \cup {None}
  BY DEF LoadedRoutes

LEMMA ForceCloudTyped ==
    ASSUME TypeOK, NEW ok \in BOOLEAN, ForceCloud(ok)
    PROVE  /\ route' \in Routes \cup {None}
           /\ cloudReady' \in BOOLEAN
           /\ early' \subseteq {"setup", "entry", "connect"}
<1>1. CASE ~build.appId
  BY <1>1 DEF ForceCloud, TypeOK, Reapply
<1>2. CASE build.appId
  <2>1. early' \subseteq {"setup", "entry", "connect"}
    BY <1>2 DEF ForceCloud, TouchStatics, TypeOK, Reapply
  <2>2. CASE UNCHANGED route
    BY <1>2, <2>1, <2>2 DEF ForceCloud, TypeOK, Reapply
  <2>3. CASE ~UNCHANGED route
    <3>1. PICK written \in SUBSET Fields :
              route # None /\ route' = UseCloud(route, written) /\ cloudReady' = ok
      BY <1>2, <2>3 DEF ForceCloud, Reapply
    <3>2. route' \in Routes
      BY <3>1, UseCloudTyped DEF TypeOK
    <3>. QED  BY <2>1, <3>1, <3>2
  <2>. QED  BY <2>2, <2>3
<1>. QED  BY <1>1, <1>2

LEMMA MainTyped == TypeOK /\ MainThread => TypeOK'
<1>. SUFFICES ASSUME TypeOK, MainThread PROVE TypeOK'
  OBVIOUS
<1>. USE GameTyped, EnterTyped, LoadedTyped, GuardAssumption
     DEF TypeOK, installer, photon, net
<1>1. CASE PhotonAwake
  BY <1>1 DEF PhotonAwake, StaticConstructor
<1>2. CASE CallSetUpPhoton
  <2>1. frame' \in Frames
    BY <1>2 DEF CallSetUpPhoton, Enter, Frames
  <2>. QED  BY <1>2, <2>1 DEF CallSetUpPhoton
<1>3. CASE OriginalSetUp
  <2>1. frame' \in Frames
    BY <1>3 DEF OriginalSetUp, Frames
  <2>2. pun' \in PunStates /\ route' \in Routes \cup {None}
    BY <1>3 DEF OriginalSetUp
  <2>. QED  BY <1>3, <2>1, <2>2 DEF OriginalSetUp
<1>4. CASE SetUpPhotonEnd
  <2>1. route' \in Routes \cup {None}
    BY <1>4 DEF SetUpPhotonEnd, ApplyConfig, Routes
  <2>2. early' \subseteq {"setup", "entry", "connect"}
    BY <1>4 DEF SetUpPhotonEnd, EnableVerboseLogs, TouchStatics
  <2>. QED  BY <1>4, <2>1, <2>2 DEF SetUpPhotonEnd
<1>5. ASSUME NEW e \in Entries, CallEntry(e) PROVE TypeOK'
  <2>1. UNCHANGED <<build, pos, hooks, report, alive, pun, session, lastUpdate>>
    BY <1>5 DEF CallEntry
  <2>2. /\ route' \in Routes \cup {None} /\ cloudReady' \in BOOLEAN
        /\ early' \subseteq {"setup", "entry", "connect"}
    BY <1>5, ForceCloudTyped DEF CallEntry
  <2>3. frame' \in Frames
    BY <1>5 DEF CallEntry
  <2>. QED  BY <2>1, <2>2, <2>3
<1>6. CASE Connect
  <2>1. session' \in Sessions /\ pun' \in PunStates
    BY <1>6 DEF Connect, Sessions, Frames, Connecting
  <2>2. early' \subseteq {"setup", "entry", "connect"}
    BY <1>6 DEF Connect, EnableVerboseLogs, TouchStatics
  <2>. QED  BY <1>6, <2>1, <2>2 DEF Connect
<1>7. CASE Decline
  BY <1>7 DEF Decline
<1>8. CASE CallUpdate
  <2>1. frame' \in Frames
    <3>1. \/ UNCHANGED frame
          \/ frame' = Enter("update", FriendsUpdate \in hooks, FALSE)
      BY <1>8 DEF CallUpdate
    <3>2. Enter("update", FriendsUpdate \in hooks, FALSE) \in Frames
      BY DEF Enter, Frames
    <3>. QED  BY <3>1, <3>2
  <2>. QED  BY <1>8, <2>1 DEF CallUpdate
<1>9. CASE UpdateBody
  BY <1>9 DEF UpdateBody
<1>10. CASE PunProgress
  BY <1>10 DEF PunProgress
<1>11. CASE Disconnect
  BY <1>11 DEF Disconnect
<1>12. CASE Reroute
  BY <1>12 DEF Reroute
<1>13. ASSUME NEW e \in Entries, NestedEntry(e) PROVE TypeOK'
  <2>1. UNCHANGED <<build, pos, hooks, report, alive, pun, session, lastUpdate>>
    BY <1>13 DEF NestedEntry
  <2>2. PICK ok \in BOOLEAN :
            ForceCloud(ok) /\ frame' = [frame EXCEPT !.verified = @ \/ ok]
    BY <1>13 DEF NestedEntry
  <2>3. /\ route' \in Routes \cup {None} /\ cloudReady' \in BOOLEAN
        /\ early' \subseteq {"setup", "entry", "connect"}
    BY <2>2, ForceCloudTyped
  <2>4. frame' \in Frames
    BY <2>2 DEF Frames
  <2>. QED  BY <2>1, <2>3, <2>4
<1>14. CASE ConnectAsleep
  <2>1. early' \subseteq {"setup", "entry", "connect"}
    BY <1>14 DEF ConnectAsleep, EnableVerboseLogs, TouchStatics
  <2>. QED  BY <1>14, <2>1 DEF ConnectAsleep, StaticConstructor
<1>. QED
  BY <1>1, <1>2, <1>3, <1>4, <1>5, <1>6, <1>7, <1>8, <1>9, <1>10, <1>11, <1>12, <1>13,
     <1>14
     DEF MainThread

LEMMA AlwaysTyped == Spec => []TypeOK
<1>1. TypeOK /\ UNCHANGED vars => TypeOK'
  BY DEF TypeOK, vars, installer, photon, net
<1>2. TypeOK /\ [Next]_vars => TypeOK'
  BY <1>1, InstallTyped, MainTyped DEF Next
<1>. QED  BY InitTyped, <1>2, PTL DEF Spec

(* Every variable keeps its type. *)
THEOREM TypeCorrect == Spec => []TypeOK
  BY AlwaysTyped

-----------------------------------------------------------------------------
(* Verified sessions.                                                      *)

(* The read-back accepts exactly the forced route. *)
LEMMA ReadBackForces ==
    ASSUME NEW r \in Routes, NEW written, ReadBack(UseCloud(r, written), written)
    PROVE  UseCloud(r, written) = Forced
  BY DEF ReadBack, UseCloud, Forced

LEMMA ForceCloudForces ==
    ASSUME TypeOK, ForceCloud(TRUE) PROVE route' = Forced
<1>1. PICK written \in SUBSET Fields :
          /\ route # None
          /\ route' = UseCloud(route, written)
          /\ ReadBack(route', written)
  BY DEF ForceCloud, Reapply
<1>. QED  BY <1>1, ReadBackForces DEF TypeOK

(* Whatever an SDK call fails to write, it takes no forced value away. *)
LEMMA ForcedStays ==
    ASSUME TypeOK, NEW ok \in BOOLEAN, ForceCloud(ok), route = Forced
    PROVE  route' = Forced
<1>1. CASE UNCHANGED route
  BY <1>1
<1>2. CASE ~UNCHANGED route
  <2>1. PICK written \in SUBSET Fields : route' = UseCloud(route, written)
    BY <1>2 DEF ForceCloud, Reapply
  <2>. QED  BY <2>1 DEF UseCloud, Forced
<1>. QED  BY <1>1, <1>2

(* Settings exist only once PhotonNetwork is alive, and a verified call keeps
   the forced route until it connects, whichever other entries it passes
   through. *)
RoutedInv ==
    /\ route # None => alive
    /\ frame.in = "entry" /\ frame.verified => route = Forced
    /\ SessionRouted

LEMMA VerifiedIsAwake ==
    ASSUME RoutedInv, frame.in = "entry", frame.verified PROVE alive
<1>1. Forced \in Routes
  BY GuardAssumption DEF Forced, Routes
<1>. QED  BY <1>1, GuardAssumption DEF RoutedInv

LEMMA ForceCloudNeedsSettings ==
    ASSUME NEW ok \in BOOLEAN, ForceCloud(ok), route = None PROVE route' = None
  BY DEF ForceCloud, Reapply

LEMMA RoutedInductive == TypeOK /\ RoutedInv /\ [Next]_vars => RoutedInv'
<1>. SUFFICES ASSUME TypeOK, RoutedInv, [Next]_vars PROVE RoutedInv'
  OBVIOUS
<1>. USE DEF RoutedInv, SessionRouted
<1>1. CASE Install \/ UNCHANGED vars
  BY <1>1 DEF Install, InstallHook, Report, vars, photon, net
<1>2. CASE PhotonAwake \/ PunProgress \/ Disconnect \/ Reroute
  BY <1>2 DEF PhotonAwake, StaticConstructor, PunProgress, Disconnect, Reroute, Game, net,
              photon
<1>3. CASE CallSetUpPhoton \/ CallUpdate
  BY <1>3 DEF CallSetUpPhoton, CallUpdate, Enter, photon, net
<1>4. CASE OriginalSetUp
  BY <1>4 DEF OriginalSetUp, Game, TypeOK, Frames
<1>5. CASE SetUpPhotonEnd \/ Decline \/ UpdateBody
  BY <1>5 DEF SetUpPhotonEnd, ApplyConfig, Decline, UpdateBody, Game, net, photon
<1>9. CASE ConnectAsleep
  BY <1>9, VerifiedIsAwake DEF ConnectAsleep, StaticConstructor
<1>6. CASE Connect
  BY <1>6, GuardAssumption DEF Connect, Game
<1>7. ASSUME NEW e \in Entries, CallEntry(e) PROVE RoutedInv'
  <2>1. UNCHANGED session
    BY <1>7 DEF CallEntry, net
  <2>3. route' # None => alive'
    BY <1>7, ForceCloudNeedsSettings DEF CallEntry
  <2>2. frame'.in = "entry" /\ frame'.verified => route' = Forced
    <3>1. CASE e \notin hooks
      BY <1>7, <3>1 DEF CallEntry, Enter
    <3>2. CASE e \in hooks
      <4>1. PICK ok \in BOOLEAN :
                ForceCloud(ok) /\ frame' = IF ok THEN Enter("entry", TRUE, TRUE) ELSE Game
        BY <1>7, <3>2 DEF CallEntry
      <4>2. CASE ok = TRUE
        BY <4>1, <4>2, ForceCloudForces
      <4>3. CASE ok = FALSE
        BY <4>1, <4>3 DEF Game
      <4>. QED  BY <4>2, <4>3
    <3>. QED  BY <3>1, <3>2
  <2>. QED  BY <2>1, <2>2, <2>3
<1>8. ASSUME NEW e \in Entries, NestedEntry(e) PROVE RoutedInv'
  <2>1. UNCHANGED session
    BY <1>8 DEF NestedEntry, net
  <2>5. route' # None => alive'
    BY <1>8, ForceCloudNeedsSettings DEF NestedEntry
  <2>2. PICK ok \in BOOLEAN :
            ForceCloud(ok) /\ frame' = [frame EXCEPT !.verified = @ \/ ok]
    BY <1>8 DEF NestedEntry
  <2>3. CASE ok = TRUE
    BY <2>1, <2>2, <2>3, <2>5, ForceCloudForces
  <2>4. CASE ok = FALSE
    <3>1. frame'.verified = frame.verified
      BY <2>2, <2>4 DEF TypeOK, Frames
    <3>2. frame.in = "entry"
      BY <1>8 DEF NestedEntry
    <3>. QED  BY <2>1, <2>2, <2>5, <3>1, <3>2, ForcedStays
  <2>. QED  BY <2>3, <2>4
<1>. QED
  BY <1>1, <1>2, <1>3, <1>4, <1>5, <1>6, <1>7, <1>8, <1>9 DEF Next, MainThread

(* However UseCloud fails and whatever the game stores between two calls, a
   session that force_cloud answered for is started on the forced route. *)
THEOREM VerifiedSessionsAreRouted == Spec => []SessionRouted
<1>1. Init => RoutedInv
  BY DEF Init, RoutedInv, SessionRouted, Game
<1>2. RoutedInv => SessionRouted
  BY DEF RoutedInv
<1>. QED  BY <1>1, <1>2, RoutedInductive, AlwaysTyped, PTL DEF Spec

-----------------------------------------------------------------------------
(* Static fields.                                                          *)

(* SetUpPhoton's hook goes on only when its original has initialized the
   class. *)
SetUpInv == frame.in = "setupEnd" => alive

LEMMA SetUpInductive == SetUpInv /\ [Next]_vars => SetUpInv'
<1>. SUFFICES ASSUME SetUpInv, [Next]_vars PROVE SetUpInv'
  OBVIOUS
<1>. USE DEF SetUpInv
<1>1. CASE Install \/ UNCHANGED vars
  BY <1>1 DEF Install, InstallHook, Report, vars, photon
<1>2. CASE PhotonAwake \/ PunProgress \/ Disconnect \/ Reroute \/ ConnectAsleep
  BY <1>2 DEF PhotonAwake, PunProgress, Disconnect, Reroute, ConnectAsleep,
              StaticConstructor, Game, photon
<1>3. CASE CallSetUpPhoton \/ OriginalSetUp
  BY <1>3 DEF CallSetUpPhoton, OriginalSetUp, Enter, photon
<1>4. CASE CallUpdate \/ UpdateBody \/ SetUpPhotonEnd \/ Connect \/ Decline
  BY <1>4 DEF CallUpdate, UpdateBody, SetUpPhotonEnd, Connect, Decline, Enter, Game, photon
<1>5. ASSUME NEW e \in Entries, CallEntry(e) \/ NestedEntry(e) PROVE SetUpInv'
  <2>1. alive' = alive
    BY <1>5 DEF CallEntry, NestedEntry
  <2>2. CASE CallEntry(e)
    BY <2>2 DEF CallEntry, Enter, Game
  <2>3. CASE NestedEntry(e)
    <3>1. frame.in = "entry" /\ \E ok \in BOOLEAN : frame' = [frame EXCEPT !.verified = @ \/ ok]
      BY <2>3 DEF NestedEntry
    <3>. QED  BY <2>1, <3>1
  <2>. QED  BY <1>5, <2>2, <2>3
<1>. QED  BY <1>1, <1>2, <1>3, <1>4, <1>5 DEF Next, MainThread

(* force_cloud touches them for an entry, if for anybody. *)
LEMMA ForceCloudTouches ==
    ASSUME NEW ok \in BOOLEAN, ForceCloud(ok)
    PROVE  early' = early \/ (~alive /\ early' = early \cup {"entry"})
  BY DEF ForceCloud, TouchStatics, Reapply

(* Static fields are touched too early only in a call no hook answers for.  A
   call that force_cloud let through read its route from the settings, so the
   class was there; hooks that touch nothing cannot be early. *)
THEOREM EarlyIsUnchecked == Spec => EarlyOnlyUnchecked
<1>. DEFINE Answered == early' # early => "setup" \notin early' /\ ~frame.verified
            EarlyInv == RoutedInv /\ SetUpInv /\ "setup" \notin early
<1>1. Init => EarlyInv
  BY DEF Init, RoutedInv, SessionRouted, SetUpInv, Game
<1>2. ASSUME TypeOK, EarlyInv, [Next]_vars
      PROVE  Answered /\ "setup" \notin early'
  <2>1. CASE Install \/ UNCHANGED vars
    BY <1>2, <2>1 DEF Install, InstallHook, Report, vars, photon
  <2>2. CASE PhotonAwake \/ CallSetUpPhoton \/ OriginalSetUp \/ Decline \/ CallUpdate
             \/ UpdateBody \/ PunProgress \/ Disconnect \/ Reroute
    BY <1>2, <2>2 DEF PhotonAwake, CallSetUpPhoton, OriginalSetUp, Decline, CallUpdate,
       UpdateBody, PunProgress, Disconnect, Reroute, photon
  <2>3. CASE SetUpPhotonEnd
    BY <1>2, <2>3 DEF SetUpPhotonEnd, EnableVerboseLogs, TouchStatics, SetUpInv
  <2>4. CASE ConnectAsleep
    BY <1>2, <2>4, VerifiedIsAwake
       DEF ConnectAsleep, StaticConstructor, EnableVerboseLogs, TouchStatics
  <2>5. CASE Connect
    BY <1>2, <2>5 DEF Connect, EnableVerboseLogs, TouchStatics
  <2>6. ASSUME NEW e \in Entries, CallEntry(e) PROVE Answered /\ "setup" \notin early'
    <3>1. ~frame.verified
      BY <2>6 DEF CallEntry, Game
    <3>2. early' = early \/ early' = early \cup {"entry"}
      BY <2>6, ForceCloudTouches DEF CallEntry
    <3>. QED  BY <1>2, <3>1, <3>2
  <2>7. ASSUME NEW e \in Entries, NestedEntry(e) PROVE Answered /\ "setup" \notin early'
    <3>1. PICK ok \in BOOLEAN : ForceCloud(ok) /\ frame.in = "entry"
      BY <2>7 DEF NestedEntry
    <3>2. early' = early \/ (~alive /\ early' = early \cup {"entry"})
      BY <3>1, ForceCloudTouches
    <3>3. ~alive => ~frame.verified
      BY <1>2, <3>1, VerifiedIsAwake
    <3>. QED  BY <1>2, <3>2, <3>3
  <2>. QED
    BY <1>2, <2>1, <2>2, <2>3, <2>4, <2>5, <2>6, <2>7 DEF Next, MainThread
<1>3. TypeOK /\ EarlyInv /\ [Next]_vars => EarlyInv'
  BY <1>2, RoutedInductive, SetUpInductive
<1>4. TypeOK /\ EarlyInv /\ [Next]_vars => [Answered]_vars
  BY <1>2
<1>. HIDE DEF Answered, EarlyInv
<1>5. Spec => [][Answered]_vars
  BY <1>1, <1>3, <1>4, AlwaysTyped, PTL DEF Spec
<1>. QED  BY <1>5 DEF Answered, EarlyOnlyUnchecked

-----------------------------------------------------------------------------
(* Quarantine.                                                             *)

(* connection_state() can answer. *)
GetterExists == \A b \in Builds : b.getter

(* A call of Update that passed the quarantine finds PUN idle. *)
QuarantineInv == frame.in = "update" /\ frame.hooked => pun \notin Active

LEMMA QuarantineInductive ==
    GetterExists /\ TypeOK /\ QuarantineInv /\ [Next]_vars => QuarantineInv'
<1>. SUFFICES ASSUME GetterExists, TypeOK, QuarantineInv, [Next]_vars
     PROVE  QuarantineInv'
  OBVIOUS
<1>. USE DEF QuarantineInv
<1>1. CASE Install \/ UNCHANGED vars
  BY <1>1 DEF Install, InstallHook, Report, vars, net
<1>2. CASE PhotonAwake \/ PunProgress \/ Disconnect \/ Reroute \/ ConnectAsleep
  BY <1>2 DEF PhotonAwake, PunProgress, Disconnect, Reroute, ConnectAsleep, Game
<1>3. CASE CallSetUpPhoton \/ OriginalSetUp \/ SetUpPhotonEnd
  BY <1>3 DEF CallSetUpPhoton, OriginalSetUp, SetUpPhotonEnd, Enter, Game, TypeOK, Frames
<1>4. CASE Connect \/ Decline \/ UpdateBody
  BY <1>4 DEF Connect, Decline, UpdateBody, Game
<1>5. ASSUME NEW e \in Entries, CallEntry(e) PROVE QuarantineInv'
  BY <1>5 DEF CallEntry, Enter, Game
<1>6. CASE CallUpdate
  <2>1. ConnectionState = pun /\ pun \in 0..20
    BY GuardAssumption DEF GetterExists, ConnectionState, TypeOK
  <2>2. pun \in Active <=> ShouldQuarantine(pun)
    BY <2>1 DEF Active, Idle, ShouldQuarantine
  <2>3. pun' = pun
    BY <1>6 DEF CallUpdate, net
  <2>4. CASE UNCHANGED frame
    BY <2>3, <2>4
  <2>5. CASE /\ frame' = Enter("update", FriendsUpdate \in hooks, FALSE)
             /\ ~(FriendsUpdate \in hooks /\ ShouldQuarantine(ConnectionState))
    <3>1. frame'.hooked = (FriendsUpdate \in hooks)
      BY <2>5 DEF Enter
    <3>. QED  BY <2>1, <2>2, <2>3, <2>5, <3>1
  <2>. QED  BY <1>6, <2>4, <2>5 DEF CallUpdate
<1>7. ASSUME NEW e \in Entries, NestedEntry(e) PROVE QuarantineInv'
  BY <1>7 DEF NestedEntry, TypeOK, Frames
<1>. QED
  BY <1>1, <1>2, <1>3, <1>4, <1>5, <1>6, <1>7 DEF Next, MainThread

(* Where the getter exists, Update ends no session through its hook. *)
THEOREM FriendsDoNotDisconnect == ASSUME GetterExists PROVE Spec => NoFriendsDisconnect
<1>. DEFINE Leaves == frame.in = "update" /\ frame.hooked
                        => ~(pun \in Active /\ pun' = 14)
<1>1. Init => QuarantineInv
  BY DEF Init, QuarantineInv, Game
<1>2. TypeOK /\ QuarantineInv /\ [Next]_vars => QuarantineInv'
  BY QuarantineInductive, GetterExists
<1>3. QuarantineInv /\ [Next]_vars => [Leaves]_vars
  BY DEF QuarantineInv
<1>. QED
  BY <1>1, <1>2, <1>3, AlwaysTyped, PTL DEF Spec, NoFriendsDisconnect
-----------------------------------------------------------------------------
(* Late sessions.                                                          *)

(* Every hook whose method exists can be installed, and no entry is left
   with a tracing hook alone. *)
Guardable == EngineFails = FALSE /\ TracedEntries = {}

(* What has been passed is hooked, and the report comes last: so a late call
   of an entry is a verified one. *)
LateInv ==
    /\ \A k \in 1..pos - 1 : HookOrder[k] \in hooks \cup build.missing
    /\ report # "none" => pos = Len(HookOrder) + 1
    /\ frame.in = "entry" /\ frame.late => frame.verified
    /\ session # None /\ session.late => session.verified

(* When the init thread reports, an entry without a guard is an entry that the
   game does not have. *)
LEMMA EntriesGuarded ==
    ASSUME Guardable, TypeOK, LateInv, pos = Len(HookOrder) + 1, NEW e \in Entries
    PROVE  e \in hooks \cup build.missing
<1>1. PICK j \in 1..Len(EntryOrder) : e = EntryOrder[j]
  BY DEF Guardable, Entries, GuardedEntries
<1>2. j + 3 \in 1..pos - 1 /\ HookOrder[j + 3] = e
  BY <1>1, OrderProperties DEF LateInv
<1>. QED  BY <1>2 DEF LateInv

LEMMA LateInductive == Guardable /\ TypeOK /\ LateInv /\ [Next]_vars => LateInv'
<1>. SUFFICES ASSUME Guardable, TypeOK, LateInv, [Next]_vars PROVE LateInv'
  OBVIOUS
<1>1. CASE InstallHook
  <2>1. HookOrder[pos] \in hooks' \cup build'.missing /\ hooks \subseteq hooks'
    BY <1>1 DEF InstallHook, Guardable
  <2>2. pos' = pos + 1 /\ pos \in Nat \ {0} /\ UNCHANGED <<build, report, frame, session>>
    BY <1>1, OrderProperties DEF InstallHook, TypeOK, net
  <2>3. \A k \in 1..pos' - 1 : HookOrder[k] \in hooks' \cup build'.missing
    BY <2>1, <2>2 DEF LateInv
  <2>4. report # "none" => pos = Len(HookOrder) + 1
    BY DEF LateInv
  <2>5. report = "none"
    BY <1>1, <2>4, OrderProperties DEF InstallHook
  <2>. QED  BY <2>2, <2>3, <2>5 DEF LateInv
<1>2. CASE Report
  BY <1>2 DEF Report, LateInv, net
<1>3. CASE UNCHANGED vars
  BY <1>3 DEF LateInv, vars, installer, net
<1>4. ASSUME MainThread PROVE LateInv'
  <2>1. UNCHANGED <<build, pos, hooks, report>>
    BY <1>4 DEF MainThread, PhotonAwake, CallSetUpPhoton, OriginalSetUp, SetUpPhotonEnd,
                CallEntry, NestedEntry, ConnectAsleep, Connect, Decline, CallUpdate, UpdateBody, PunProgress,
                Disconnect, Reroute, installer
  <2>2. /\ frame'.in = "entry" /\ frame'.late => frame'.verified
        /\ session' # None /\ session'.late => session'.verified
    <3>. USE DEF LateInv
    <3>1. CASE PhotonAwake \/ PunProgress \/ Disconnect \/ Reroute \/ ConnectAsleep
      BY <3>1 DEF PhotonAwake, PunProgress, Disconnect, Reroute, ConnectAsleep, net
    <3>2. CASE CallSetUpPhoton \/ CallUpdate
      BY <3>2 DEF CallSetUpPhoton, CallUpdate, Enter, net
    <3>3. CASE OriginalSetUp \/ SetUpPhotonEnd
      BY <3>3 DEF OriginalSetUp, SetUpPhotonEnd, Game, TypeOK, Frames, net
    <3>4. CASE Connect
      BY <3>4 DEF Connect, Game
    <3>5. CASE Decline \/ UpdateBody
      BY <3>5 DEF Decline, UpdateBody, Game, net
    <3>6. ASSUME NEW e \in Entries, CallEntry(e)
          PROVE  /\ frame'.in = "entry" /\ frame'.late => frame'.verified
                 /\ session' # None /\ session'.late => session'.verified
      <4>1. UNCHANGED session
        BY <3>6 DEF CallEntry, net
      <4>2. CASE e \in hooks
        <5>1. frame' = Enter("entry", TRUE, TRUE) \/ frame' = Game
          BY <3>6, <4>2 DEF CallEntry
        <5>. QED  BY <4>1, <5>1 DEF Enter, Game
      <4>3. CASE e \notin hooks
        <5>1. frame' = Enter("entry", FALSE, FALSE) /\ e \notin build.missing
          BY <3>6, <4>3 DEF CallEntry
        <5>2. report # "ready"
          BY <4>3, <5>1, EntriesGuarded DEF LateInv
        <5>. QED  BY <4>1, <5>1, <5>2 DEF Enter
      <4>. QED  BY <4>2, <4>3
    <3>7. ASSUME NEW e \in Entries, NestedEntry(e)
          PROVE  /\ frame'.in = "entry" /\ frame'.late => frame'.verified
                 /\ session' # None /\ session'.late => session'.verified
      <4>1. UNCHANGED session /\ frame.in = "entry"
        BY <3>7 DEF NestedEntry, net
      <4>2. PICK ok \in BOOLEAN : frame' = [frame EXCEPT !.verified = @ \/ ok]
        BY <3>7 DEF NestedEntry
      <4>3. frame'.late = frame.late /\ (frame.verified => frame'.verified)
        BY <4>2 DEF TypeOK, Frames
      <4>. QED  BY <4>1, <4>3
    <3>. QED
      BY <1>4, <3>1, <3>2, <3>3, <3>4, <3>5, <3>6, <3>7 DEF MainThread
  <2>. QED  BY <2>1, <2>2 DEF LateInv
<1>. QED  BY <1>1, <1>2, <1>3, <1>4 DEF Next, Install

(* With an engine that hooks every method that exists, and no entry left
   unguarded, every session started by a call that began after the report is
   on the forced route. *)
THEOREM LateSessionsAreRouted == ASSUME Guardable PROVE Spec => []LateRouted
<1>1. Init => RoutedInv /\ LateInv
  BY OrderProperties DEF Init, RoutedInv, SessionRouted, LateInv, Game
<1>2. TypeOK /\ LateInv /\ [Next]_vars => LateInv'
  BY LateInductive, Guardable
<1>3. RoutedInv /\ LateInv => LateRouted
  BY DEF RoutedInv, SessionRouted, LateInv, LateRouted
<1>. QED  BY <1>1, <1>2, <1>3, RoutedInductive, AlwaysTyped, PTL DEF Spec

-----------------------------------------------------------------------------
(* The promise to a player.                                                *)

LEMMA InitPromised == Init => Promise!Init
<1>. SUFFICES ASSUME Init PROVE Promise!Init
  OBVIOUS
<1>1. guardedEntries \in SUBSET Entries
  BY DEF guardedEntries
<1>2. isReady = FALSE
  BY DEF Init, isReady
<1>3. entryCall = None /\ sessionStart = None
  BY DEF Init, entryCall, sessionStart, Game
<1>. QED  BY <1>1, <1>2, <1>3 DEF Promise!Init

(* An entry becomes guarded, another hook appears, or the report is made. *)
LEMMA InstallPromised ==
    ASSUME Guardable, TypeOK, LateInv, Install
    PROVE  [Promise!Next]_(Promise!sessionVars)
<1>1. UNCHANGED <<entryCall, sessionStart>>
  BY DEF Install, InstallHook, Report, net, entryCall, sessionStart
<1>2. CASE InstallHook
  <2>1. isReady' = isReady /\ build' = build
    BY <1>2 DEF InstallHook, isReady
  <2>2. hooks' = hooks \/ hooks' = hooks \cup {HookOrder[pos]}
    BY <1>2 DEF InstallHook
  <2>3. CASE guardedEntries' = guardedEntries
    BY <1>1, <2>1, <2>3 DEF Promise!sessionVars
  <2>4. CASE guardedEntries' # guardedEntries
    <3>1. PICK e \in Entries : e \notin guardedEntries /\ guardedEntries' = guardedEntries \cup {e}
      BY <2>1, <2>2, <2>4 DEF guardedEntries
    <3>2. Promise!Guard(e)
      BY <1>1, <2>1, <3>1 DEF Promise!Guard
    <3>. QED  BY <3>2 DEF Promise!Next
  <2>. QED  BY <2>3, <2>4
<1>3. CASE Report
  <2>1. guardedEntries' = guardedEntries /\ pos = Len(HookOrder) + 1
    BY <1>3 DEF Report, guardedEntries
  <2>2. guardedEntries = Entries
    BY <2>1, EntriesGuarded DEF guardedEntries
  <2>3. CASE report' = "ready"
    <3>1. isReady' = TRUE
      BY <2>3 DEF isReady
    <3>2. Promise!Announce
      BY <1>1, <2>1, <2>2, <3>1 DEF Promise!Announce
    <3>. QED  BY <3>2 DEF Promise!Next
  <2>4. CASE report' # "ready"
    <3>1. isReady' = isReady
      BY <1>3, <2>4 DEF Report, isReady
    <3>. QED  BY <1>1, <2>1, <3>1 DEF Promise!sessionVars
  <2>. QED  BY <2>3, <2>4
<1>. QED  BY <1>2, <1>3 DEF Install

(* A call of an entry that a hook lets through, or that has no hook. *)
LEMMA CallPromised ==
    ASSUME TypeOK, NEW e \in Entries, CallEntry(e)
    PROVE  [Promise!Next]_(Promise!sessionVars)
<1>1. UNCHANGED <<guardedEntries, isReady, sessionStart>> /\ entryCall = None
  BY DEF CallEntry, installer, net, guardedEntries, isReady, sessionStart, entryCall, Game
<1>2. CASE frame' = Game
  <2>1. entryCall' = None
    BY <1>2 DEF entryCall, Game
  <2>. QED  BY <1>1, <2>1 DEF Promise!sessionVars
<1>3. CASE frame' # Game
  <2>1. e \in guardedEntries <=> e \in hooks
    BY DEF CallEntry, guardedEntries
  <2>2. entryCall' = [checked |-> e \in guardedEntries, late |-> isReady]
    <3>1. CASE e \in hooks
      <4>1. frame' = Enter("entry", TRUE, TRUE)
        BY <1>3, <3>1 DEF CallEntry
      <4>2. entryCall' = [checked |-> TRUE, late |-> isReady]
        BY <4>1 DEF entryCall, isReady, Enter
      <4>3. (e \in guardedEntries) = TRUE
        BY <2>1, <3>1
      <4>. QED  BY <4>2, <4>3, Zenon
    <3>2. CASE e \notin hooks
      <4>1. frame' = Enter("entry", FALSE, FALSE)
        BY <3>2 DEF CallEntry
      <4>2. entryCall' = [checked |-> FALSE, late |-> isReady]
        BY <4>1 DEF entryCall, isReady, Enter
      <4>3. (e \in guardedEntries) = FALSE
        BY <2>1, <3>2
      <4>. QED  BY <4>2, <4>3, Zenon
    <3>. QED  BY <3>1, <3>2
  <2>3. Promise!Enter(e)
    BY <1>1, <2>2 DEF Promise!Enter
  <2>. QED  BY <2>3 DEF Promise!Next
<1>. QED  BY <1>2, <1>3

(* The call passes through another entry. *)
LEMMA NestedPromised ==
    ASSUME TypeOK, NEW e \in Entries, NestedEntry(e)
    PROVE  [Promise!Next]_(Promise!sessionVars)
<1>1. UNCHANGED <<guardedEntries, isReady, sessionStart>>
  BY DEF NestedEntry, installer, net, guardedEntries, isReady, sessionStart
<1>2. PICK ok \in BOOLEAN : frame' = [frame EXCEPT !.verified = @ \/ ok]
  BY DEF NestedEntry
<1>3. frame.in = "entry" /\ frame'.in = "entry" /\ frame'.late = frame.late
  BY <1>2 DEF NestedEntry, TypeOK, Frames
<1>4. entryCall = [checked |-> frame.verified, late |-> frame.late] /\ entryCall # None
  BY <1>3, GuardAssumption DEF entryCall, TypeOK, Frames
<1>5. CASE frame'.verified = frame.verified
  <2>1. entryCall' = entryCall
    BY <1>3, <1>5 DEF entryCall
  <2>. QED  BY <1>1, <2>1 DEF Promise!sessionVars
<1>6. CASE frame'.verified # frame.verified
  <2>1. frame'.verified = TRUE
    BY <1>2, <1>6 DEF TypeOK, Frames
  <2>2. entryCall' = [checked |-> TRUE, late |-> frame.late]
    BY <1>3, <2>1 DEF entryCall
  <2>3. e \in guardedEntries
    BY DEF NestedEntry, guardedEntries
  <2>4. Promise!Recheck(e)
    BY <1>1, <1>4, <2>2, <2>3 DEF Promise!Recheck
  <2>. QED  BY <2>4 DEF Promise!Next
<1>. QED  BY <1>5, <1>6

(* The call starts a session or returns without one. *)
LEMMA EndPromised ==
    ASSUME TypeOK, RoutedInv, Connect \/ Decline
    PROVE  [Promise!Next]_(Promise!sessionVars)
<1>1. UNCHANGED <<guardedEntries, isReady>> /\ frame.in = "entry" /\ frame' = Game
  BY DEF Connect, Decline, installer, guardedEntries, isReady
<1>2. entryCall = [checked |-> frame.verified, late |-> frame.late] /\ entryCall # None
  BY <1>1, GuardAssumption DEF entryCall, TypeOK, Frames
<1>3. entryCall' = None
  BY <1>1 DEF entryCall, Game
<1>4. CASE Connect
  <2>1. session' = [route |-> route, verified |-> frame.verified, late |-> frame.late]
    BY <1>4 DEF Connect
  <2>2. session' \in Sessions
    BY <1>4, <2>1 DEF Connect, TypeOK, Frames, Sessions
  <2>3. sessionStart' = [routed |-> route = Forced, late |-> frame.late]
    BY <2>1, <2>2, GuardAssumption DEF sessionStart, Forced
  <2>4. PICK routed \in BOOLEAN : routed = (route = Forced)
    OBVIOUS
  <2>5. entryCall.checked => routed
    BY <1>1, <1>2, <2>4 DEF RoutedInv
  <2>6. sessionStart' = [routed |-> routed, late |-> entryCall.late]
    BY <1>2, <2>3, <2>4
  <2>7. Promise!Start
    BY <1>1, <1>2, <1>3, <2>5, <2>6 DEF Promise!Start
  <2>. QED  BY <2>7 DEF Promise!Next
<1>5. CASE Decline
  <2>1. sessionStart' = sessionStart
    BY <1>5 DEF Decline, net, sessionStart
  <2>2. Promise!Leave
    BY <1>1, <1>2, <1>3, <2>1 DEF Promise!Leave
  <2>. QED  BY <2>2 DEF Promise!Next
<1>. QED  BY <1>4, <1>5

(* Everything else is invisible. *)
LEMMA OtherPromised ==
    ASSUME TypeOK,
           \/ PhotonAwake \/ ConnectAsleep
           \/ CallSetUpPhoton \/ OriginalSetUp \/ SetUpPhotonEnd
           \/ CallUpdate \/ UpdateBody \/ PunProgress \/ Disconnect \/ Reroute
           \/ UNCHANGED vars
    PROVE  [Promise!Next]_(Promise!sessionVars)
<1>1. UNCHANGED <<build, hooks, report, session>>
  BY DEF PhotonAwake, ConnectAsleep, CallSetUpPhoton, OriginalSetUp, SetUpPhotonEnd,
         CallUpdate, UpdateBody, PunProgress, Disconnect, Reroute, vars, installer, net
<1>2. entryCall' = entryCall
  <2>1. CASE PhotonAwake \/ ConnectAsleep \/ PunProgress \/ Disconnect \/ Reroute
             \/ UNCHANGED vars
    BY <2>1 DEF PhotonAwake, ConnectAsleep, PunProgress, Disconnect, Reroute, vars, entryCall
  <2>2. CASE CallSetUpPhoton \/ CallUpdate
    BY <2>2 DEF CallSetUpPhoton, CallUpdate, Enter, Game, entryCall
  <2>3. CASE OriginalSetUp
    <3>1. frame.in # "entry" /\ frame'.in # "entry"
      BY <2>3 DEF OriginalSetUp, Game, TypeOK, Frames
    <3>. QED  BY <3>1 DEF entryCall
  <2>4. CASE SetUpPhotonEnd \/ UpdateBody
    BY <2>4 DEF SetUpPhotonEnd, UpdateBody, Game, entryCall
  <2>. QED  BY <2>1, <2>2, <2>3, <2>4
<1>. QED
  BY <1>1, <1>2 DEF Promise!sessionVars, guardedEntries, isReady, sessionStart

(* Under the conditions of LateSessionsAreRouted the guard implements the
   promise to a player. *)
THEOREM PromiseIsKept == ASSUME Guardable PROVE Spec => ImplementsSession
<1>1. Init => RoutedInv /\ LateInv
  BY OrderProperties DEF Init, RoutedInv, SessionRouted, LateInv, Game
<1>2. TypeOK /\ LateInv /\ [Next]_vars => LateInv'
  BY LateInductive, Guardable
<1>3. TypeOK /\ RoutedInv /\ LateInv /\ [Next]_vars => [Promise!Next]_(Promise!sessionVars)
  BY Guardable, InstallPromised, CallPromised, NestedPromised, EndPromised, OtherPromised
     DEF Next, MainThread
<1>. QED
  BY <1>1, <1>2, <1>3, InitPromised, RoutedInductive, AlwaysTyped, PTL
     DEF Spec, ImplementsSession, Promise!Spec
=============================================================================
