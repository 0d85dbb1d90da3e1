------------------------------ MODULE CloudGuard ------------------------------
(***************************************************************************)
(* cloud_guard.h with the parts of photon_hooks.cpp that change what the   *)
(* game does: the AppID override and the write-back after SetUpPhoton.     *)
(*                                                                         *)
(* Two threads.  The init thread installs hooks in a fixed order; each one *)
(* appears in one step (HookTable) or not at all.  The Unity main thread   *)
(* runs game code one call at a time: SetUpPhoton at start-up, a           *)
(* connection entry, FriendsController.Update on every frame, or network   *)
(* progress.  A call is redirected if its hook was there when it began.    *)
(*                                                                         *)
(* PUN and the game are external: ServerSettings.UseCloud may fail to      *)
(* write any of its three fields, the game may re-route its settings at    *)
(* any time between two calls and call an entry whether PhotonNetwork is   *)
(* initialized or not, and Update may call Disconnect.                     *)
(***************************************************************************)
EXTENDS Integers, FiniteSets, Sequences

CONSTANTS
    EntryOrder,      \* the guarded connection entries, in installation order
    TracedEntries,   \* entries that carry a tracing hook and no guard
    Builds,          \* what the library and the running game may be built with
    EngineFails,     \* may the hook engine refuse a method that exists?
    AllocFails,      \* may il2cpp_string_new return null?
    Hosts, Regions,  \* HostType and PreferredRegion values the game uses
    PunStates,       \* ClientState values reached
    None

GuardedEntries == {EntryOrder[i] : i \in 1..Len(EntryOrder)}
Entries == GuardedEntries \cup TracedEntries

SelectPhotonAppId == "SelectPhotonAppId"
SetUpPhoton == "SetUpPhoton"
FriendsUpdate == "FriendsUpdate"

(* photon::install_hooks, then cloud_guard::install_hooks. *)
HookOrder == <<SelectPhotonAppId, SetUpPhoton, FriendsUpdate>> \o EntryOrder
Hooks == {HookOrder[i] : i \in 1..Len(HookOrder)}

kPhotonCloudHost == 1
kForcedRegionEu == 0
Fields == {"HostType", "PreferredRegion", "AppID"}
Routes == [HostType : Hosts, PreferredRegion : Regions, AppID : {"game", "ours"}]

(* How a session was started: on which route, by a call that force_cloud
   answered for, by a call that began after the report. *)
Sessions == [route : Routes, verified : BOOLEAN, late : BOOLEAN]

(* A build: was PHOTON_APP_ID compiled in, which hooked methods does the
   game's metadata lack, do the methods behind use_cloud and
   connection_state() exist, which fields can be read, and does the
   PhotonServerSettings asset load. *)
AllBuilds == [appId : BOOLEAN, missing : SUBSET Hooks, useCloud : BOOLEAN,
              getter : BOOLEAN, fields : SUBSET Fields, asset : BOOLEAN]

ASSUME GuardAssumption ==
    /\ Len(EntryOrder) \in Nat
    /\ EntryOrder \in Seq(GuardedEntries)
    /\ \A i, j \in 1..Len(HookOrder) : HookOrder[i] = HookOrder[j] => i = j
    /\ TracedEntries \cap Hooks = {}
    /\ Builds \subseteq AllBuilds
    /\ EngineFails \in BOOLEAN /\ AllocFails \in BOOLEAN
    /\ Hosts \subseteq Int /\ kPhotonCloudHost \in Hosts
    /\ Regions \subseteq Int /\ kForcedRegionEu \in Regions
    /\ PunStates \subseteq 0..20 /\ {0, 1, 14, 15, 17} \subseteq PunStates
    /\ None \notin Routes \cup Entries \cup Sessions
    /\ None \notin [checked : BOOLEAN, late : BOOLEAN] \cup [routed : BOOLEAN, late : BOOLEAN]

VARIABLES
    build,         \* the library and the game, fixed
    pos, hooks,    \* next position in HookOrder; the hooks that are active
    report,        \* what the init thread logged: "none", "ready", "failed"
    alive,         \* has the static constructor of PhotonNetwork run?
    route,         \* PhotonServerSettings, None while there is none
    cloudReady,    \* g_cloud_ready
    pun,           \* PhotonNetwork.connectionStateDetailed
    frame,         \* the call the main thread executes
    lastUpdate,    \* what the last call of FriendsController.Update did
    session,       \* how the latest session was started, None before one
    early          \* where static fields were touched before they existed

installer == <<pos, hooks, report>>
photon == <<alive, route, cloudReady, early>>
net == <<pun, session>>
vars == <<build, installer, photon, net, frame, lastUpdate>>

(* hooked: was the call redirected?  late: did it begin after the init
   thread reported that everything is ready?  verified: did force_cloud
   answer for it? *)
Frames == [in : {"game", "setup", "setupEnd", "entry", "update"},
           hooked : BOOLEAN, late : BOOLEAN, verified : BOOLEAN]
Game == [in |-> "game", hooked |-> FALSE, late |-> FALSE, verified |-> FALSE]
Enter(where, h, ok) ==
    [in |-> where, hooked |-> h, late |-> report = "ready", verified |-> ok]

Init ==
    /\ build \in Builds
    /\ pos = 1 /\ hooks = {} /\ report = "none"
    /\ alive = FALSE /\ route = None /\ cloudReady = FALSE /\ early = {}
    /\ pun = 0 /\ session = None
    /\ frame = Game /\ lastUpdate = "none"

-----------------------------------------------------------------------------
(* The init thread.                                                        *)

InstallHook ==
    /\ pos <= Len(HookOrder)
    /\ pos' = pos + 1
    /\ \/ HookOrder[pos] \notin build.missing /\ hooks' = hooks \cup {HookOrder[pos]}
       \/ HookOrder[pos] \in build.missing /\ hooks' = hooks
       \/ EngineFails /\ hooks' = hooks
    /\ UNCHANGED <<build, report, photon, net, frame, lastUpdate>>

(* The core hook, the backend guard, and any one entry make it "ready". *)
GuardInstalled ==
    /\ FriendsUpdate \in hooks
    /\ Cardinality(hooks \cap (GuardedEntries \cup {FriendsUpdate})) >= 2

Report ==
    /\ pos = Len(HookOrder) + 1
    /\ report = "none"
    /\ report' = IF SelectPhotonAppId \in hooks /\ GuardInstalled
                 THEN "ready" ELSE "failed"
    /\ UNCHANGED <<build, pos, hooks, photon, net, frame, lastUpdate>>

-----------------------------------------------------------------------------
(* Start-up: Switcher.SetUpPhoton on the main thread.                      *)

(* Any access to a static field of PhotonNetwork: before its static
   constructor has run, the field's address is an offset from null.  A game
   that survives the access goes on as if it had read null. *)
TouchStatics(where) == early' = IF alive THEN early ELSE early \cup {where}

(* enable_verbose_photon_logs: writes logLevel, reads networkingPeer. *)
EnableVerboseLogs(where) == TouchStatics(where)

(* hook_select_app_id: the configured AppID, or whatever the game selects. *)
SelectedAppIds ==
    IF SelectPhotonAppId \in hooks /\ build.appId
    THEN {"ours"} \cup IF AllocFails THEN {"game"} ELSE {}
    ELSE {"game"}

(* What the static constructor leaves in PhotonServerSettings. *)
LoadedRoutes(appIds) ==
    IF build.asset THEN {r \in Routes : r.AppID \in appIds} ELSE {None}

(* The static constructor, run by game code that uses the class. *)
StaticConstructor ==
    /\ ~alive
    /\ alive' = TRUE
    /\ pun' = 1
    /\ route' \in LoadedRoutes({"game"})

(* Some game code uses the class before SetUpPhoton does. *)
PhotonAwake ==
    /\ frame = Game
    /\ StaticConstructor
    /\ UNCHANGED <<build, installer, cloudReady, early, session, frame, lastUpdate>>

(* Mutant: the settings are written before the original has run. *)
ConfigureFirst ==
    /\ frame = Game
    /\ SetUpPhoton \notin build.missing
    /\ TouchStatics("setup")
    /\ frame' = Enter("setup", SetUpPhoton \in hooks, FALSE)
    /\ UNCHANGED <<build, installer, alive, route, cloudReady, net, lastUpdate>>

CallSetUpPhoton ==
    /\ frame = Game
    /\ SetUpPhoton \notin build.missing
    /\ frame' = Enter("setup", SetUpPhoton \in hooks, FALSE)
    /\ UNCHANGED <<build, installer, photon, net, lastUpdate>>

(* The original: selects an AppID and stores a route of the game's choice. *)
OriginalSetUp ==
    /\ frame.in = "setup"
    /\ alive' = TRUE
    /\ pun' = IF alive THEN pun ELSE 1
    /\ route' \in LoadedRoutes(SelectedAppIds)
    /\ frame' = IF frame.hooked THEN [frame EXCEPT !.in = "setupEnd"] ELSE Game
    /\ UNCHANGED <<build, installer, cloudReady, early, session, lastUpdate>>

(* apply_config_to_settings in a cloud build: only the credential. *)
ApplyConfig ==
    \/ /\ build.appId /\ route # None /\ "AppID" \in build.fields
       /\ route' = [route EXCEPT !.AppID = "ours"]
    \/ /\ ~build.appId \/ route = None \/ "AppID" \notin build.fields \/ AllocFails
       /\ UNCHANGED route

(* hook_set_up_photon after the original returned. *)
SetUpPhotonEnd ==
    /\ frame.in = "setupEnd"
    /\ EnableVerboseLogs("setup")
    /\ ApplyConfig
    /\ frame' = Game
    /\ UNCHANGED <<build, installer, alive, cloudReady, net, lastUpdate>>

-----------------------------------------------------------------------------
(* Connection entries.                                                     *)

(* Mutant: host type and region swapped. *)
SwappedCloud(r, written) ==
    [HostType |-> IF "HostType" \in written THEN kForcedRegionEu ELSE r.HostType,
     PreferredRegion |-> IF "PreferredRegion" \in written THEN kPhotonCloudHost
                         ELSE r.PreferredRegion,
     AppID |-> IF "AppID" \in written THEN "ours" ELSE r.AppID]

(* ServerSettings.UseCloud(appId, region): `written` took effect. *)
UseCloud(r, written) ==
    [HostType |-> IF "HostType" \in written THEN kPhotonCloudHost ELSE r.HostType,
     PreferredRegion |-> IF "PreferredRegion" \in written THEN kForcedRegionEu
                         ELSE r.PreferredRegion,
     AppID |-> IF "AppID" \in written THEN "ours" ELSE r.AppID]

(* Mutant: the stored AppID is not compared. *)
RouteOnly(r, written) ==
    /\ Fields \subseteq build.fields
    /\ r.HostType = kPhotonCloudHost
    /\ r.PreferredRegion = kForcedRegionEu

(* storedSame compares pointers: the AppID counts only if it was stored by
   this very call. *)
ReadBack(r, written) ==
    /\ Fields \subseteq build.fields
    /\ r.HostType = kPhotonCloudHost
    /\ r.PreferredRegion = kForcedRegionEu
    /\ "AppID" \in written

(* Mutant: a cached answer is good enough. *)
ApplyOnce == FALSE

(* Every entry hook passes reapply = true. *)
Reapply == TRUE

(* force_cloud returns `ok`. *)
ForceCloud(ok) ==
    IF ~Reapply /\ cloudReady
    THEN ok = TRUE /\ UNCHANGED <<route, cloudReady, early>>
    ELSE IF ~build.appId
    THEN ok = FALSE /\ UNCHANGED <<route, cloudReady, early>>
    ELSE /\ TouchStatics("entry")
         /\ \/ /\ route = None \/ AllocFails
               /\ ok = FALSE
               /\ UNCHANGED <<route, cloudReady>>
            \/ /\ route # None /\ ~build.useCloud
               /\ ok = FALSE
               /\ cloudReady' = FALSE
               /\ UNCHANGED route
            \/ /\ route # None /\ build.useCloud
               /\ \E written \in SUBSET Fields :
                     /\ route' = UseCloud(route, written)
                     /\ ok = ReadBack(route', written)
                     /\ cloudReady' = ok

(* The game calls any entry that it has, at any time: the hook does not ask
   whether PhotonNetwork is initialized before it reads the settings. *)
CallEntry(e) ==
    /\ frame = Game
    /\ e \notin build.missing
    /\ IF e \in hooks
       THEN \E ok \in BOOLEAN :
               /\ ForceCloud(ok)
               /\ frame' = IF ok THEN Enter("entry", TRUE, TRUE) ELSE Game
       ELSE /\ frame' = Enter("entry", FALSE, FALSE)
            /\ UNCHANGED <<route, cloudReady, early>>
    /\ UNCHANGED <<build, installer, alive, net, lastUpdate>>

(* Mutant: an inner entry that blocks its call passes for one that does not. *)
NestedAnyhow(e) ==
    /\ frame.in = "entry" /\ e \in hooks
    /\ \E ok \in BOOLEAN : ForceCloud(ok)
    /\ frame' = [frame EXCEPT !.verified = TRUE]
    /\ UNCHANGED <<build, installer, alive, net, lastUpdate>>

(* The original body of an entry calls another one, as the entries of one UI
   do.  If the inner hook blocks its call, the outer body goes on as it
   likes. *)
NestedEntry(e) ==
    /\ frame.in = "entry" /\ e \in hooks
    /\ \E ok \in BOOLEAN :
          /\ ForceCloud(ok)
          /\ frame' = [frame EXCEPT !.verified = @ \/ ok]
    /\ UNCHANGED <<build, installer, alive, net, lastUpdate>>

Idle == {0, 1, 15}                 \* Uninitialized, PeerCreated, Disconnected
Active == 0..20 \ Idle
Connecting == {12, 17, 20} \cap PunStates

(* The original entry calls ConnectUsingSettings, whose tracing hook switches
   PUN's logs on first.  If nothing has used the class yet, the original of
   ConnectUsingSettings is what runs its static constructor... *)
ConnectAsleep ==
    /\ frame.in = "entry"
    /\ EnableVerboseLogs("connect")
    /\ StaticConstructor
    /\ UNCHANGED <<build, installer, cloudReady, session, frame, lastUpdate>>

(* ...PUN refuses while a connection is up or without settings... *)
Connect ==
    /\ frame.in = "entry"
    /\ pun \in Idle
    /\ alive /\ route # None
    /\ EnableVerboseLogs("connect")
    /\ pun' \in Connecting
    /\ session' = [route |-> route, verified |-> frame.verified, late |-> frame.late]
    /\ frame' = Game
    /\ UNCHANGED <<build, installer, alive, route, cloudReady, lastUpdate>>

(* ...or returns without connecting. *)
Decline ==
    /\ frame.in = "entry"
    /\ frame' = Game
    /\ UNCHANGED <<build, installer, photon, net, lastUpdate>>

-----------------------------------------------------------------------------
(* FriendsController.Update.                                               *)

ConnectionState == IF build.getter THEN pun ELSE -1

(* Mutants: off by one at Queued; Disconnected taken for a session. *)
QuarantineAboveTwo(state) == state > 2 /\ state # 15
QuarantineForever(state) == state >= 2

ShouldQuarantine(state) == state >= 2 /\ state # 15

(* hook_friends_update, or the original when there is no hook yet. *)
CallUpdate ==
    /\ frame = Game
    /\ FriendsUpdate \notin build.missing
    /\ IF FriendsUpdate \in hooks /\ ShouldQuarantine(ConnectionState)
       THEN lastUpdate' = "skipped" /\ UNCHANGED frame
       ELSE /\ frame' = Enter("update", FriendsUpdate \in hooks, FALSE)
            /\ UNCHANGED lastUpdate
    /\ UNCHANGED <<build, installer, photon, net>>

(* The original body; call site +0x310 disconnects PUN in mid-handshake. *)
UpdateBody ==
    /\ frame.in = "update"
    /\ \/ UNCHANGED pun
       \/ pun \in Active /\ pun' = 14
    /\ lastUpdate' = "ran"
    /\ frame' = Game
    /\ UNCHANGED <<build, installer, photon, session>>

-----------------------------------------------------------------------------
(* The rest of the game, between two calls.                                *)

(* Network callbacks move a connection on, or end it. *)
PunProgress ==
    /\ frame = Game
    /\ pun \in Active
    /\ pun' \in PunStates \ {0, 1, pun}
    /\ UNCHANGED <<build, installer, photon, session, frame, lastUpdate>>

(* A manual PhotonNetwork.Disconnect: traced, never replaced. *)
Disconnect ==
    /\ frame = Game
    /\ pun \in Active \ {14}
    /\ pun' = 14
    /\ UNCHANGED <<build, installer, photon, session, frame, lastUpdate>>

(* UseCloud, UseCloudBestRegion or UseMyServer called by the game itself:
   traced, passed on. *)
Reroute ==
    /\ frame = Game
    /\ alive /\ route # None
    /\ route' \in Routes \ {route}
    /\ UNCHANGED <<build, installer, alive, cloudReady, early, net, frame, lastUpdate>>

-----------------------------------------------------------------------------
Install == InstallHook \/ Report

MainThread ==
    \/ PhotonAwake
    \/ CallSetUpPhoton
    \/ OriginalSetUp
    \/ SetUpPhotonEnd
    \/ \E e \in Entries : CallEntry(e) \/ NestedEntry(e)
    \/ ConnectAsleep
    \/ Connect
    \/ Decline
    \/ CallUpdate
    \/ UpdateBody
    \/ PunProgress
    \/ Disconnect
    \/ Reroute

Next == Install \/ MainThread

Spec == Init /\ [][Next]_vars

(* The init thread runs, a call of the main thread returns, and Unity calls
   Update again and again, whatever it does in between. *)
Fairness ==
    /\ WF_vars(Install)
    /\ WF_vars(OriginalSetUp \/ SetUpPhotonEnd \/ Decline \/ UpdateBody)
    /\ SF_vars(CallUpdate)

FairSpec == Spec /\ Fairness

-----------------------------------------------------------------------------
(* Properties.                                                             *)

(* Every variable keeps its type. *)
TypeOK ==
    /\ build \in Builds
    /\ pos \in 1..Len(HookOrder) + 1
    /\ hooks \subseteq Hooks
    /\ report \in {"none", "ready", "failed"}
    /\ alive \in BOOLEAN /\ cloudReady \in BOOLEAN
    /\ early \subseteq {"setup", "entry", "connect"}
    /\ route \in Routes \cup {None}
    /\ pun \in PunStates
    /\ frame \in Frames
    /\ lastUpdate \in {"none", "skipped", "ran"}
    /\ session \in Sessions \cup {None}

Forced == [HostType |-> kPhotonCloudHost, PreferredRegion |-> kForcedRegionEu,
           AppID |-> "ours"]

(* A session that force_cloud answered for was started with all three values
   in place, however the SDK call failed and whatever the game had stored
   before (cloud_guard.h:181-207: the read-back decides). *)
SessionRouted ==
    session # None /\ session.verified => session.route = Forced

(* Once the init thread has logged that routing is active, every session
   anybody starts is on the forced route (README.md:14). *)
LateRouted ==
    session # None /\ session.late => session.route = Forced

(* The static fields of PhotonNetwork are touched before they exist by no
   call that a hook has answered for: not by SetUpPhoton's hook, which waits
   for the original (photon_hooks.cpp:433-437), and not by the logging of a
   connection whose entry force_cloud let through.  What is left is a call
   the game makes too early, at the entry's own hook or, when that has none
   or the build has no AppID, at the tracing hook (cloud_guard.h:77, :144-148,
   photon_hooks.cpp:476). *)
EarlyOnlyUnchecked ==
    [][early' # early => "setup" \notin early' /\ ~frame.verified]_vars

(* Update ends no session, except through a call that was already in the
   original body, or on its way there, when the hook appeared. *)
NoFriendsDisconnect ==
    [][frame.in = "update" /\ frame.hooked => ~(pun \in Active /\ pun' = 14)]_vars

(* OnlineSession, the promise to a player, is kept: an entry the game lacks
   counts as guarded, and a session as routed if it is on the forced route. *)
guardedEntries == (hooks \cup build.missing) \cap Entries
isReady == report = "ready"
entryCall == IF frame.in = "entry"
             THEN [checked |-> frame.verified, late |-> frame.late] ELSE None
sessionStart == IF session = None THEN None
                ELSE [routed |-> session.route = Forced, late |-> session.late]

Promise == INSTANCE OnlineSession WITH
    guarded <- guardedEntries, ready <- isReady, call <- entryCall, session <- sessionStart

ImplementsSession == Promise!Spec

(* While PUN stays idle the original Update keeps running: quarantine never
   outlives the session it protects. *)
UpdateResumes ==
    <>[](pun \in Idle) => []<>(lastUpdate = "ran")
=============================================================================
