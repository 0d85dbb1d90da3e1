----------------------------- MODULE MCCloudGuard -----------------------------
(* Model checking of CloudGuard: a few builds of the game, a few of the
   twenty-one client states, two of the four guarded entries. *)
EXTENDS CloudGuard

MCEntryOrder == <<"ConnectionControl.ConnectToPhoton", "GameConnect.ConnectToPhotonSquad">>

FullBuild == [appId |-> TRUE, missing |-> {}, useCloud |-> TRUE, getter |-> TRUE,
              fields |-> {"HostType", "PreferredRegion", "AppID"}, asset |-> TRUE]
NoSecret == [FullBuild EXCEPT !.appId = FALSE]
NoUseCloud == [FullBuild EXCEPT !.useCloud = FALSE]
NoGetter == [FullBuild EXCEPT !.getter = FALSE]
NoAppField == [FullBuild EXCEPT !.fields = {"HostType", "PreferredRegion"}]
NoAsset == [FullBuild EXCEPT !.asset = FALSE]
NoSquadEntry == [FullBuild EXCEPT !.missing = {"GameConnect.ConnectToPhotonSquad"}]

OnlyFull == {FullBuild}
WithGetter == {FullBuild, NoSecret, NoUseCloud, NoAppField, NoAsset}
OneEntryOrder == <<"ConnectionControl.ConnectToPhoton">>
WithoutGetter == {NoGetter}
FullOrSquadless == {FullBuild, NoSquadEntry, NoSecret, NoGetter}

MCHosts == {1, 2}         \* PhotonCloud, SelfHosted
MCRegions == {0, 4}       \* eu, none
(* Uninitialized, PeerCreated, Queued, Disconnecting, Disconnected,
   ConnectingToNameServer: the two idle runs of the enumeration and the
   states on both sides of each of their edges. *)
MCPunStates == {0, 1, 2, 14, 15, 16, 17}
FewPunStates == {0, 1, 14, 15, 17}
=============================================================================
