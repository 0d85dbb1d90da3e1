----------------------------- MODULE OnlineSession -----------------------------
(***************************************************************************)
(* What the library promises a player, without hooks, settings or the SDK: *)
(* connection entries become guarded one by one; a call of an entry is     *)
(* checked if the entry was guarded when the call began, or if it passes   *)
(* through a guarded one; a checked call starts a routed session or none;  *)
(* and readiness is announced when no entry is left unguarded.             *)
(*                                                                         *)
(* An entry the game does not have counts as guarded.  A blocked call is a *)
(* call that never began.                                                  *)
(***************************************************************************)
CONSTANTS Entries, None

VARIABLES
    guarded,   \* the entries whose calls are checked
    ready,     \* has the library announced that routing is active?
    call,      \* the entry call under way, None if there is none
    session    \* how the latest session was started, None before one

sessionVars == <<guarded, ready, call, session>>

Calls == [checked : BOOLEAN, late : BOOLEAN]
Outcomes == [routed : BOOLEAN, late : BOOLEAN]

Init ==
    /\ guarded \in SUBSET Entries
    /\ ready = FALSE
    /\ call = None
    /\ session = None

Guard(e) ==
    /\ e \notin guarded
    /\ guarded' = guarded \cup {e}
    /\ UNCHANGED <<ready, call, session>>

Announce ==
    /\ guarded = Entries
    /\ ready' = TRUE
    /\ UNCHANGED <<guarded, call, session>>

(* late: the call begins after the announcement. *)
Enter(e) ==
    /\ call = None
    /\ call' = [checked |-> e \in guarded, late |-> ready]
    /\ UNCHANGED <<guarded, ready, session>>

(* The call passes through another entry, which is guarded. *)
Recheck(e) ==
    /\ call # None
    /\ e \in guarded
    /\ call' = [checked |-> TRUE, late |-> call.late]
    /\ UNCHANGED <<guarded, ready, session>>

Start ==
    /\ call # None
    /\ \E routed \in BOOLEAN :
          /\ call.checked => routed
          /\ session' = [routed |-> routed, late |-> call.late]
    /\ call' = None
    /\ UNCHANGED <<guarded, ready>>

Leave ==
    /\ call # None
    /\ call' = None
    /\ UNCHANGED <<guarded, ready, session>>

Next ==
    \/ \E e \in Entries : Guard(e) \/ Enter(e) \/ Recheck(e)
    \/ Announce
    \/ Start
    \/ Leave

Spec == Init /\ [][Next]_sessionVars
=============================================================================
