------------------------------ MODULE HookInstall ------------------------------
(***************************************************************************)
(* hook.cpp: the fail-closed wrapper around the inline-hook engine.        *)
(*                                                                         *)
(* One background thread installs the replacements of photon_hooks.cpp and *)
(* cloud_guard.h while the game's threads keep calling the very methods    *)
(* being patched.  install() resolves a method to a native address, clears *)
(* the slot its replacement will jump through, asks the engine to patch    *)
(* the address, and checks afterwards that the engine filled the slot.     *)
(*                                                                         *)
(* The engine (ShadowHook, not part of this repository) is modelled from   *)
(* how hook.cpp uses it: UNIQUE mode refuses an address that already       *)
(* carries a hook; any request may fail; a request that succeeds stores a  *)
(* trampoline into the slot before the entry is redirected.  hook.cpp also *)
(* provides for an engine that returns a stub and no trampoline:           *)
(* EngineSilent says whether that can happen.                              *)
(***************************************************************************)
EXTENDS Naturals, FiniteSets

CONSTANTS
    Threads,        \* game threads
    Targets,        \* managed methods the library wants to hook
    Addresses,      \* native entry addresses
    None,           \* nullptr
    EngineSilent    \* may the engine hook an address and give no trampoline?

ASSUME HookAssumption ==
    /\ None \notin Threads \cup Targets \cup Addresses
    /\ EngineSilent \in BOOLEAN

VARIABLES
    method,    \* method[t]: native address of t, None when metadata lacks it
    engine,    \* "cold" until the first install, then "ready" or "broken"
    ipc, cur,  \* where the installing thread is, and for which target
    outcome,   \* what install() returned for each target
    slot,      \* slot[t]: the g_* pointer the replacement of t jumps through
    patch,     \* patch[a]: the target whose replacement address a leads to
    running    \* what each game thread executes: [at, called, via, body]

installer == <<engine, ipc, cur, outcome, slot, patch>>
vars == <<method, engine, ipc, cur, outcome, slot, patch, running>>

InGame == [at |-> "game", called |-> None, via |-> None, body |-> None]

(* Metadata of the running build is fixed: two methods may share one
   generated address, and a method may be missing. *)
Init ==
    /\ method \in [Targets -> Addresses \cup {None}]
    /\ engine = "cold"
    /\ ipc = "idle"
    /\ cur = None
    /\ outcome = [t \in Targets |-> "untried"]
    /\ slot = [t \in Targets |-> None]
    /\ patch = [a \in Addresses |-> None]
    /\ running = [th \in Threads |-> InGame]

-----------------------------------------------------------------------------
(* The installing thread.                                                  *)

(* Mutant: one call site passes another method's slot. *)
SharedSlot(t) == CHOOSE u \in Targets : TRUE

(* The slot handed to install() is the one the target's own replacement
   reads; every call site in photon_hooks.cpp and cloud_guard.h pairs them. *)
SlotPassed(t) == t

(* std::call_once: the first install initializes the engine, for good. *)
EnsureEngine ==
    engine' \in IF engine = "cold" THEN {"ready", "broken"} ELSE {engine}

(* install() returns: nothing of the target is left behind but its result. *)
Finish(t, result) ==
    /\ outcome' = [outcome EXCEPT ![t] = result]
    /\ ipc' = "idle"
    /\ cur' = None

(* Engine check, metadata lookup, and *original = nullptr. *)
Begin(t) ==
    /\ ipc = "idle"
    /\ outcome[t] = "untried"
    /\ EnsureEngine
    /\ \/ /\ engine' = "broken" \/ method[t] = None
          /\ Finish(t, "failed")
          /\ UNCHANGED slot
       \/ /\ engine' = "ready" /\ method[t] # None
          /\ slot' = [slot EXCEPT ![SlotPassed(t)] = None]
          /\ ipc' = "engine"
          /\ cur' = t
          /\ UNCHANGED outcome
    /\ UNCHANGED <<method, patch, running>>

(* Mutant: the error path unhooks the address it could not hook. *)
EngineRefuseUndo ==
    /\ ipc \in {"engine", "patching"}
    /\ Finish(cur, "failed")
    /\ patch' = [patch EXCEPT ![method[cur]] = None]
    /\ UNCHANGED <<method, engine, slot, running>>

(* shadowhook_hook_func_addr returns NULL: always for an address that is
   already hooked, and possibly for reasons of its own. *)
EngineRefuse ==
    /\ ipc \in {"engine", "patching"}
    /\ Finish(cur, "failed")
    /\ UNCHANGED <<method, engine, slot, patch, running>>

(* Mutant: the engine is initialized without UNIQUE mode. *)
PublishTwice ==
    /\ ipc = "engine"
    /\ slot' = [slot EXCEPT ![SlotPassed(cur)] = method[cur]]
    /\ ipc' = "patching"
    /\ UNCHANGED <<method, engine, cur, outcome, patch, running>>

(* The engine builds a trampoline and stores it through `original`... *)
EnginePublish ==
    /\ ipc = "engine"
    /\ patch[method[cur]] = None
    /\ slot' = [slot EXCEPT ![SlotPassed(cur)] = method[cur]]
    /\ ipc' = "patching"
    /\ UNCHANGED <<method, engine, cur, outcome, patch, running>>

(* ...or leaves `original` alone, the case install() rolls back from... *)
EngineSkip ==
    /\ EngineSilent
    /\ ipc = "engine"
    /\ patch[method[cur]] = None
    /\ ipc' = "patching"
    /\ UNCHANGED <<method, engine, cur, outcome, slot, patch, running>>

(* Mutant: the method's own address is passed as the replacement. *)
PatchSwapped ==
    /\ ipc = "patching"
    /\ patch' = [patch EXCEPT ![method[cur]] = method[cur]]
    /\ ipc' = "verify"
    /\ UNCHANGED <<method, engine, cur, outcome, slot, running>>

(* ...and then redirects the entry of the method. *)
EnginePatch ==
    /\ ipc = "patching"
    /\ patch' = [patch EXCEPT ![method[cur]] = cur]
    /\ ipc' = "verify"
    /\ UNCHANGED <<method, engine, cur, outcome, slot, running>>

(* The hook is kept when the engine filled the slot. *)
VerifyOk ==
    /\ ipc = "verify"
    /\ slot[SlotPassed(cur)] # None
    /\ Finish(cur, "ok")
    /\ UNCHANGED <<method, engine, slot, patch, running>>

(* Mutant: install() fails and the entry stays redirected. *)
KeepHook ==
    /\ ipc = "verify"
    /\ slot[SlotPassed(cur)] = None
    /\ Finish(cur, "failed")
    /\ UNCHANGED <<method, engine, slot, patch, running>>

(* Otherwise shadowhook_unhook(stub) restores the entry. *)
RollBack ==
    /\ ipc = "verify"
    /\ slot[SlotPassed(cur)] = None
    /\ patch' = [patch EXCEPT ![method[cur]] = None]
    /\ Finish(cur, "failed")
    /\ UNCHANGED <<method, engine, slot, running>>

-----------------------------------------------------------------------------
(* Game threads.                                                           *)

(* The entry of a method decides once where the call goes. *)
CallMethod(th, a) ==
    /\ running[th] = InGame
    /\ running' = [running EXCEPT ![th] =
           IF patch[a] = None
           THEN [at |-> "original", called |-> a, via |-> None, body |-> a]
           ELSE [at |-> "replacement", called |-> a, via |-> patch[a], body |-> None]]
    /\ UNCHANGED <<method, installer>>

(* A replacement calls the original through its slot, unconditionally; the one
   of SelectPhotonAppId looks for null first, which is left out. *)
Forward(th) ==
    /\ running[th].at = "replacement"
    /\ LET target == slot[running[th].via]
       IN running' = [running EXCEPT
              ![th].at = IF target = None THEN "crashed" ELSE "original",
              ![th].body = target]
    /\ UNCHANGED <<method, installer>>

(* The original body returns, or a replacement ends without calling it
   (a blocked connect, a quarantined update, an overridden AppID). *)
ReturnToGame(th) ==
    /\ running[th].at \in {"replacement", "original"}
    /\ running' = [running EXCEPT ![th] = InGame]
    /\ UNCHANGED <<method, installer>>

-----------------------------------------------------------------------------
Install ==
    \/ \E t \in Targets : Begin(t)
    \/ EngineRefuse
    \/ EnginePublish
    \/ EngineSkip
    \/ EnginePatch
    \/ VerifyOk
    \/ RollBack

Game ==
    \E th \in Threads :
       \/ \E a \in Addresses : CallMethod(th, a)
       \/ Forward(th)
       \/ ReturnToGame(th)

(* A jump through a null pointer kills the process: nothing runs after it. *)
ProcessAlive == \A th \in Threads : running[th].at # "crashed"

Next == ProcessAlive /\ (Install \/ Game)

Spec == Init /\ [][Next]_vars

-----------------------------------------------------------------------------
(* Properties.                                                             *)

RunningStates ==
    [at : {"game", "replacement", "original", "crashed"},
     called : Addresses \cup {None},
     via : Targets \cup {None},
     body : Addresses \cup {None}]

(* Every variable keeps its type. *)
TypeOK ==
    /\ method \in [Targets -> Addresses \cup {None}]
    /\ engine \in {"cold", "ready", "broken"}
    /\ ipc \in {"idle", "engine", "patching", "verify"}
    /\ cur \in Targets \cup {None}
    /\ outcome \in [Targets -> {"untried", "ok", "failed"}]
    /\ slot \in [Targets -> Addresses \cup {None}]
    /\ patch \in [Addresses -> Targets \cup {None}]
    /\ running \in [Threads -> RunningStates]

(* No game thread ever jumps through an empty slot, however its call
   interleaves with clearing, filling and patching (the "guaranteed SIGSEGV
   on the first intercepted call" of hook.cpp:87). *)
NoNullForward == \A th \in Threads : running[th].at # "crashed"

(* A call ends in the original body of the method it was made to, whichever
   replacement it went through: slots are never mixed up. *)
RunsOwnOriginal ==
    \A th \in Threads :
        running[th].at = "original" => running[th].body = running[th].called

(* Fail-closed: install() returning true means the address leads to this
   replacement and the slot back to this address; install() returning false
   means no address leads to the replacement. *)
OutcomeHonest ==
    \A t \in Targets :
        /\ outcome[t] = "ok" => /\ method[t] \in Addresses
                                /\ patch[method[t]] = t
                                /\ slot[t] = method[t]
        /\ outcome[t] = "failed" => \A a \in Addresses : patch[a] # t

(* Once install() has returned true, no later install (which starts by
   clearing a slot, and may meet the same address) disturbs the hook. *)
InstalledForGood ==
    [][\A t \in Targets :
          outcome[t] = "ok" => /\ outcome'[t] = "ok"
                               /\ slot'[t] = slot[t]
                               /\ \A a \in Addresses :
                                      (patch[a] = t) <=> (patch'[a] = t)]_vars

(* With an engine that always fills the slot, callers cannot tell the
   protocol from hooks that appear in one step. *)
Table == INSTANCE HookTable WITH
    hooked  <- {a \in Addresses : patch[a] # None},
    running <- [th \in Threads |-> [at     |-> running[th].at,
                                    called |-> running[th].called]]

ImplementsTable == Table!Spec
=============================================================================
