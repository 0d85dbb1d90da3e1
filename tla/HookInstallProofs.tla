--------------------------- MODULE HookInstallProofs ---------------------------
(***************************************************************************)
(* Theorems about HookInstall, for any number of game threads, methods and *)
(* addresses.  The invariant ties every redirected entry to the target     *)
(* that install() has accepted, or is about to check, and every thread in  *)
(* a replacement to the entry that sent it there.                          *)
(***************************************************************************)
EXTENDS HookInstall, TLAPS

LEMMA InitTyped == Init => TypeOK
  BY HookAssumption DEF Init, TypeOK, RunningStates, InGame

LEMMA StepTyped == TypeOK /\ [Next]_vars => TypeOK'
<1>. SUFFICES ASSUME TypeOK, [Next]_vars PROVE TypeOK'
  OBVIOUS
<1>. USE HookAssumption DEF TypeOK, Finish, SlotPassed, installer
<1>1. ASSUME NEW t \in Targets, Begin(t) PROVE TypeOK'
  BY <1>1 DEF Begin, EnsureEngine
<1>2. CASE EngineRefuse
  BY <1>2 DEF EngineRefuse
<1>3. CASE EnginePublish
  BY <1>3 DEF EnginePublish
<1>4. CASE EngineSkip
  BY <1>4 DEF EngineSkip
<1>5. CASE EnginePatch
  BY <1>5 DEF EnginePatch
<1>6. CASE VerifyOk \/ RollBack
  BY <1>6 DEF VerifyOk, RollBack
<1>7. ASSUME NEW th \in Threads, NEW a \in Addresses, CallMethod(th, a) PROVE TypeOK'
  BY <1>7 DEF CallMethod, RunningStates
<1>8. ASSUME NEW th \in Threads, Forward(th) \/ ReturnToGame(th) PROVE TypeOK'
  BY <1>8 DEF Forward, ReturnToGame, RunningStates, InGame
<1>9. CASE UNCHANGED vars
  BY <1>9 DEF vars
<1>. QED
  BY <1>1, <1>2, <1>3, <1>4, <1>5, <1>6, <1>7, <1>8, <1>9 DEF Next, Install, Game

(* Every variable of the protocol keeps its type. *)
THEOREM TypeCorrect == Spec => []TypeOK
  BY InitTyped, StepTyped, PTL DEF Spec

-----------------------------------------------------------------------------
(* The inductive invariant.                                                *)

(* The target being installed is untried and has an address; its entry is
   redirected exactly between EnginePatch and the end of the check. *)
CurInv ==
    /\ ipc = "idle" => cur = None
    /\ ipc # "idle" => /\ cur \in Targets
                       /\ method[cur] \in Addresses
                       /\ outcome[cur] = "untried"
    /\ ipc = "patching" => patch[method[cur]] = None
    /\ ipc = "verify" => patch[method[cur]] = cur

(* An entry leads to a target only if that target lives there and was
   accepted, or is being checked. *)
PatchInv ==
    \A a \in Addresses, t \in Targets :
        patch[a] = t => /\ method[t] = a
                        /\ outcome[t] = "ok" \/ (ipc = "verify" /\ cur = t)

(* A slot is empty or leads to its own method; an accepted target is whole. *)
SlotInv ==
    \A t \in Targets :
        /\ slot[t] \in {None, method[t]}
        /\ outcome[t] = "ok" => /\ method[t] \in Addresses
                                /\ patch[method[t]] = t
                                /\ slot[t] = method[t]

(* A thread in a replacement called the method of that replacement. *)
CallInv ==
    \A th \in Threads :
        /\ running[th].at = "replacement" =>
               /\ running[th].via \in Targets
               /\ running[th].called = method[running[th].via]
               /\ running[th].called \in Addresses
        /\ running[th].at = "original" => running[th].body = running[th].called

HookInv == TypeOK /\ CurInv /\ PatchInv /\ SlotInv /\ CallInv

LEMMA InitHook == Init => HookInv
  BY InitTyped, HookAssumption
     DEF Init, HookInv, CurInv, PatchInv, SlotInv, CallInv, InGame

LEMMA InstallHookInv ==
    ASSUME HookInv, Install PROVE CurInv' /\ PatchInv' /\ SlotInv'
<1>. USE HookAssumption DEF HookInv, TypeOK, SlotPassed, Finish
<1>1. ASSUME NEW t \in Targets, Begin(t) PROVE CurInv' /\ PatchInv' /\ SlotInv'
  <2>1. CurInv'
    BY <1>1 DEF CurInv, Begin, EnsureEngine
  <2>2. PatchInv'
    BY <1>1 DEF CurInv, PatchInv, Begin
  <2>3. SlotInv'
    BY <1>1 DEF CurInv, SlotInv, Begin
  <2>. QED  BY <2>1, <2>2, <2>3
<1>2. CASE EngineRefuse
  <2>1. CurInv'
    BY <1>2 DEF CurInv, EngineRefuse
  <2>2. PatchInv'
    BY <1>2 DEF CurInv, PatchInv, EngineRefuse
  <2>3. SlotInv'
    BY <1>2 DEF CurInv, PatchInv, SlotInv, EngineRefuse
  <2>. QED  BY <2>1, <2>2, <2>3
<1>3. CASE EnginePublish
  <2>1. CurInv'
    BY <1>3 DEF CurInv, EnginePublish
  <2>2. PatchInv'
    BY <1>3 DEF CurInv, PatchInv, EnginePublish
  <2>3. SlotInv'
    BY <1>3 DEF CurInv, PatchInv, SlotInv, EnginePublish
  <2>. QED  BY <2>1, <2>2, <2>3
<1>4. CASE EngineSkip
  <2>1. CurInv'
    BY <1>4 DEF CurInv, EngineSkip
  <2>2. PatchInv'
    BY <1>4 DEF CurInv, PatchInv, EngineSkip
  <2>3. SlotInv'
    BY <1>4 DEF CurInv, PatchInv, SlotInv, EngineSkip
  <2>. QED  BY <2>1, <2>2, <2>3
<1>5. CASE EnginePatch
  <2>1. CurInv'
    BY <1>5 DEF CurInv, EnginePatch
  <2>2. PatchInv'
    BY <1>5 DEF CurInv, PatchInv, EnginePatch
  <2>3. SlotInv'
    BY <1>5 DEF CurInv, PatchInv, SlotInv, EnginePatch
  <2>. QED  BY <2>1, <2>2, <2>3
<1>6. CASE VerifyOk
  <2>1. CurInv'
    BY <1>6 DEF CurInv, VerifyOk
  <2>2. PatchInv'
    BY <1>6 DEF CurInv, PatchInv, VerifyOk
  <2>3. SlotInv'
    BY <1>6 DEF CurInv, PatchInv, SlotInv, VerifyOk
  <2>. QED  BY <2>1, <2>2, <2>3
<1>7. CASE RollBack
  <2>1. CurInv'
    BY <1>7 DEF CurInv, RollBack
  <2>2. PatchInv'
    BY <1>7 DEF CurInv, PatchInv, RollBack
  <2>3. SlotInv'
    BY <1>7 DEF CurInv, PatchInv, SlotInv, RollBack
  <2>. QED  BY <2>1, <2>2, <2>3
<1>. QED  BY <1>1, <1>2, <1>3, <1>4, <1>5, <1>6, <1>7 DEF Install

LEMMA InstallCallInv == ASSUME HookInv, Install PROVE CallInv'
<1>1. UNCHANGED <<method, running>>
  BY DEF Install, Begin, EngineRefuse, EnginePublish, EngineSkip, EnginePatch,
         VerifyOk, RollBack
<1>. QED  BY <1>1 DEF HookInv, CallInv

LEMMA GameHookInv ==
    ASSUME HookInv, Game PROVE CurInv' /\ PatchInv' /\ SlotInv' /\ CallInv'
<1>1. UNCHANGED <<method, installer>>
  BY DEF Game, CallMethod, Forward, ReturnToGame
<1>2. CurInv' /\ PatchInv' /\ SlotInv'
  BY <1>1 DEF HookInv, CurInv, PatchInv, SlotInv, installer
<1>. USE HookAssumption DEF HookInv, TypeOK, RunningStates, CallInv
<1>3. ASSUME NEW th \in Threads, NEW a \in Addresses, CallMethod(th, a) PROVE CallInv'
  <2>1. patch[a] # None => patch[a] \in Targets /\ method[patch[a]] = a
    BY DEF PatchInv
  <2>. QED  BY <1>1, <1>3, <2>1 DEF CallMethod
<1>4. ASSUME NEW th \in Threads, Forward(th) PROVE CallInv'
  <2>1. slot[running[th].via] \in {None, running[th].called}
    BY <1>4 DEF Forward, SlotInv
  <2>. QED  BY <1>1, <1>4, <2>1 DEF Forward
<1>5. ASSUME NEW th \in Threads, ReturnToGame(th) PROVE CallInv'
  BY <1>1, <1>5 DEF ReturnToGame, InGame
<1>. QED  BY <1>2, <1>3, <1>4, <1>5 DEF Game

LEMMA AlwaysHook == Spec => []HookInv
<1>1. HookInv /\ UNCHANGED vars => HookInv'
  BY StepTyped DEF vars, HookInv, CurInv, PatchInv, SlotInv, CallInv
<1>2. HookInv /\ [Next]_vars => HookInv'
  BY <1>1, StepTyped, InstallHookInv, InstallCallInv, GameHookInv DEF Next, HookInv
<1>. QED  BY InitHook, <1>2, PTL DEF Spec

-----------------------------------------------------------------------------
(* What follows for any engine.                                            *)

(* A call ends in the original body of the method it was made to. *)
THEOREM OriginalsAreNotMixed == Spec => []RunsOwnOriginal
<1>1. HookInv => RunsOwnOriginal
  BY DEF HookInv, CallInv, RunsOwnOriginal
<1>. QED  BY <1>1, AlwaysHook, PTL

(* The result of install() tells the truth about the entry and the slot. *)
THEOREM OutcomeIsHonest == Spec => []OutcomeHonest
<1>1. HookInv => OutcomeHonest
  BY DEF HookInv, TypeOK, CurInv, PatchInv, SlotInv, OutcomeHonest
<1>. QED  BY <1>1, AlwaysHook, PTL

(* No later step takes an accepted hook apart. *)
THEOREM HooksStay == Spec => InstalledForGood
<1>. DEFINE Stays == \A t \in Targets :
          outcome[t] = "ok" => /\ outcome'[t] = "ok"
                               /\ slot'[t] = slot[t]
                               /\ \A a \in Addresses :
                                      (patch[a] = t) <=> (patch'[a] = t)
<1>1. ASSUME HookInv, Install, NEW t \in Targets, outcome[t] = "ok"
      PROVE  /\ outcome'[t] = "ok"
             /\ slot'[t] = slot[t]
             /\ \A a \in Addresses : (patch[a] = t) <=> (patch'[a] = t)
  <2>. USE <1>1 DEF HookInv, TypeOK, CurInv, SlotPassed, Finish
  <2>1. ASSUME NEW u \in Targets, Begin(u) PROVE t # u
    BY <2>1 DEF Begin
  <2>2. CASE \E u \in Targets : Begin(u)
    BY <2>1, <2>2 DEF Begin
  <2>3. CASE ipc # "idle"
    <3>1. t # cur
      BY <2>3
    <3>2. CASE EngineRefuse \/ EnginePublish \/ EngineSkip \/ VerifyOk
      BY <2>3, <3>1, <3>2 DEF EngineRefuse, EnginePublish, EngineSkip, VerifyOk
    <3>3. CASE EnginePatch
      BY <2>3, <3>1, <3>3, HookAssumption DEF EnginePatch
    <3>4. CASE RollBack
      BY <2>3, <3>1, <3>4, HookAssumption DEF RollBack
    <3>. QED  BY <2>3, <3>2, <3>3, <3>4 DEF Install, Begin
  <2>. QED
    BY <2>2, <2>3 DEF Install, EngineRefuse, EnginePublish, EngineSkip,
                      EnginePatch, VerifyOk, RollBack
<1>2. ASSUME Game \/ UNCHANGED vars PROVE Stays
  BY <1>2 DEF Game, CallMethod, Forward, ReturnToGame, installer, vars
<1>3. HookInv /\ [Next]_vars => [Stays]_vars
  BY <1>1, <1>2 DEF Next
<1>. QED  BY <1>3, AlwaysHook, PTL DEF Spec, InstalledForGood

-----------------------------------------------------------------------------
(* What follows for an engine that never hooks without a trampoline.       *)

(* From the moment an entry can be redirected to it, the slot is filled. *)
TrampolineInv ==
    /\ ipc \in {"patching", "verify"} => slot[cur] = method[cur]
    /\ \A th \in Threads :
          running[th].at = "replacement" =>
              \/ outcome[running[th].via] = "ok"
              \/ ipc = "verify" /\ cur = running[th].via
    /\ NoNullForward

LEMMA InstallTrampoline ==
    ASSUME ~EngineSilent, HookInv, TrampolineInv, Install
    PROVE  TrampolineInv' /\ ~RollBack
<1>. USE HookAssumption DEF HookInv, TypeOK, CurInv, SlotPassed, Finish
<1>1. ~RollBack
  BY DEF TrampolineInv, RollBack
<1>2. UNCHANGED running
  BY DEF Install, Begin, EngineRefuse, EnginePublish, EngineSkip, EnginePatch,
         VerifyOk, RollBack
<1>3. NoNullForward'
  BY <1>2 DEF TrampolineInv, NoNullForward
<1>4. (ipc \in {"patching", "verify"} => slot[cur] = method[cur])'
  <2>1. CASE \E t \in Targets : Begin(t)
    BY <2>1 DEF Begin
  <2>2. CASE EngineRefuse \/ VerifyOk
    BY <2>2 DEF EngineRefuse, VerifyOk
  <2>3. CASE EnginePublish
    BY <2>3 DEF EnginePublish
  <2>4. CASE EnginePatch
    BY <2>4 DEF EnginePatch, TrampolineInv
  <2>. QED  BY <1>1, <2>1, <2>2, <2>3, <2>4 DEF Install, EngineSkip
<1>5. ASSUME NEW th \in Threads, running[th].at = "replacement"
      PROVE  \/ outcome'[running[th].via] = "ok"
             \/ ipc' = "verify" /\ cur' = running[th].via
  <2>1. running[th].via \in Targets
    BY <1>5 DEF CallInv
  <2>2. CASE outcome[running[th].via] = "ok"
    BY <2>1, <2>2 DEF Install, Begin, EngineRefuse, EnginePublish, EngineSkip,
                      EnginePatch, VerifyOk, RollBack
  <2>3. CASE ipc = "verify" /\ cur = running[th].via
    BY <1>1, <2>1, <2>3 DEF Install, Begin, EngineRefuse, EnginePublish, EngineSkip,
                            EnginePatch, VerifyOk
  <2>. QED  BY <1>5, <2>2, <2>3 DEF TrampolineInv
<1>. QED  BY <1>1, <1>2, <1>3, <1>4, <1>5 DEF TrampolineInv

LEMMA ForwardLands ==
    ASSUME HookInv, TrampolineInv, NEW th \in Threads, running[th].at = "replacement"
    PROVE  slot[running[th].via] \in Addresses
<1>1. running[th].via \in Targets /\ method[running[th].via] \in Addresses
  BY DEF HookInv, CallInv
<1>. QED  BY <1>1 DEF HookInv, TrampolineInv, SlotInv, CurInv

LEMMA GameTrampoline ==
    ASSUME HookInv, TrampolineInv, Game PROVE TrampolineInv'
<1>1. UNCHANGED <<method, installer>>
  BY DEF Game, CallMethod, Forward, ReturnToGame
<1>. USE HookAssumption DEF HookInv, TypeOK, RunningStates, TrampolineInv, NoNullForward
<1>2. ASSUME NEW th \in Threads, NEW a \in Addresses, CallMethod(th, a)
      PROVE  TrampolineInv'
  <2>1. patch[a] # None =>
            /\ patch[a] \in Targets
            /\ outcome[patch[a]] = "ok" \/ (ipc = "verify" /\ cur = patch[a])
    BY DEF PatchInv
  <2>. QED  BY <1>1, <1>2, <2>1 DEF CallMethod, installer
<1>3. ASSUME NEW th \in Threads, Forward(th) PROVE TrampolineInv'
  <2>1. slot[running[th].via] \in Addresses
    BY <1>3, ForwardLands DEF Forward
  <2>. QED  BY <1>1, <1>3, <2>1 DEF Forward, installer
<1>4. ASSUME NEW th \in Threads, ReturnToGame(th) PROVE TrampolineInv'
  BY <1>1, <1>4 DEF ReturnToGame, InGame, installer
<1>. QED  BY <1>2, <1>3, <1>4 DEF Game

LEMMA AlwaysTrampoline == ASSUME ~EngineSilent PROVE Spec => []TrampolineInv
<1>1. Init => TrampolineInv
  BY DEF Init, TrampolineInv, NoNullForward, InGame
<1>2. HookInv /\ TrampolineInv /\ [Next]_vars => TrampolineInv'
  BY InstallTrampoline, GameTrampoline DEF Next, vars, TrampolineInv, NoNullForward
<1>. QED  BY <1>1, <1>2, AlwaysHook, PTL DEF Spec

(* With such an engine no game thread ever jumps through an empty slot. *)
THEOREM NoNullJump == ASSUME ~EngineSilent PROVE Spec => []NoNullForward
<1>1. TrampolineInv => NoNullForward
  BY DEF TrampolineInv
<1>. QED  BY <1>1, AlwaysTrampoline, PTL

-----------------------------------------------------------------------------
(* The protocol implements HookTable.                                      *)

LEMMA InstallRefines ==
    ASSUME ~EngineSilent, HookInv, TrampolineInv, Install
    PROVE  [Table!Next]_(Table!vars)
<1>1. UNCHANGED running
  BY DEF Install, Begin, EngineRefuse, EnginePublish, EngineSkip, EnginePatch,
         VerifyOk, RollBack
<1>2. ~RollBack
  BY InstallTrampoline
<1>3. CASE EnginePatch
  <2>1. PICK a \in Addresses : a = method[cur]
    BY <1>3 DEF EnginePatch, HookInv, CurInv
  <2>2. patch[a] = None /\ cur # None /\ patch' = [patch EXCEPT ![a] = cur]
    BY <1>3, <2>1, HookAssumption DEF EnginePatch, HookInv, CurInv
  <2>3. Table!Install(a)
    BY <1>1, <2>2 DEF Table!Install, HookInv, TypeOK
  <2>. QED  BY <2>3 DEF Table!Next
<1>4. CASE ~EnginePatch
  <2>1. UNCHANGED patch
    BY <1>2, <1>4 DEF Install, Begin, EngineRefuse, EnginePublish, EngineSkip, VerifyOk
  <2>. QED  BY <1>1, <2>1 DEF Table!vars
<1>. QED  BY <1>3, <1>4

LEMMA GameRefines ==
    ASSUME HookInv, TrampolineInv, Game PROVE [Table!Next]_(Table!vars)
<1>1. UNCHANGED patch
  BY DEF Game, CallMethod, Forward, ReturnToGame, installer
<1>. USE DEF HookInv, TypeOK, RunningStates
<1>2. ASSUME NEW th \in Threads, NEW a \in Addresses, CallMethod(th, a)
      PROVE  Table!Call(th, a)
  <2>1. running[th].at = "game" /\ running[th].called = None
    BY <1>2 DEF CallMethod, InGame
  <2>2. /\ running'[th].at = IF patch[a] = None THEN "original" ELSE "replacement"
        /\ running'[th].called = a
        /\ \A u \in Threads \ {th} : running'[u] = running[u]
    BY <1>2 DEF CallMethod
  <2>. QED  BY <1>1, <2>1, <2>2 DEF Table!Call, Table!InGame
<1>3. ASSUME NEW th \in Threads, Forward(th) PROVE Table!Forward(th)
  <2>1. slot[running[th].via] # None
    BY <1>3, ForwardLands, HookAssumption DEF Forward
  <2>. QED  BY <1>1, <1>3, <2>1 DEF Forward, Table!Forward
<1>4. ASSUME NEW th \in Threads, ReturnToGame(th) PROVE Table!Return(th)
  BY <1>1, <1>4 DEF ReturnToGame, Table!Return, Table!InGame, InGame
<1>. QED  BY <1>2, <1>3, <1>4 DEF Game, Table!Next

(* To the game, hooks appear in one step, and every call reaches the
   original of the method it was made to or returns from its replacement. *)
THEOREM Implementation == ASSUME ~EngineSilent PROVE Spec => ImplementsTable
<1>1. Init => Table!Init
  BY DEF Init, Table!Init, Table!InGame, InGame
<1>2. HookInv /\ TrampolineInv /\ [Next]_vars => [Table!Next]_(Table!vars)
  <2>1. UNCHANGED vars => UNCHANGED Table!vars
    BY DEF vars, Table!vars
  <2>. QED  BY <2>1, InstallRefines, GameRefines DEF Next
<1>. QED
  BY <1>1, <1>2, AlwaysHook, AlwaysTrampoline, PTL DEF Spec, ImplementsTable, Table!Spec
=============================================================================
