----------------------------- MODULE StartupProofs -----------------------------
(***************************************************************************)
(* Theorems about Startup, for every length of the loops and every game.   *)
(*                                                                         *)
(* The inductive invariant counts: a run of equal samples of the current   *)
(* length began at most one gap before the registration that produced it   *)
(* finished, so `stable` is at most MaxGap + quiet; a run of samples of    *)
(* the coming length began after the latest one finished, or with a single *)
(* torn sample of just that value; and a torn sample repeats none.         *)
(***************************************************************************)
EXTENDS Startup, TLAPS

-----------------------------------------------------------------------------
(* Typing.                                                                 *)

(* The type invariant is inductive once a registration is known to have an
   assembly left to register. *)
TypeInv ==
    /\ TypeOK
    /\ busy => count < Total
    /\ pc = "settle" => i <= WaitSteps

LEMMA InitTyped == Init => TypeInv
<1>. SUFFICES ASSUME Init PROVE TypeInv
  OBVIOUS
<1>1. TypeOK
  <2>1. quiet \in 0..MaxGap /\ count \in 0..Total /\ doneAt \in 0..WaitSteps
    BY StartupAssumption DEF Init
  <2>2. last \in 0..MaxCount /\ i \in Nat /\ stable \in Nat
    BY StartupAssumption DEF Init
  <2>. QED  BY <2>1, <2>2 DEF Init, TypeOK
<1>2. busy => count < Total
  BY Zenon DEF Init
<1>3. pc = "settle" => i <= WaitSteps
  BY DEF Init
<1>. QED  BY <1>1, <1>2, <1>3 DEF TypeInv

LEMMA RuntimeTyped == TypeInv /\ Runtime => TypeInv'
<1>. SUFFICES ASSUME TypeInv, Runtime PROVE TypeInv'
  OBVIOUS
<1>. USE StartupAssumption DEF TypeInv, TypeOK, thread
<1>1. CASE LoadLibrary
  BY <1>1 DEF LoadLibrary
<1>2. CASE CreateDomain
  BY <1>2 DEF CreateDomain
<1>3. CASE RegisterBegin
  BY <1>3 DEF RegisterBegin
<1>4. CASE RegisterEnd
  <2>1. doneAt' \in 0..WaitSteps
    BY <1>4 DEF RegisterEnd
  <2>2. count' \in 0..Total
    BY <1>4 DEF RegisterEnd
  <2>3. quiet' \in 0..MaxGap
    BY <1>4 DEF RegisterEnd
  <2>4. ~busy' /\ busy' \in BOOLEAN
    BY <1>4, Zenon DEF RegisterEnd
  <2>5. UNCHANGED <<game, lib, domain, pc, i, last, stable, attached, result>>
    BY <1>4 DEF RegisterEnd
  <2>. HIDE StartupAssumption
  <2>. QED  BY <2>1, <2>2, <2>3, <2>4, <2>5
<1>. QED  BY <1>1, <1>2, <1>3, <1>4 DEF Runtime

LEMMA AwaitTyped ==
    ASSUME NEW phase \in BeforeSettle, NEW next \in BeforeSettle \cup {"settle"},
           NEW condition,
           NEW failure \in {"noLibrary", "noExports", "noDomain"},
           TypeInv, Await(phase, condition, next, failure)
    PROVE  TypeInv'
  BY StartupAssumption
     DEF TypeInv, TypeOK, Await, BeforeSettle, Return, Tick, runtime

(* A length that a game may have reaches the loop as it is. *)
LEMMA CountTyped == TypeInv => AssemblyCount \subseteq 0..MaxCount
BY StartupAssumption DEF TypeInv, TypeOK, AssemblyCount, Lengths

LEMMA ThreadTyped == TypeInv /\ InitThread => TypeInv'
<1>. SUFFICES ASSUME TypeInv, InitThread PROVE TypeInv'
  OBVIOUS
<1>1. CASE FindLibrary
  BY <1>1, AwaitTyped DEF FindLibrary, BeforeSettle, TypeInv, TypeOK
<1>2. CASE Resolve
  BY <1>2, AwaitTyped DEF Resolve, BeforeSettle, TypeInv, TypeOK, Games
<1>3. CASE GetDomain
  BY <1>3, AwaitTyped DEF GetDomain, BeforeSettle, TypeInv, TypeOK
<1>. USE StartupAssumption DEF TypeInv, TypeOK, runtime
<1>4. CASE Settle
  <2>1. last' \in 0..MaxCount /\ stable' \in Nat
    BY <1>4, CountTyped DEF Settle
  <2>. QED  BY <1>4, <2>1 DEF Settle, Tick
<1>5. CASE Settled
  BY <1>5 DEF Settled
<1>6. CASE NeverSettled
  BY <1>6 DEF NeverSettled, Return
<1>7. CASE Sleep
  BY <1>7 DEF Sleep, Tick
<1>8. CASE Attach
  BY <1>8 DEF Attach, Return
<1>9. CASE FindImage
  <2>1. attached' \in BOOLEAN
    BY <1>9 DEF FindImage, Detach
  <2>. QED  BY <1>9, <2>1 DEF FindImage, Tick, Return
<1>10. CASE InstallHooks
  BY <1>10 DEF InstallHooks, Return, Detach
<1>. QED
  BY <1>1, <1>2, <1>3, <1>4, <1>5, <1>6, <1>7, <1>8, <1>9, <1>10 DEF InitThread

LEMMA StutterTyped == TypeInv /\ UNCHANGED vars => TypeInv'
  BY DEF TypeInv, TypeOK, vars, runtime, thread

LEMMA AlwaysTyped == Spec => []TypeInv
<1>1. TypeInv /\ [Next]_vars => TypeInv'
  BY RuntimeTyped, ThreadTyped, StutterTyped DEF Next
<1>. QED  BY InitTyped, <1>1, PTL DEF Spec

(* Every variable of the runtime and of the init thread keeps its type. *)
THEOREM TypeCorrect == Spec => []TypeOK
<1>1. TypeInv => TypeOK
  BY DEF TypeInv
<1>. QED  BY AlwaysTyped, <1>1, PTL

-----------------------------------------------------------------------------
(* The walk.                                                               *)

(* StableChecks identical samples span more than two gaps. *)
GapsFit == StableChecks > 2 * MaxGap

(* What the last stable + 1 samples, all equal to `last`, say of the
   registration: it is past them, at them, or just about to reach them; or the
   only sample was torn. *)
Counted ==
    /\ last = 0 => stable = 0
    /\ count = 0 /\ ~busy => last = 0
    /\ last # 0 /\ last < count => stable <= 2 * MaxGap
    /\ last # 0 /\ last = count /\ ~Complete => stable <= MaxGap + quiet
    /\ last = count + 1 => stable <= quiet
    /\ last > count + 1 => stable = 0

WalkInv ==
    /\ pc \in BeforeSettle => last = 0 /\ stable = 0
    /\ pc = "settle" => Counted
    /\ pc \in {"headroom", "attach", "image", "install"} => Complete
    /\ Walking => attached

LEMMA RuntimeCounted == TypeInv /\ Counted /\ Runtime => Counted'
<1>. SUFFICES ASSUME TypeInv, Counted, Runtime PROVE Counted'
  OBVIOUS
<1>. USE StartupAssumption DEF TypeInv, TypeOK, Counted, Complete, thread
<1>1. CASE LoadLibrary
  BY <1>1 DEF LoadLibrary
<1>2. CASE CreateDomain
  BY <1>2 DEF CreateDomain
<1>3. CASE RegisterBegin
  BY <1>3 DEF RegisterBegin
<1>4. CASE RegisterEnd
  BY <1>4 DEF RegisterEnd
<1>. QED  BY <1>1, <1>2, <1>3, <1>4 DEF Runtime

LEMMA RuntimeComplete == TypeInv /\ Complete /\ Runtime => Complete'
  BY DEF TypeInv, TypeOK, Complete, Runtime, LoadLibrary, CreateDomain,
         RegisterBegin, RegisterEnd

(* A sample that agrees with the one before shows the old or the new length of
   a vector that is being filled, or the length it has. *)
LEMMA AgreementIsReal ==
    ASSUME TypeInv, last \in AssemblyCount, last # 0
    PROVE  last = count \/ (busy /\ last = count + 1)
BY StartupAssumption DEF TypeInv, TypeOK, AssemblyCount, Lengths

LEMMA SettleCounted == TypeInv /\ Counted /\ Settle => Counted'
<1>. SUFFICES ASSUME TypeInv, Counted, Settle PROVE Counted'
  OBVIOUS
<1>1. PICK now \in AssemblyCount :
          /\ stable' = IF now # 0 /\ now = last THEN stable + 1 ELSE 0
          /\ last' = now
  BY DEF Settle
<1>2. UNCHANGED <<count, busy>> /\ (Complete' <=> Complete) /\ now \in Nat
  BY CountTyped, StartupAssumption DEF Settle, Tick, Complete
<1>3. quiet \in Nat /\ quiet' \in Nat /\ (Registering => quiet' = quiet + 1)
  BY StartupAssumption DEF Settle, Tick, TypeInv, TypeOK
<1>4. CASE ~(now # 0 /\ now = last)
  <2>1. stable' = 0
    BY <1>1, <1>4
  <2>2. count = 0 /\ ~busy => now = 0
    BY StartupAssumption DEF AssemblyCount, Lengths
  <2>3. count \in Nat /\ MaxGap \in Nat
    BY StartupAssumption DEF TypeInv, TypeOK
  <2>. QED  BY <1>1, <1>2, <1>3, <2>1, <2>2, <2>3 DEF Counted
<1>5. CASE now # 0 /\ now = last
  <2>1. last = count \/ (busy /\ last = count + 1)
    BY <1>5, AgreementIsReal
  <2>2. busy \/ ~Complete => Registering
    BY <1>5, <2>1, StartupAssumption DEF Complete, Registering, TypeInv, TypeOK
  <2>3. count \in Nat /\ stable \in Nat /\ MaxGap \in Nat
    BY StartupAssumption DEF TypeInv, TypeOK
  <2>4. /\ last' = last /\ stable' = stable + 1 /\ (Complete' <=> Complete)
        /\ UNCHANGED <<count, busy>>
    BY <1>1, <1>2, <1>5
  <2>5. ~Complete => quiet' = quiet + 1
    BY <1>3, <2>2
  <2>6. last = count /\ ~Complete => stable' <= MaxGap + quiet'
    BY <1>3, <1>5, <2>3, <2>4, <2>5 DEF Counted
  <2>7. last = count + 1 => stable' <= quiet'
    BY <1>3, <1>5, <2>1, <2>2, <2>3, <2>4 DEF Counted
  <2>. QED  BY <1>5, <2>1, <2>3, <2>4, <2>6, <2>7 DEF Counted
<1>. QED  BY <1>4, <1>5

(* The verdict of the settle loop: only a finished registration lasts long
   enough for StableChecks further samples to agree. *)
LEMMA VerdictSound ==
    GapsFit /\ TypeInv /\ Counted /\ stable >= StableChecks => Complete
  BY StartupAssumption DEF GapsFit, TypeInv, TypeOK, Counted, Complete

LEMMA WalkInductive == GapsFit /\ TypeInv /\ WalkInv /\ [Next]_vars => WalkInv'
<1>. SUFFICES ASSUME GapsFit, TypeInv, WalkInv, [Next]_vars PROVE WalkInv'
  OBVIOUS
<1>1. CASE Runtime
  <2>1. UNCHANGED <<pc, last, stable, attached>>
    BY <1>1 DEF Runtime, LoadLibrary, CreateDomain, RegisterBegin, RegisterEnd, thread
  <2>. QED
    BY <1>1, <2>1, RuntimeCounted, RuntimeComplete DEF WalkInv, Walking
<1>. USE DEF WalkInv, Walking
<1>2. CASE FindLibrary
  BY <1>2 DEF FindLibrary, Await, BeforeSettle, Return
<1>3. CASE Resolve
  BY <1>3 DEF Resolve, Await, BeforeSettle, Return
<1>4. CASE GetDomain
  <2>1. CASE pc' = "settle"
    <3>1. last' = 0 /\ stable' = 0 /\ UNCHANGED runtime
      BY <1>4, <2>1 DEF GetDomain, Await, BeforeSettle, Return
    <3>. QED
      BY <1>4, <2>1, <3>1
         DEF Counted, Complete, BeforeSettle, TypeInv, TypeOK, runtime
  <2>2. CASE pc' # "settle"
    BY <1>4, <2>2 DEF GetDomain, Await, BeforeSettle, Return
  <2>. QED  BY <2>1, <2>2
<1>5. CASE Settle
  BY <1>5, SettleCounted DEF Settle, BeforeSettle
<1>6. CASE Settled
  BY <1>6, VerdictSound DEF Settled, BeforeSettle, Complete, runtime
<1>7. CASE NeverSettled
  BY <1>7 DEF NeverSettled, Return, BeforeSettle
<1>8. CASE Sleep
  BY <1>8 DEF Sleep, Tick, BeforeSettle, Complete, runtime
<1>9. CASE Attach
  BY <1>9 DEF Attach, Return, BeforeSettle, Complete, runtime
<1>10. CASE FindImage
  <2>1. pc' \in {"image", "install", "exit"} /\ (pc' # "exit" => UNCHANGED attached)
    BY <1>10 DEF FindImage, Return
  <2>2. pc' # "exit" => UNCHANGED <<count, busy>>
    BY <1>10 DEF FindImage, Return, Tick, runtime
  <2>3. Complete /\ attached
    BY <1>10 DEF FindImage
  <2>4. CASE pc' = "exit"
    BY <2>4 DEF BeforeSettle
  <2>5. CASE pc' # "exit"
    <3>1. Complete'
      BY <2>2, <2>3, <2>5 DEF Complete
    <3>2. attached'
      BY <2>1, <2>3, <2>5
    <3>. QED  BY <2>1, <2>5, <3>1, <3>2 DEF BeforeSettle
  <2>. QED  BY <2>4, <2>5
<1>11. CASE InstallHooks
  BY <1>11 DEF InstallHooks, Return, BeforeSettle
<1>12. CASE UNCHANGED vars
  BY <1>12 DEF vars, runtime, thread, Counted, Complete
<1>. QED
  BY <1>1, <1>2, <1>3, <1>4, <1>5, <1>6, <1>7, <1>8, <1>9, <1>10, <1>11, <1>12
     DEF Next, InitThread

LEMMA AlwaysWalked == ASSUME GapsFit PROVE Spec => []WalkInv
<1>1. Init => WalkInv
  BY DEF Init, WalkInv, Walking, BeforeSettle
<1>2. TypeInv /\ WalkInv /\ [Next]_vars => WalkInv'
  BY WalkInductive, GapsFit
<1>. QED  BY <1>1, <1>2, AlwaysTyped, PTL DEF Spec

(* When StableChecks exceeds two gaps, the init thread never walks the vector
   of assemblies while the runtime may reallocate it, and never unattached. *)
THEOREM WalkIsSafe == ASSUME GapsFit PROVE Spec => []WalkSafe
<1>1. WalkInv => WalkSafe
  BY DEF WalkInv, WalkSafe, Walking
<1>. QED  BY <1>1, AlwaysWalked, PTL

-----------------------------------------------------------------------------
(* The time-out of the settle loop.                                        *)

(* Once registration is complete every sample adds to `stable`. *)
TimeoutInv ==
    /\ pc # "exit" => result = "none"
    /\ pc = "settle" /\ Complete =>
          i <= doneAt \/ (last = Total /\ stable + 1 >= i - doneAt)
    /\ NoFalseTimeout

LEMMA TimeoutInductive == TypeInv /\ TimeoutInv /\ [Next]_vars => TimeoutInv'
<1>. SUFFICES ASSUME TypeInv, TimeoutInv, [Next]_vars PROVE TimeoutInv'
  OBVIOUS
<1>. USE DEF TimeoutInv, NoFalseTimeout
<1>1. CASE LoadLibrary \/ CreateDomain \/ RegisterBegin
  BY <1>1 DEF LoadLibrary, CreateDomain, RegisterBegin, thread, Complete
<1>2. CASE RegisterEnd
  <2>1. UNCHANGED thread
    BY <1>2 DEF RegisterEnd
  <2>2. /\ pc = "settle" => doneAt' = i
        /\ pc = "exit" => doneAt' = WaitSteps
    BY <1>2 DEF RegisterEnd, BeforeSettle
  <2>. QED
    BY <2>1, <2>2, StartupAssumption DEF thread, TypeInv, TypeOK
<1>3. CASE FindLibrary \/ Resolve
  BY <1>3 DEF FindLibrary, Resolve, Await, Return, Tick, Complete
<1>4. CASE GetDomain
  BY <1>4 DEF GetDomain, Await, Return, Tick, Complete, runtime, TypeInv, TypeOK
<1>5. CASE Settle
  <2>1. /\ pc' = "settle" /\ UNCHANGED <<pc, result, doneAt>>
        /\ i' = i + 1 /\ (Complete' <=> Complete)
    BY <1>5 DEF Settle, Tick, Complete
  <2>2. ASSUME Complete
        PROVE  i' <= doneAt' \/ (last' = Total /\ stable' + 1 >= i' - doneAt')
    <3>1. /\ last' = Total
          /\ stable' = IF Total # 0 /\ Total = last THEN stable + 1 ELSE 0
      <4>1. AssemblyCount = {Total}
        BY <2>2, StartupAssumption DEF AssemblyCount, Lengths, Complete
      <4>. QED  BY <1>5, <4>1 DEF Settle
    <3>2. i <= doneAt \/ (last = Total /\ stable + 1 >= i - doneAt)
      BY <1>5, <2>2 DEF Settle
    <3>3. Total \in Nat \ {0} /\ i \in Nat /\ doneAt \in Nat /\ stable \in Nat
      BY StartupAssumption DEF TypeInv, TypeOK
    <3>. QED  BY <2>1, <3>1, <3>2, <3>3
  <2>. QED  BY <2>1, <2>2
<1>6. CASE NeverSettled
  BY <1>6, StartupAssumption DEF NeverSettled, Return, Complete, runtime, TypeInv, TypeOK
<1>7. CASE Settled \/ Sleep
  BY <1>7 DEF Settled, Sleep
<1>8. CASE Attach \/ FindImage \/ InstallHooks
  BY <1>8 DEF Attach, FindImage, InstallHooks, Return
<1>9. CASE UNCHANGED vars
  BY <1>9 DEF vars, runtime, thread, Complete
<1>. QED
  BY <1>1, <1>2, <1>3, <1>4, <1>5, <1>6, <1>7, <1>8, <1>9 DEF Next, Runtime, InitThread

LEMMA AlwaysTimed == Spec => []TimeoutInv
<1>1. Init => TimeoutInv
  BY StartupAssumption DEF Init, TimeoutInv, NoFalseTimeout, Complete
<1>. QED  BY <1>1, TimeoutInductive, AlwaysTyped, PTL DEF Spec

(* "never settled" is reported only when registration really ended too late
   for the samples that were left. *)
THEOREM TimeoutIsHonest == Spec => []NoFalseTimeout
<1>1. TimeoutInv => NoFalseTimeout
  BY DEF TimeoutInv
<1>. QED  BY <1>1, AlwaysTimed, PTL

-----------------------------------------------------------------------------
(* Attaching and detaching.                                                *)

AttachInv ==
    attached => \/ pc \in {"image", "install"}
                \/ pc = "exit" /\ ~game.detaches

LEMMA AttachInductive == TypeInv /\ AttachInv /\ [Next]_vars => AttachInv'
<1>. SUFFICES ASSUME TypeInv, AttachInv, [Next]_vars PROVE AttachInv'
  OBVIOUS
<1>. USE DEF AttachInv
<1>1. CASE Runtime
  BY <1>1 DEF Runtime, LoadLibrary, CreateDomain, RegisterBegin, RegisterEnd, thread
<1>2. CASE FindLibrary \/ Resolve \/ GetDomain
  BY <1>2 DEF FindLibrary, Resolve, GetDomain, Await, Return
<1>3. CASE Settle \/ Settled \/ NeverSettled \/ Sleep
  BY <1>3 DEF Settle, Settled, NeverSettled, Sleep, Return
<1>4. CASE Attach
  BY <1>4 DEF Attach, Return
<1>5. CASE FindImage \/ InstallHooks
  BY <1>5 DEF FindImage, InstallHooks, Return, Detach
<1>6. CASE UNCHANGED vars
  BY <1>6 DEF vars, thread
<1>. QED
  BY <1>1, <1>2, <1>3, <1>4, <1>5, <1>6 DEF Next, InitThread

(* Whichever way the thread ends, it is detached if it can be. *)
THEOREM AttachIsReleased == Spec => []NoLeakedAttach
<1>1. Init => AttachInv
  BY DEF Init, AttachInv
<1>2. AttachInv => NoLeakedAttach
  BY DEF AttachInv, NoLeakedAttach
<1>. QED  BY <1>1, <1>2, AttachInductive, AlwaysTyped, PTL DEF Spec

-----------------------------------------------------------------------------
(* The end of the thread.                                                  *)

(* Every loop counts within its own limit. *)
LoopInv ==
    /\ pc \in {"lib", "resolve", "domain", "settle", "image"} => i <= WaitSteps
    /\ pc = "headroom" => i <= Headroom
    /\ pc = "attach" => i = 0

LEMMA LoopInductive == TypeInv /\ LoopInv /\ [Next]_vars => LoopInv'
<1>. SUFFICES ASSUME TypeInv, LoopInv, [Next]_vars PROVE LoopInv'
  OBVIOUS
<1>. USE StartupAssumption DEF LoopInv, TypeInv, TypeOK
<1>1. CASE Runtime
  BY <1>1 DEF Runtime, LoadLibrary, CreateDomain, RegisterBegin, RegisterEnd, thread
<1>2. CASE FindLibrary \/ Resolve \/ GetDomain
  BY <1>2 DEF FindLibrary, Resolve, GetDomain, Await, Return
<1>3. CASE Settle \/ Settled \/ NeverSettled
  BY <1>3 DEF Settle, Settled, NeverSettled, Return
<1>4. CASE Sleep
  BY <1>4 DEF Sleep
<1>5. CASE Attach \/ FindImage \/ InstallHooks
  BY <1>5 DEF Attach, FindImage, InstallHooks, Return
<1>6. CASE UNCHANGED vars
  BY <1>6 DEF vars, thread
<1>. QED
  BY <1>1, <1>2, <1>3, <1>4, <1>5, <1>6 DEF Next, InitThread

LEMMA AlwaysInLoop == Spec => []LoopInv
<1>1. Init => LoopInv
  BY StartupAssumption DEF Init, LoopInv
<1>. QED  BY <1>1, LoopInductive, AlwaysTyped, PTL DEF Spec

LEMMA StepsNatural == TypeInv /\ LoopInv => StepsLeft \in Nat
BY StartupAssumption DEF TypeInv, TypeOK, LoopInv, StepsLeft

LEMMA StepsNaturalNext == (TypeInv /\ LoopInv)' => (StepsLeft \in Nat)'
BY StepsNatural, PTL

(* A step of the thread, from one iteration to the next or between phases. *)
LEMMA ThreadRunsOut ==
    ASSUME TypeInv, LoopInv, InitThread PROVE StepsLeft' < StepsLeft
<1>. USE StartupAssumption DEF LoopInv, TypeInv, TypeOK, StepsLeft
<1>1. CASE FindLibrary
  BY <1>1 DEF FindLibrary, Await, Return
<1>2. CASE Resolve
  BY <1>2 DEF Resolve, Await, Return
<1>3. CASE GetDomain
  BY <1>3 DEF GetDomain, Await, Return
<1>4. CASE Settle
  BY <1>4 DEF Settle
<1>5. CASE Settled \/ NeverSettled
  BY <1>5 DEF Settled, NeverSettled, Return
<1>6. CASE Sleep
  BY <1>6 DEF Sleep
<1>7. CASE Attach
  BY <1>7 DEF Attach, Return
<1>8. CASE FindImage
  BY <1>8 DEF FindImage, Return
<1>9. CASE InstallHooks
  BY <1>9 DEF InstallHooks, Return
<1>. QED
  BY <1>1, <1>2, <1>3, <1>4, <1>5, <1>6, <1>7, <1>8, <1>9 DEF InitThread

(* Whatever the runtime does, the init thread has at most
   5 * WaitSteps + Headroom + 8 steps, and each one it takes is one fewer. *)
THEOREM StepsDoRunOut == Spec => StepsRunOut
<1>1. ASSUME TypeInv, LoopInv, TypeInv', LoopInv', [Next]_vars
      PROVE  [StepsLeft' \in 0..StepsLeft /\ (InitThread => StepsLeft' # StepsLeft)]_vars
  <2>1. StepsLeft \in Nat /\ StepsLeft' \in Nat
    BY <1>1, StepsNatural, StepsNaturalNext
  <2>2. CASE InitThread
    <3>1. StepsLeft' < StepsLeft
      BY <1>1, <2>2, ThreadRunsOut
    <3>. QED  BY <2>1, <3>1
  <2>3. CASE Runtime /\ ~InitThread
    <3>1. UNCHANGED thread
      BY <2>3 DEF Runtime, LoadLibrary, CreateDomain, RegisterBegin, RegisterEnd
    <3>2. StepsLeft' = StepsLeft
      BY <3>1 DEF thread, StepsLeft
    <3>. QED  BY <2>1, <2>3, <3>2
  <2>. QED  BY <1>1, <2>2, <2>3 DEF Next
<1>. QED  BY <1>1, AlwaysTyped, AlwaysInLoop, PTL DEF Spec, StepsRunOut

-----------------------------------------------------------------------------
(* The image of the game's own code.                                       *)

AbsenceInv ==
    /\ pc = "image" /\ i > 0 => game.csharp = 0
    /\ pc # "exit" => result = "none"
    /\ NoFalseAbsence

LEMMA AbsenceInductive ==
    TypeInv /\ WalkInv /\ LoopInv /\ AbsenceInv /\ [Next]_vars => AbsenceInv'
<1>. SUFFICES ASSUME TypeInv, WalkInv, LoopInv, AbsenceInv, [Next]_vars PROVE AbsenceInv'
  OBVIOUS
<1>. USE DEF AbsenceInv, NoFalseAbsence
<1>1. CASE Runtime
  BY <1>1 DEF Runtime, LoadLibrary, CreateDomain, RegisterBegin, RegisterEnd, thread
<1>2. CASE FindLibrary \/ Resolve \/ GetDomain
  BY <1>2 DEF FindLibrary, Resolve, GetDomain, Await, Return
<1>3. CASE Settle \/ Settled \/ NeverSettled \/ Sleep
  BY <1>3 DEF Settle, Settled, NeverSettled, Sleep, Return
<1>4. CASE Attach
  BY <1>4 DEF Attach, Return, LoopInv
<1>5. CASE FindImage
  <2>1. ~ImageFound => game.csharp = 0
    BY <1>5 DEF FindImage, WalkInv, Complete, ImageFound, TypeInv, TypeOK, Games
  <2>2. WaitSteps > 0
    BY StartupAssumption
  <2>. QED  BY <1>5, <2>1, <2>2 DEF FindImage, Return
<1>6. CASE InstallHooks
  BY <1>6 DEF InstallHooks, Return
<1>7. CASE UNCHANGED vars
  BY <1>7 DEF vars, thread
<1>. QED
  BY <1>1, <1>2, <1>3, <1>4, <1>5, <1>6, <1>7 DEF Next, InitThread

(* When StableChecks exceeds two gaps, a game that has an Assembly-CSharp is never
   reported to lack it, wherever in the vector it stands. *)
THEOREM AbsenceIsHonest == ASSUME GapsFit PROVE Spec => []NoFalseAbsence
<1>1. Init => AbsenceInv
  BY DEF Init, AbsenceInv, NoFalseAbsence
<1>2. AbsenceInv => NoFalseAbsence
  BY DEF AbsenceInv
<1>. QED
  BY <1>1, <1>2, AbsenceInductive, AlwaysTyped, AlwaysWalked, AlwaysInLoop, PTL DEF Spec

-----------------------------------------------------------------------------
(* A start in time.                                                        *)

(* Registration is complete when the settle loop begins, and the game has what
   the thread asks for. *)
InTime ==
    /\ pc = "settle" /\ i = 0 /\ Complete /\ doneAt = 0
    /\ game.attaches /\ game.csharp # 0

OnItsWay ==
    /\ pc \in {"settle", "headroom", "attach", "image", "install", "exit"}
    /\ pc = "exit" => result = "finished"
    /\ pc = "image" => i = 0
    /\ Complete /\ doneAt = 0
    /\ game.attaches /\ game.csharp # 0

LEMMA StaysOnItsWay ==
    ASSUME StableChecks < WaitSteps, TypeInv, TimeoutInv, LoopInv, OnItsWay, [Next]_vars,
           TimeoutInv'
    PROVE  OnItsWay'
<1>. USE DEF OnItsWay, Complete
<1>1. CASE Runtime
  BY <1>1 DEF Runtime, LoadLibrary, CreateDomain, RegisterBegin, RegisterEnd, thread,
     TypeInv, TypeOK
<1>2. CASE FindLibrary \/ Resolve \/ GetDomain
  BY <1>2 DEF FindLibrary, Resolve, GetDomain, Await
<1>3. CASE Settle \/ Settled
  BY <1>3 DEF Settle, Settled, Tick, runtime
<1>4. CASE NeverSettled
  <2>1. result' = "unsettled" /\ Complete' /\ doneAt' = 0
    BY <1>4 DEF NeverSettled, Return, runtime
  <2>2. StableChecks >= WaitSteps
    BY <2>1, StartupAssumption DEF TimeoutInv, NoFalseTimeout
  <2>. QED  BY <2>2, StartupAssumption
<1>5. CASE Sleep
  BY <1>5 DEF Sleep, Tick, runtime
<1>6. CASE Attach
  BY <1>6 DEF Attach, runtime, LoopInv
<1>7. CASE FindImage
  <2>1. ImageFound /\ i < WaitSteps
    BY <1>7, StartupAssumption DEF FindImage, ImageFound, TypeInv, TypeOK, Games
  <2>. QED  BY <1>7, <2>1 DEF FindImage, runtime
<1>8. CASE InstallHooks
  BY <1>8 DEF InstallHooks, Return, runtime
<1>9. CASE UNCHANGED vars
  BY <1>9 DEF vars, runtime, thread
<1>. QED
  BY <1>1, <1>2, <1>3, <1>4, <1>5, <1>6, <1>7, <1>8, <1>9 DEF Next, InitThread

(* What HooksInstalled rests on besides the thread being scheduled: from a start
   in time the thread has no end but that with its hooks. *)
THEOREM InTimeEndsWell ==
    ASSUME StableChecks < WaitSteps
    PROVE  Spec => [](InTime => [](pc = "exit" => result = "finished"))
<1>1. InTime => OnItsWay
  BY DEF InTime, OnItsWay
<1>2. OnItsWay => (pc = "exit" => result = "finished")
  BY DEF OnItsWay
<1>3. TypeInv /\ TimeoutInv /\ LoopInv /\ OnItsWay /\ [Next]_vars /\ TimeoutInv'
          => OnItsWay'
  BY StaysOnItsWay
<1>. QED  BY <1>1, <1>2, <1>3, AlwaysTyped, AlwaysTimed, AlwaysInLoop, PTL DEF Spec
=============================================================================
