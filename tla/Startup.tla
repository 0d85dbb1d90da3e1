-------------------------------- MODULE Startup --------------------------------
(***************************************************************************)
(* main.cpp: the init thread, against a runtime that is still starting.    *)
(*                                                                         *)
(* il2cpp_init registers assemblies one by one on the game's main thread,  *)
(* growing the very vector that find_image and find_class walk.  The init  *)
(* thread has no lock on it.  It samples the length until StableChecks     *)
(* consecutive samples agree, sleeps for some headroom, attaches itself to *)
(* the runtime and only then walks the vector.                             *)
(*                                                                         *)
(* Time advances by one poll interval (kWaitStepUs) at each sleep of the   *)
(* init thread; the runtime moves in between.  MaxGap is what the code     *)
(* takes for granted: once registration has begun, an assembly is finished *)
(* at least every MaxGap intervals until the last one is in.               *)
(***************************************************************************)
EXTENDS Naturals

CONSTANTS
    WaitSteps,      \* kWaitSteps: iterations of every polling loop
    StableChecks,   \* kStableChecks
    Headroom,       \* kSettleUs, in poll intervals
    Total,          \* assemblies of the game
    MaxCount,       \* 8192: a longer list is taken for a torn length
    MaxGap          \* longest time between two finished registrations

ASSUME StartupAssumption ==
    /\ WaitSteps \in Nat \ {0}
    /\ StableChecks \in Nat \ {0}
    /\ Headroom \in Nat
    /\ Total \in Nat \ {0}
    /\ MaxCount \in Nat /\ Total <= MaxCount
    /\ MaxGap \in Nat \ {0}

VARIABLES
    game,          \* fixed: [exports, attaches, detaches, csharp]
    lib, domain,   \* is libil2cpp.so loaded, is il2cpp_domain_get() non-null?
    count, busy,   \* finished registrations; is one going on?
    quiet,         \* intervals since the last one finished, up to MaxGap
    doneAt,        \* settle iterations made before registration was complete
    pc, i,         \* the init thread: phase and loop counter
    last, stable,  \* the settle loop's variables
    attached,      \* is the init thread attached to the runtime?
    result         \* how init_thread returned

runtime == <<lib, domain, count, busy, quiet, doneAt>>
thread == <<pc, i, last, stable, attached, result>>
vars == <<game, runtime, thread>>

(* exports: every required il2cpp_* symbol exists; attaches: thread_attach
   succeeds; detaches: the optional thread_detach was bound; csharp: the
   index of Assembly-CSharp, 0 when the game has none. *)
Games == [exports : BOOLEAN, attaches : BOOLEAN, detaches : BOOLEAN, csharp : 0..Total]

Init ==
    /\ game \in Games
    /\ lib = FALSE /\ domain = FALSE
    /\ count = 0 /\ busy = FALSE /\ quiet = 0 /\ doneAt = 0
    /\ pc = "lib" /\ i = 0
    /\ last = 0 /\ stable = 0
    /\ attached = FALSE /\ result = "none"

-----------------------------------------------------------------------------
(* The runtime, on the main thread.                                        *)

Complete == count = Total /\ ~busy
Registering == busy \/ (0 < count /\ count < Total)

LoadLibrary ==
    /\ ~lib
    /\ lib' = TRUE
    /\ UNCHANGED <<game, domain, count, busy, quiet, doneAt, thread>>

CreateDomain ==
    /\ lib /\ ~domain
    /\ domain' = TRUE
    /\ UNCHANGED <<game, lib, count, busy, quiet, doneAt, thread>>

RegisterBegin ==
    /\ domain /\ ~busy /\ count < Total
    /\ busy' = TRUE
    /\ quiet' = IF count = 0 THEN 0 ELSE quiet
    /\ UNCHANGED <<game, lib, domain, count, doneAt, thread>>

BeforeSettle == {"lib", "resolve", "domain"}

RegisterEnd ==
    /\ busy
    /\ busy' = FALSE
    /\ count' = count + 1
    /\ quiet' = 0
    /\ doneAt' = IF pc \in BeforeSettle THEN 0
                 ELSE IF pc = "settle" THEN i ELSE WaitSteps
    /\ UNCHANGED <<game, lib, domain, thread>>

Runtime == LoadLibrary \/ CreateDomain \/ RegisterBegin \/ RegisterEnd

-----------------------------------------------------------------------------
(* The init thread.                                                        *)

(* usleep(kWaitStepUs): the runtime keeps its pace. *)
Tick ==
    /\ Registering => quiet < MaxGap
    /\ quiet' = IF quiet < MaxGap THEN quiet + 1 ELSE quiet
    /\ UNCHANGED <<lib, domain, count, busy, doneAt>>

Return(how) ==
    /\ pc' = "exit"
    /\ result' = how
    /\ UNCHANGED <<last, stable>>

(* Mutant: the loop has no limit. *)
AwaitForever(phase, condition, next, failure) ==
    /\ pc = phase
    /\ \/ /\ condition
          /\ pc' = next /\ i' = 0
          /\ UNCHANGED <<runtime, last, stable, attached, result>>
       \/ /\ ~condition
          /\ Tick
          /\ UNCHANGED thread
    /\ UNCHANGED game

(* One of the three loops that wait for a condition: go on to `next` once it
   holds, return after WaitSteps failures, without a look after the last
   sleep. *)
Await(phase, condition, next, failure) ==
    /\ pc = phase
    /\ \/ /\ i < WaitSteps /\ condition
          /\ pc' = next /\ i' = 0
          /\ UNCHANGED <<runtime, last, stable, attached, result>>
       \/ /\ i < WaitSteps /\ ~condition
          /\ i' = i + 1
          /\ Tick
          /\ UNCHANGED <<pc, last, stable, attached, result>>
       \/ /\ i = WaitSteps
          /\ Return(failure)
          /\ UNCHANGED <<runtime, i, attached>>
    /\ UNCHANGED game

FindLibrary == Await("lib", lib, "resolve", "noLibrary")
Resolve == Await("resolve", game.exports, "domain", "noExports")
GetDomain == Await("domain", domain, "settle", "noDomain")

(* What the runtime answers: in the middle of a registration the old length,
   the new one, or a torn one, made of the vector's old and new bounds and so
   any number at all.  A tear lasts for a few stores of the main thread: two
   samples in a row, one poll interval apart, do not show the same one. *)
Lengths ==
    IF busy THEN {count, count + 1} \cup ((0..MaxCount + 1) \ {last}) ELSE {count}

(* Mutant: a torn length is taken at its word. *)
RawCount == Lengths

(* assembly_count(): 0 for a length that no game has; other torn ones pass. *)
AssemblyCount == {IF n > MaxCount THEN 0 ELSE n : n \in Lengths}

(* Mutants: an empty list counts as agreement; the sample is not kept. *)
SettleEmpty ==
    /\ pc = "settle"
    /\ i < WaitSteps /\ stable < StableChecks
    /\ \E now \in AssemblyCount :
          /\ stable' = IF now = last THEN stable + 1 ELSE 0
          /\ last' = now
    /\ i' = i + 1
    /\ Tick
    /\ UNCHANGED <<game, pc, attached, result>>

SettleForgetful ==
    /\ pc = "settle"
    /\ i < WaitSteps /\ stable < StableChecks
    /\ \E now \in AssemblyCount :
          stable' = IF now # 0 /\ now = last THEN stable + 1 ELSE 0
    /\ i' = i + 1
    /\ Tick
    /\ UNCHANGED <<game, pc, last, attached, result>>

Settle ==
    /\ pc = "settle"
    /\ i < WaitSteps /\ stable < StableChecks
    /\ \E now \in AssemblyCount :
          /\ stable' = IF now # 0 /\ now = last THEN stable + 1 ELSE 0
          /\ last' = now
    /\ i' = i + 1
    /\ Tick
    /\ UNCHANGED <<game, pc, attached, result>>

Settled ==
    /\ pc = "settle"
    /\ stable >= StableChecks
    /\ pc' = "headroom" /\ i' = 0
    /\ UNCHANGED <<game, runtime, last, stable, attached, result>>

NeverSettled ==
    /\ pc = "settle"
    /\ i = WaitSteps /\ stable < StableChecks
    /\ Return("unsettled")
    /\ UNCHANGED <<game, runtime, i, attached>>

(* usleep(kSettleUs), with no second look at the count. *)
Sleep ==
    /\ pc = "headroom"
    /\ \/ i < Headroom /\ i' = i + 1 /\ Tick /\ UNCHANGED pc
       \/ i = Headroom /\ i' = 0 /\ pc' = "attach" /\ UNCHANGED runtime
    /\ UNCHANGED <<game, last, stable, attached, result>>

Attach ==
    /\ pc = "attach"
    /\ \/ /\ game.attaches
          /\ attached' = TRUE /\ pc' = "image"
          /\ UNCHANGED <<last, stable, result>>
       \/ /\ ~game.attaches
          /\ Return("noAttach")
          /\ UNCHANGED attached
    /\ UNCHANGED <<game, runtime, i>>

(* Mutant: an early return forgets to detach. *)
StayAttached == UNCHANGED attached

Detach == attached' = (attached /\ ~game.detaches)

(* Mutant: the walk stops one assembly short. *)
ImageBeforeLast == game.csharp \in 1..count - 1

ImageFound == game.csharp \in 1..count

(* find_image walks the vector and dereferences its elements. *)
FindImage ==
    /\ pc = "image"
    /\ \/ /\ i < WaitSteps /\ ImageFound
          /\ pc' = "install"
          /\ UNCHANGED <<runtime, i, last, stable, attached, result>>
       \/ /\ i < WaitSteps /\ ~ImageFound
          /\ i' = i + 1
          /\ Tick
          /\ UNCHANGED <<pc, last, stable, attached, result>>
       \/ /\ i = WaitSteps
          /\ Return("noImage")
          /\ Detach
          /\ UNCHANGED <<runtime, i>>
    /\ UNCHANGED game

(* Both install_hooks(), which look every class up in the same vector. *)
InstallHooks ==
    /\ pc = "install"
    /\ Return("finished")
    /\ Detach
    /\ UNCHANGED <<game, runtime, i>>

InitThread ==
    \/ FindLibrary
    \/ Resolve
    \/ GetDomain
    \/ Settle
    \/ Settled
    \/ NeverSettled
    \/ Sleep
    \/ Attach
    \/ FindImage
    \/ InstallHooks

Next == Runtime \/ InitThread

Spec == Init /\ [][Next]_vars

-----------------------------------------------------------------------------
(* Properties.                                                             *)

(* Every variable keeps its type. *)
TypeOK ==
    /\ game \in Games
    /\ lib \in BOOLEAN /\ domain \in BOOLEAN /\ busy \in BOOLEAN
    /\ count \in 0..Total
    /\ quiet \in 0..MaxGap
    /\ doneAt \in 0..WaitSteps
    /\ pc \in {"lib", "resolve", "domain", "settle", "headroom", "attach",
               "image", "install", "exit"}
    /\ i \in Nat
    /\ last \in 0..MaxCount
    /\ stable \in Nat
    /\ attached \in BOOLEAN
    /\ result \in {"none", "noLibrary", "noExports", "noDomain", "unsettled",
                   "noAttach", "noImage", "finished"}

Walking == pc \in {"image", "install"}

(* The vector of assemblies is walked only when registration is over
   (main.cpp:21-26: walking it earlier reads freed memory), and only by an
   attached thread (main.cpp:93). *)
WalkSafe == Walking => Complete /\ attached

(* The thread gives up on the settle loop only if registration ended too
   late for StableChecks equal samples to fit in WaitSteps iterations. *)
NoFalseTimeout ==
    result = "unsettled" /\ Complete => doneAt + StableChecks >= WaitSteps

(* "Assembly-CSharp.dll never appeared" is said only of a game that has none:
   the walk comes after the last assembly, so a first look is enough
   (main.cpp:108). *)
NoFalseAbsence == result = "noImage" => game.csharp = 0

(* A thread that ends leaves the runtime, whichever return it takes after
   attaching. *)
NoLeakedAttach == pc = "exit" /\ game.detaches => ~attached

(* The init thread ends: whether the library, the domain and the assemblies
   come or not, with a runtime that keeps its pace once it registers them. *)
Terminates == <>(pc = "exit")

(* A game that starts in time gets its hooks: with the domain there when the
   settle loop begins and registration complete early enough, only a failing
   attach or a missing Assembly-CSharp keeps the thread from installing. *)
HooksInstalled ==
    [](pc = "settle" /\ Complete /\ doneAt = 0 /\ i = 0
         /\ game.attaches /\ game.csharp # 0 => <>(result = "finished"))

(* The steps the init thread has left at most, its sleeps included. *)
StepsLeft ==
    CASE pc = "lib" -> 5 * WaitSteps + Headroom + 8 - i
      [] pc = "resolve" -> 4 * WaitSteps + Headroom + 7 - i
      [] pc = "domain" -> 3 * WaitSteps + Headroom + 6 - i
      [] pc = "settle" -> 2 * WaitSteps + Headroom + 5 - i
      [] pc = "headroom" -> WaitSteps + Headroom + 4 - i
      [] pc = "attach" -> WaitSteps + 3
      [] pc = "image" -> WaitSteps + 2 - i
      [] pc = "install" -> 1
      [] pc = "exit" -> 0

(* The thread cannot be kept: each of its steps leaves it fewer, over all loops
   together, and nothing the runtime does gives one back (main.cpp:45-52 and
   the loops that follow it). *)
StepsRunOut ==
    [][StepsLeft' \in 0..StepsLeft /\ (InitThread => StepsLeft' # StepsLeft)]_vars
=============================================================================
