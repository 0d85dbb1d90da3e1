---------------------------- MODULE PhaseZeroProofs ----------------------------
(***************************************************************************)
(* Theorems about PhaseZero: it refines Startup, whose theorems carry      *)
(* over; the symbols the init thread binds are those the library defines,  *)
(* for every object and every symbol table the assumptions below allow;    *)
(* and what the thread reports is what it has hooked, for any entries and  *)
(* any of them refused.                                                    *)
(***************************************************************************)
EXTENDS PhaseZero, StartupProofs, SequenceTheorems, WellFoundedInduction

-----------------------------------------------------------------------------
(* Assumptions about the objects of a process.                             *)

(* A symbol table is indexed by naturals and gives natural addresses; of the
   three tables, those present lie below the load base unless the linker wrote
   absolute addresses: only then does fix_addr tell the two apart. *)
ObjectFits(object) ==
    /\ object.base \in Nat
    /\ object.dynamic \in BOOLEAN /\ object.absolute \in BOOLEAN
    /\ DOMAIN object.symbols \subseteq Nat
    /\ \A n \in DOMAIN object.symbols : object.symbols[n].value \in Nat
    /\ DOMAIN object.tables \subseteq DynamicTables
    /\ \A table \in DOMAIN object.tables :
          /\ object.tables[table] \in Nat
          /\ object.absolute \/ object.tables[table] < object.base

(* Every image is a libil2cpp.so, and no object before it has that name. *)
ObjectsFit ==
    /\ None \notin Nat
    /\ \A img \in Images :
          img # None /\ ObjectFits(img) /\ name_matches(img.path, kSo)
    /\ Preloaded \in Seq({Preloaded[n] : n \in DOMAIN Preloaded})
    /\ \A n \in 1..Len(Preloaded) : ~name_matches(Preloaded[n].path, kSo)

-----------------------------------------------------------------------------
(* The lookup.                                                             *)

(* The least of some natural numbers is one of them. *)
LEMMA MinIn == ASSUME NEW S, S \subseteq Nat, S # {} PROVE Min(S) \in S
<1>1. PICK x \in S : \A y \in S : ~ (<<y, x>> \in OpToRel(<, Nat))
  BY NatLessThanWellFounded, WFMin
<1>2. \A y \in S : ~(y < x)
  <2>1. x \in Nat /\ \A y \in S : y \in Nat
    OBVIOUS
  <2>. QED  BY <1>1, <2>1, Zenon DEF OpToRel
<1>3. \A y \in S : x <= y
  BY <1>2
<1>. QED  BY <1>3 DEF Min

LEMMA TablesFound ==
    ASSUME NEW object, ObjectFits(object)
    PROVE  (\A table \in DynamicTables : TableFound(object, table))
               <=> Searchable(object)
<1>1. ASSUME NEW table \in DOMAIN object.tables
      PROVE  fix_addr(Written(object, object.tables[table]), object.base)
                 = object.base + object.tables[table]
  BY <1>1 DEF fix_addr, Written, ObjectFits
<1>2. \A table \in DynamicTables :
          TableFound(object, table) <=> (object.dynamic /\ table \in DOMAIN object.tables)
  BY <1>1, Zenon DEF TableFound
<1>3. DynamicTables # {}
  BY DEF DynamicTables
<1>. QED  BY <1>2, <1>3, Zenon DEF Searchable, ObjectFits

LEMMA SumNatural == \A a, b \in Nat : a + b \in Nat
OBVIOUS

LEMMA LookupRight ==
    ASSUME NEW object, NEW name, ObjectFits(object), None \notin Nat, name # ""
    PROVE  /\ lookup(object, name) \in {None} \cup Definitions(object, name)
           /\ lookup(object, name) # None
                  <=> Searchable(object) /\ Definitions(object, name) # {}
<1>. DEFINE hits == {n \in DOMAIN object.symbols : Matches(object.symbols[n], name)}
<1>1. ASSUME NEW n \in hits
      PROVE  object.base + object.symbols[n].value \in Definitions(object, name)
  BY <1>1 DEF Matches, Definitions
<1>2. ASSUME NEW n \in hits
      PROVE  object.base + object.symbols[n].value # None
  <2>1. n \in DOMAIN object.symbols
    OBVIOUS
  <2>2. object.base \in Nat /\ object.symbols[n].value \in Nat
    BY <2>1, Zenon DEF ObjectFits
  <2>. QED  BY <2>2, SumNatural, Zenon
<1>3. ASSUME hits # {} PROVE Min(hits) \in hits
  BY <1>3, MinIn DEF ObjectFits
<1>4. Definitions(object, name) # {} => hits # {}
  BY DEF Definitions, Matches
<1>5. (\E table \in DynamicTables : ~TableFound(object, table)) <=> ~Searchable(object)
  BY TablesFound, Zenon
<1>6. lookup(object, name) =
        IF ~Searchable(object) \/ hits = {} THEN None
        ELSE object.base + object.symbols[Min(hits)].value
  BY <1>5, Zenon DEF lookup
<1>. HIDE DEF hits
<1>. QED  BY <1>1, <1>2, <1>3, <1>4, <1>6, Zenon

(* The game's library is found among the objects of the process. *)
LEMMA LibraryFound ==
    ASSUME ObjectsFit, NEW img \in Images
    PROVE  find(Objects(img), kSo) = img
<1>. DEFINE objects == Objects(img)
            hits == {n \in DOMAIN objects : name_matches(objects[n].path, kSo)}
<1>1. /\ DOMAIN objects = 1..(Len(Preloaded) + 1)
      /\ objects[Len(Preloaded) + 1] = img
      /\ \A n \in 1..Len(Preloaded) : objects[n] = Preloaded[n]
      /\ Len(Preloaded) \in Nat
  <2>. DEFINE S == {Preloaded[n] : n \in DOMAIN Preloaded} \cup {img}
  <2>1. Preloaded \in Seq(S)
    BY DEF ObjectsFit
  <2>. HIDE DEF S
  <2>2. img \in S
    BY DEF S
  <2>. QED  BY <2>1, <2>2 DEF Objects
<1>2. name_matches(img.path, kSo)
  BY Zenon DEF ObjectsFit
<1>3. \A n \in 1..Len(Preloaded) : ~name_matches(objects[n].path, kSo)
  BY <1>1, Zenon DEF ObjectsFit
<1>4. Len(Preloaded) + 1 \in hits
  <2>1. Len(Preloaded) + 1 \in DOMAIN objects
    BY <1>1
  <2>. QED  BY <1>1, <1>2, <2>1, Zenon
<1>5. \A n \in hits : n = Len(Preloaded) + 1
  BY <1>1, <1>3
<1>6. Min(hits) = Len(Preloaded) + 1
  <2>1. hits \subseteq Nat /\ hits # {}
    BY <1>1, <1>4
  <2>. QED  BY <2>1, <1>5, MinIn
<1>. QED  BY <1>1, <1>4, <1>6, Zenon DEF find

(* What resolve() and thread_detach rely on. *)
LEMMA SymbolRight ==
    ASSUME ObjectsFit, NEW img \in Images, NEW name \in Required \cup {thread_detach}
    PROVE  /\ find_symbol(Objects(img), kSo, name)
                  \in {None} \cup Definitions(img, name)
           /\ find_symbol(Objects(img), kSo, name) # None
                  <=> Searchable(img) /\ Definitions(img, name) # {}
<1>1. find_symbol(Objects(img), kSo, name) = lookup(img, name)
  BY LibraryFound, Zenon DEF find_symbol, ObjectsFit
<1>2. name # ""
  BY DEF Required, domain_get, thread_attach, thread_detach
<1>3. ObjectFits(img) /\ None \notin Nat
  BY Zenon DEF ObjectsFit
<1>. QED  BY <1>1, <1>2, <1>3, LookupRight, Zenon

-----------------------------------------------------------------------------
(* Refinement of Startup.                                                  *)

LEMMA PhaseStarts == PhaseInit => Init
BY DEF PhaseInit

LEMMA PhaseSteps == [PhaseNext]_phaseVars => [Next]_vars
BY DEF PhaseNext, phaseVars, InitStep, RuntimeStep, HookStep, Play, EndCall, Next

LEMMA PhaseIsStartup == PhaseSpec => Spec
BY PhaseStarts, PhaseSteps, PTL DEF PhaseSpec, Spec

(* Variables keep their types in the whole start. *)
THEOREM PhaseTypeCorrect == PhaseSpec => []TypeOK
BY PhaseIsStartup, TypeCorrect, PTL

(* The vector of assemblies is walked only after registration, by an attached
   thread, also when methods are being hooked and the game plays. *)
THEOREM PhaseWalkIsSafe == ASSUME GapsFit PROVE PhaseSpec => []WalkSafe
BY PhaseIsStartup, WalkIsSafe, PTL

(* "never settled" is honest in the whole start. *)
THEOREM PhaseTimeoutIsHonest == PhaseSpec => []NoFalseTimeout
BY PhaseIsStartup, TimeoutIsHonest, PTL

(* The thread leaves the runtime in the whole start. *)
THEOREM PhaseAttachIsReleased == PhaseSpec => []NoLeakedAttach
BY PhaseIsStartup, AttachIsReleased, PTL

(* Assembly-CSharp is reported missing only of a game without it. *)
THEOREM PhaseAbsenceIsHonest == ASSUME GapsFit PROVE PhaseSpec => []NoFalseAbsence
BY PhaseIsStartup, AbsenceIsHonest, PTL

(* The init thread runs out of steps in the whole start: hooking methods and the
   game that already plays give it none back. *)
THEOREM PhaseStepsDoRunOut == PhaseSpec => StepsRunOut
BY PhaseIsStartup, StepsDoRunOut, PTL

-----------------------------------------------------------------------------
(* What was bound.                                                         *)

(* An image that has the exports gives them to the first call of resolve(). *)
FirstTry == pc = "resolve" /\ game.exports => i = 0

LEMMA FirstTryStarts == Init => FirstTry
BY DEF Init, FirstTry

LEMMA FirstTryInductive == TypeInv /\ FirstTry /\ [Next]_vars => FirstTry'
<1>. SUFFICES ASSUME TypeInv, FirstTry, [Next]_vars PROVE FirstTry'
  OBVIOUS
<1>. USE DEF FirstTry
<1>1. CASE Runtime
  BY <1>1 DEF Runtime, LoadLibrary, CreateDomain, RegisterBegin, RegisterEnd, thread
<1>2. CASE FindLibrary \/ GetDomain
  BY <1>2 DEF FindLibrary, GetDomain, Await, Return
<1>3. CASE Resolve
  BY <1>3, StartupAssumption DEF Resolve, Await, Return
<1>4. CASE Settle \/ Settled \/ NeverSettled \/ Sleep
  BY <1>4 DEF Settle, Settled, NeverSettled, Sleep, Return
<1>5. CASE Attach \/ FindImage \/ InstallHooks
  BY <1>5 DEF Attach, FindImage, InstallHooks, Return
<1>6. CASE UNCHANGED vars
  BY <1>6 DEF vars, thread
<1>. QED
  BY <1>1, <1>2, <1>3, <1>4, <1>5, <1>6 DEF Next, InitThread

LEMMA LeavesResolve ==
    ASSUME TypeInv, FirstTry, Next, pc = "resolve", pc' # pc
    PROVE  pc' = "domain" <=> game.exports
<1>1. Resolve
  BY DEF Next, InitThread, Runtime, LoadLibrary, CreateDomain, RegisterBegin,
     RegisterEnd, thread, FindLibrary, Await, GetDomain, Settle, Settled,
     NeverSettled, Sleep, Attach, FindImage, InstallHooks
<1>. QED  BY <1>1, StartupAssumption DEF Resolve, Await, Return, FirstTry

LEMMA ImagesHonest ==
    ASSUME ObjectsFit, NEW b \in Bindings
    PROVE  /\ b.exports <=>
                 /\ Searchable(b.image)
                 /\ \A name \in Required : Definitions(b.image, name) # {}
           /\ \A name \in Required \cup {thread_detach} :
                 find_symbol(Objects(b.image), kSo, name)
                     \in {None} \cup Definitions(b.image, name)
<1>1. PICK img \in Images : b.image = img /\ b.exports = resolve(Objects(img))
  BY DEF Bindings
<1>2. \A name \in Required \cup {thread_detach} :
        /\ find_symbol(Objects(img), kSo, name) \in {None} \cup Definitions(img, name)
        /\ find_symbol(Objects(img), kSo, name) # None
               <=> Searchable(img) /\ Definitions(img, name) # {}
  BY <1>1, SymbolRight, Zenon
<1>3. Required # {}
  BY DEF Required
<1>. QED  BY <1>1, <1>2, <1>3, Zenon DEF resolve

LEMMA BoundInductive ==
    ASSUME ObjectsFit, TypeInv, FirstTry, ResolveHonest, [PhaseNext]_phaseVars
    PROVE  ResolveHonest'
<1>1. CASE PhaseNext /\ image' # None
  <2>1. /\ Next /\ pc = "resolve" /\ pc' # pc /\ game' = game
        /\ \E b \in Bindings : b.exports = game.exports /\ image' = b.image
    <3>1. PhaseNext => (image' = None \/ (Next /\ NextImage))
      BY DEF PhaseNext, InitStep, RuntimeStep, HookStep, Play, EndCall, Next
    <3>2. Next => game' = game
      BY DEF Next, InitThread, Runtime, LoadLibrary, CreateDomain, RegisterBegin,
         RegisterEnd, thread, FindLibrary, Resolve, Await, GetDomain, Settle, Settled,
         NeverSettled, Sleep, Attach, FindImage, InstallHooks
    <3>. QED  BY <1>1, <3>1, <3>2, Zenon DEF NextImage
  <2>2. PICK b \in Bindings : b.exports = game.exports /\ image' = b.image
    BY <2>1
  <2>3. pc' = "domain" <=> game.exports
    BY <2>1, LeavesResolve
  <2>. QED  BY <2>1, <2>2, <2>3, ImagesHonest, Zenon DEF ResolveHonest
<1>2. CASE image' = None
  BY <1>2, Zenon DEF ResolveHonest
<1>3. CASE UNCHANGED phaseVars
  BY <1>3 DEF phaseVars, vars, thread, ResolveHonest
<1>. QED  BY <1>1, <1>2, <1>3

(* Whatever libraries a process has, the init thread goes on exactly when the
   game's own library defines the required symbols in tables that can be read,
   and each pointer it holds is the address of such a definition. *)
THEOREM BindingIsHonest == ASSUME ObjectsFit PROVE PhaseSpec => []ResolveHonest
<1>1. PhaseInit => ResolveHonest
  BY DEF PhaseInit, ResolveHonest
<1>2. PhaseSpec => []TypeInv
  BY PhaseIsStartup, AlwaysTyped, PTL
<1>3. PhaseSpec => []FirstTry
  BY PhaseIsStartup, <1>2, FirstTryStarts, FirstTryInductive, PTL DEF Spec
<1>. QED  BY <1>1, <1>2, <1>3, BoundInductive, PTL DEF PhaseSpec

-----------------------------------------------------------------------------
(* The report.                                                             *)

LEMMA OrderProperties ==
    /\ Len(HookOrder) = Len(EntryOrder) + 2 /\ Len(EntryOrder) \in Nat
    /\ HookOrder[1] = SelectPhotonAppId /\ HookOrder[2] = FriendsUpdate
    /\ \A k \in 3..Len(HookOrder) : HookOrder[k] \in Entries
<1>. DEFINE S == Hooks
            first == <<SelectPhotonAppId, FriendsUpdate>>
<1>1. first \in Seq(S) /\ Len(first) = 2
  BY DEF Hooks
<1>2. EntryOrder \in Seq(S) /\ Len(EntryOrder) \in Nat
  BY HooksAssumption DEF Hooks
<1>3. first[1] = SelectPhotonAppId /\ first[2] = FriendsUpdate
  OBVIOUS
<1>. HIDE DEF S, first
<1>4. /\ Len(first \o EntryOrder) = Len(first) + Len(EntryOrder)
      /\ \A k \in 1..Len(first) + Len(EntryOrder) :
            (first \o EntryOrder)[k] =
                IF k <= Len(first) THEN first[k] ELSE EntryOrder[k - Len(first)]
  BY <1>1, <1>2, ConcatProperties, Zenon
<1>5. HookOrder = first \o EntryOrder
  BY DEF HookOrder, first
<1>6. ASSUME NEW k \in 3..Len(HookOrder) PROVE HookOrder[k] \in Entries
  <2>1. HookOrder[k] = EntryOrder[k - 2] /\ k - 2 \in 1..Len(EntryOrder)
    BY <1>1, <1>2, <1>4, <1>5
  <2>. QED  BY <2>1 DEF Entries
<1>7. HookOrder[1] = SelectPhotonAppId /\ HookOrder[2] = FriendsUpdate
  BY <1>1, <1>2, <1>3, <1>4, <1>5
<1>. QED  BY <1>1, <1>2, <1>4, <1>5, <1>6, <1>7

(* How many entry hooks the counter stands for. *)
EntryCount == IF FriendsUpdate \in hooks THEN installed - 1 ELSE installed

(* The counter of cloud_guard::install_hooks against the hooks that are there:
   photon's own is not in it, the backend guard is one, the rest are entries. *)
CountInv ==
    /\ pos \in 1..Len(HookOrder) + 1
    /\ hooks \subseteq Hooks /\ installed \in Nat
    /\ EntryCount \in Nat
    /\ EntryCount > 0 <=> hooks \cap Entries # {}
    /\ pos < 3 => FriendsUpdate \notin hooks /\ hooks \cap Entries = {}
    /\ pc # "install" /\ pc # "exit" => hooks = {}

(* What the thread has said. *)
ReportInv ==
    /\ CountInv
    /\ result = "none" <=> pc # "exit"
    /\ pc = "exit" /\ result # "finished" => hooks = {}
    /\ report # "none" => pos > Len(HookOrder)
    /\ ReportHonest

LEMMA HookCounted ==
    ASSUME CountInv, HookStep PROVE CountInv'
<1>. USE DEF CountInv, EntryCount
<1>1. pos \in 1..Len(HookOrder) /\ pos' = pos + 1 /\ pc = "install" /\ pc' = pc
  BY OrderProperties DEF HookStep, vars, thread
<1>2. CASE UNCHANGED <<hooks, installed>>
  BY <1>1, <1>2, OrderProperties
<1>3. CASE ~UNCHANGED <<hooks, installed>>
  <2>1. /\ hooks' = hooks \cup {HookOrder[pos]}
        /\ installed' = IF HookOrder[pos] = SelectPhotonAppId THEN installed
                        ELSE installed + 1
    BY <1>3 DEF HookStep
  <2>2. SelectPhotonAppId # FriendsUpdate
    BY DEF SelectPhotonAppId, FriendsUpdate
  <2>3. CASE pos = 1
    <3>1. HookOrder[pos] = SelectPhotonAppId
      BY <2>3, OrderProperties
    <3>2. /\ hooks' \cap Entries = hooks \cap Entries
          /\ FriendsUpdate \in hooks' <=> FriendsUpdate \in hooks
          /\ installed' = installed /\ hooks' \subseteq Hooks
      BY <2>1, <2>2, <3>1, HooksAssumption DEF Hooks
    <3>. QED  BY <1>1, <2>3, <3>2, OrderProperties
  <2>4. CASE pos = 2
    <3>1. HookOrder[pos] = FriendsUpdate
      BY <2>4, OrderProperties
    <3>2. /\ hooks' \cap Entries = {} /\ FriendsUpdate \in hooks'
          /\ installed' = installed + 1 /\ hooks' \subseteq Hooks
      BY <2>1, <2>2, <2>4, <3>1, HooksAssumption DEF Hooks
    <3>3. FriendsUpdate \notin hooks /\ hooks \cap Entries = {}
      BY <2>4
    <3>. QED  BY <1>1, <2>4, <3>2, <3>3, OrderProperties
  <2>5. CASE pos > 2
    <3>1. HookOrder[pos] \in Entries
      BY <1>1, <2>5, OrderProperties
    <3>2. /\ hooks' \cap Entries # {}
          /\ FriendsUpdate \in hooks' <=> FriendsUpdate \in hooks
          /\ installed' = installed + 1 /\ hooks' \subseteq Hooks
      BY <2>1, <3>1, HooksAssumption DEF Hooks
    <3>3. EntryCount' = EntryCount + 1
      BY <3>2
    <3>. QED  BY <1>1, <2>5, <3>2, <3>3, OrderProperties
  <2>. QED  BY <1>1, <2>3, <2>4, <2>5
<1>. QED  BY <1>2, <1>3

(* A thread that leaves install has finished; no other return says so. *)
LEMMA ReturnsWell ==
    ASSUME TypeInv, InitThread
    PROVE  /\ pc # "exit"
           /\ pc' = pc \/ pc' # "install" \/ pc = "image"
           /\ pc' # "exit" => result' = result
           /\ pc' = "exit" => result' # "none"
           /\ pc' = "exit" => (result' = "finished" <=> pc = "install")
           /\ pc = "install" => pc' = "exit"
<1>1. CASE FindLibrary \/ Resolve \/ GetDomain
  BY <1>1 DEF FindLibrary, Resolve, GetDomain, Await, Return
<1>2. CASE Settle \/ Settled \/ NeverSettled
  BY <1>2 DEF Settle, Settled, NeverSettled, Return
<1>3. CASE Sleep \/ Attach
  BY <1>3 DEF Sleep, Attach, Return
<1>4. CASE FindImage \/ InstallHooks
  BY <1>4 DEF FindImage, InstallHooks, Return
<1>. QED  BY <1>1, <1>2, <1>3, <1>4 DEF InitThread

(* "ready" is said exactly of the hooks that the report is about. *)
LEMMA VerdictExact ==
    ASSUME CountInv
    PROVE  Verdict = "ready" <=>
               /\ {SelectPhotonAppId, FriendsUpdate} \subseteq hooks
               /\ hooks \cap Entries # {}
<1>1. FriendsUpdate \in hooks => (installed >= 2 <=> hooks \cap Entries # {})
  BY DEF CountInv, EntryCount
<1>. QED  BY <1>1 DEF Verdict, GuardInstalled

LEMMA CountFrame ==
    ASSUME CountInv, UNCHANGED hookVars,
           pc' = pc \/ pc' \in {"install", "exit"} \/ hooks = {}
    PROVE  CountInv'
BY DEF CountInv, EntryCount, hookVars

LEMMA ReportFrame ==
    ASSUME ReportInv, UNCHANGED <<pc, result, hookVars, report>> PROVE ReportInv'
<1>1. CountInv'
  BY CountFrame DEF ReportInv
<1>2. UNCHANGED <<pc, result, pos, hooks, report>>
  BY DEF hookVars
<1>. QED  BY <1>1, <1>2 DEF ReportInv, ReportHonest

LEMMA ReportInductive ==
    ASSUME TypeInv, ReportInv, [PhaseNext]_phaseVars PROVE ReportInv'
<1>1. CASE InitStep
  <2>1. InitThread /\ NextReport /\ UNCHANGED hookVars
    BY <1>1 DEF InitStep
  <2>2. hooks = {} \/ pc = "install"
    BY <2>1, ReturnsWell DEF ReportInv, CountInv
  <2>3. CountInv'
    BY <2>1, <2>2, ReturnsWell, CountFrame DEF ReportInv
  <2>4. UNCHANGED <<pos, hooks>>
    BY <2>1 DEF hookVars
  <2>5. report = "none" /\ result = "none"
    BY <2>1, ReturnsWell DEF ReportInv, ReportHonest
  <2>6. CASE pc = "install"
    <3>1. pc' = "exit" /\ result' = "finished"
      BY <2>1, <2>6, ReturnsWell
    <3>2. report' = Verdict /\ pos > Len(HookOrder)
      BY <2>1, <2>6, <3>1 DEF NextReport
    <3>3. Verdict \in {"ready", "failed"}
      BY DEF Verdict
    <3>4. Verdict = "ready" <=>
              /\ {SelectPhotonAppId, FriendsUpdate} \subseteq hooks
              /\ hooks \cap Entries # {}
      BY VerdictExact DEF ReportInv
    <3>5. ReportHonest'
      BY <2>4, <3>1, <3>2, <3>3, <3>4 DEF ReportHonest
    <3>. QED  BY <2>3, <2>4, <3>1, <3>2, <3>5 DEF ReportInv
  <2>7. CASE pc # "install"
    <3>1. report' = "none" /\ hooks = {} /\ result' # "finished"
      BY <2>1, <2>2, <2>5, <2>7, ReturnsWell DEF NextReport
    <3>2. result' = "none" <=> pc' # "exit"
      BY <2>1, <2>5, ReturnsWell
    <3>3. ReportHonest'
      BY <2>4, <3>1 DEF ReportHonest
    <3>. QED  BY <2>3, <2>4, <3>1, <3>2, <3>3 DEF ReportInv
  <2>. QED  BY <2>6, <2>7
<1>2. CASE RuntimeStep
  <2>1. UNCHANGED <<pc, result, hookVars, report>>
    BY <1>2 DEF RuntimeStep, Runtime, LoadLibrary, CreateDomain, RegisterBegin,
       RegisterEnd, thread
  <2>. QED  BY <2>1, ReportFrame
<1>3. CASE HookStep
  <2>1. CountInv'
    BY <1>3, HookCounted DEF ReportInv
  <2>2. pc = "install" /\ UNCHANGED <<pc, result, report>>
    BY <1>3 DEF HookStep, vars, thread
  <2>3. result = "none" /\ report = "none"
    BY <2>2 DEF ReportInv, ReportHonest
  <2>. QED  BY <2>1, <2>2, <2>3 DEF ReportInv, ReportHonest
<1>4. CASE Play \/ EndCall \/ UNCHANGED phaseVars
  <2>1. UNCHANGED <<pc, result, hookVars, report>>
    BY <1>4 DEF Play, EndCall, phaseVars, vars, thread
  <2>. QED  BY <2>1, ReportFrame
<1>. QED  BY <1>1, <1>2, <1>3, <1>4 DEF PhaseNext

LEMMA AlwaysReported == PhaseSpec => []ReportInv
<1>1. PhaseInit => ReportInv
  BY OrderProperties
     DEF PhaseInit, Init, ReportInv, ReportHonest, CountInv, EntryCount
<1>2. PhaseSpec => []TypeInv
  BY PhaseIsStartup, AlwaysTyped, PTL
<1>. QED  BY <1>1, <1>2, ReportInductive, PTL DEF PhaseSpec

(* Whichever entries there are and whichever hooks are refused, the thread says
   "ready" exactly of a process with the AppID hook, the backend guard and some
   entry hook in place, and leaves nothing patched when it gives up. *)
THEOREM ReportIsHonest == PhaseSpec => []ReportHonest
<1>1. ReportInv => ReportHonest
  BY DEF ReportInv
<1>. QED  BY <1>1, AlwaysReported, PTL

-----------------------------------------------------------------------------
(* A start in time.                                                        *)

(* The safety half of Protected: a thread that started in time has no end but
   that with every hook tried and a report made, whose word ReportIsHonest
   keeps. *)
THEOREM InTimeIsAnnounced ==
    ASSUME StableChecks < WaitSteps
    PROVE  PhaseSpec =>
               [](InTime => [](pc = "exit" => report # "none" /\ pos > Len(HookOrder)))
<1>1. ReportInv /\ (pc = "exit" => result = "finished")
          => (pc = "exit" => report # "none" /\ pos > Len(HookOrder))
  BY DEF ReportInv, ReportHonest
<1>2. PhaseSpec => [](InTime => [](pc = "exit" => result = "finished"))
  BY PhaseIsStartup, InTimeEndsWell, PTL
<1>. QED  BY <1>1, <1>2, AlwaysReported, PTL
=============================================================================
