------------------------------- MODULE PhaseZero -------------------------------
(***************************************************************************)
(* The library from System.loadLibrary to the end of its init thread: the  *)
(* thread and the starting runtime (Startup), the symbols it binds in the  *)
(* objects of the process (ElfLookup), and the two install_hooks(), which  *)
(* patch one method after another while the game already plays, and each   *)
(* of which may be refused.  What a hook then does is in CloudGuard.       *)
(***************************************************************************)
EXTENDS Startup, ElfLookup

CONSTANTS
    EntryOrder,   \* the guarded connection entries, in installation order
    Preloaded,    \* the objects of the process before the game's library
    Images        \* what libil2cpp.so may be

Entries == {EntryOrder[k] : k \in 1..Len(EntryOrder)}
SelectPhotonAppId == "SelectPhotonAppId"
FriendsUpdate == "FriendsUpdate"

(* photon::install_hooks, then cloud_guard::install_hooks, without the tracing
   hooks, on which nothing depends. *)
HookOrder == <<SelectPhotonAppId, FriendsUpdate>> \o EntryOrder
Hooks == {SelectPhotonAppId, FriendsUpdate} \cup Entries

ASSUME HooksAssumption ==
    /\ EntryOrder \in Seq(Entries)
    /\ {SelectPhotonAppId, FriendsUpdate} \cap Entries = {}
    /\ None \notin [entry : Entries, checked : BOOLEAN]

VARIABLES
    image,        \* libil2cpp.so as it was searched, just after the last search
    pos,          \* the next hook to install, as a position of HookOrder
    hooks,        \* the hooks that are active
    installed,    \* how many of them cloud_guard::install_hooks has counted
    report,       \* what the thread logged at its end: "none", "ready", "failed"
    call          \* the entry call under way, None if there is none

hookVars == <<pos, hooks, installed>>
phaseVars == <<vars, image, hookVars, report, call>>

kSo == "libil2cpp.so"
domain_get == "il2cpp_domain_get"
thread_attach == "il2cpp_thread_attach"
thread_detach == "il2cpp_thread_detach"

(* Two of the sixteen symbols that must be there; all are treated alike. *)
Required == {domain_get, thread_attach}

(* The objects dl_iterate_phdr lists once the game has loaded its library. *)
Objects(img) == Append(Preloaded, img)

(* il2cpp::resolve: every required symbol is bound, whatever the optional
   one gave. *)
resolve(objects) ==
    \A name \in Required : find_symbol(objects, kSo, name) # None

(* What each image lets the thread bind: the answers Startup takes as given. *)
Bindings ==
    {[image |-> img, exports |-> resolve(Objects(img)),
      detaches |-> find_symbol(Objects(img), kSo, thread_detach) # None] : img \in Images}

PhaseInit ==
    /\ Init
    /\ image = None
    /\ pos = 1 /\ hooks = {} /\ installed = 0
    /\ report = "none" /\ call = None

(* One of them was searched when the thread leaves the loop around resolve();
   then it is forgotten, as nobody looks at its symbols again. *)
NextImage ==
    IF pc = "resolve" /\ pc' # pc
    THEN \E b \in Bindings :
             /\ b.exports = game.exports /\ b.detaches = game.detaches
             /\ image' = b.image
    ELSE image' = None

(* Mutant: off by one, the backend guard is its own second hook. *)
GuardAlone == FriendsUpdate \in hooks /\ installed >= 1

(* What cloud_guard::install_hooks returns. *)
GuardInstalled == FriendsUpdate \in hooks /\ installed >= 2

Verdict ==
    IF SelectPhotonAppId \in hooks /\ GuardInstalled THEN "ready" ELSE "failed"

(* Mutant: the thread ends before every entry has been tried. *)
EndEarly ==
    IF pc = "install" /\ pc' # pc
    THEN report' = Verdict
    ELSE UNCHANGED report

(* The thread ends when both install_hooks() have gone through their lists,
   and says what came of it. *)
NextReport ==
    IF pc = "install" /\ pc' # pc
    THEN pos > Len(HookOrder) /\ report' = Verdict
    ELSE UNCHANGED report

InitStep == InitThread /\ NextImage /\ NextReport /\ UNCHANGED <<hookVars, call>>
RuntimeStep == Runtime /\ NextImage /\ UNCHANGED <<hookVars, report, call>>
RegisterStep ==
    (RegisterBegin \/ RegisterEnd) /\ NextImage /\ UNCHANGED <<hookVars, report, call>>

(* hook::install of one method, which is patched, or refused: it may lack the
   method, or the engine may fail. *)
HookStep ==
    /\ pc = "install" /\ pos <= Len(HookOrder)
    /\ pos' = pos + 1
    /\ \/ /\ hooks' = hooks \cup {HookOrder[pos]}
          /\ installed' = IF HookOrder[pos] = SelectPhotonAppId THEN installed
                          ELSE installed + 1
       \/ UNCHANGED <<hooks, installed>>
    /\ image' = None /\ UNCHANGED <<vars, report, call>>

(* Game code runs when every assembly is in, hooked or not. *)
Play ==
    /\ Complete /\ call = None
    /\ \E e \in Entries : call' = [entry |-> e, checked |-> e \in hooks]
    /\ image' = None /\ UNCHANGED <<vars, hookVars, report>>

EndCall ==
    /\ call # None /\ call' = None
    /\ image' = None /\ UNCHANGED <<vars, hookVars, report>>

PhaseNext ==
    \/ InitStep
    \/ RuntimeStep
    \/ HookStep
    \/ Play
    \/ EndCall

(* The init thread is scheduled, the main thread goes on once it registers,
   and a call of an entry returns. *)
PhaseSpec ==
    /\ PhaseInit /\ [][PhaseNext]_phaseVars
    /\ WF_phaseVars(InitStep \/ HookStep)
    /\ WF_phaseVars(RegisterStep)
    /\ WF_phaseVars(EndCall)

-----------------------------------------------------------------------------
(* Properties.                                                             *)

(* The lookup finds libil2cpp.so among the objects of the process and gives
   each symbol an address at which the library itself defines it; it gives
   up on a library exactly if one of the symbols or tables is not there
   (elf_sym.cpp:42-87). *)
ResolveHonest ==
    image # None =>
        /\ (pc = "domain") <=>
              /\ Searchable(image)
              /\ \A name \in Required : Definitions(image, name) # {}
        /\ \A name \in Required \cup {thread_detach} :
              find_symbol(Objects(image), kSo, name)
                \in {None} \cup Definitions(image, name)

(* What the library says is what it has done, wherever it stops: a thread that
   gives up says nothing and leaves no method patched, one that goes through
   speaks once, and it says "ready" exactly if the AppID, the backend guard and
   some entry are in its hands, however the rest was refused
   (main.cpp:114-136, cloud_guard.h:309). *)
ReportHonest ==
    /\ result \notin {"none", "finished"} => hooks = {}
    /\ report # "none" <=> result = "finished"
    /\ report = "ready" <=>
          /\ result = "finished"
          /\ {SelectPhotonAppId, FriendsUpdate} \subseteq hooks
          /\ hooks \cap Entries # {}

(* A player of a game that starts in time is protected in the end as far as
   hooks were not refused: every one of them has been tried, and from some
   point on a call of an entry is one that a hook answers for, unless that very
   entry's hook was refused.  Calls that were on their way to an entry when its
   hook appeared do not go on forever. *)
Protected ==
    [](pc = "settle" /\ Complete /\ doneAt = 0 /\ i = 0
         /\ game.attaches /\ game.csharp # 0
       => <>[](/\ report # "none" /\ pos > Len(HookOrder)
               /\ call # None => (call.checked <=> call.entry \in hooks)))
=============================================================================
