# TLA+ verification of libopg3d

This directory holds TLA+ specifications of `libopg3d.so`, the native library
that restores online play in Pixel Gun 3D 12.5.0: models of its components, TLC
configurations that check them on small instances, and theorems about them that
TLAPS checks for every value of the constants. Paths below are relative to
`src/opg3d/src/main/cpp/` unless they start with `src/`.

## 1. The system

The library is loaded into the game's process. A constructor starts one
background thread (the *init thread*), which waits until the IL2CPP runtime is
up, finds managed methods through metadata, redirects their native entries to
its own *replacements*, and ends. From then on everything the library does
happens inside replacements, on the threads of the game that call the hooked
methods; nearly all of that is the Unity main thread.

### Inventory

| Component | State | Operations | Talks to |
|---|---|---|---|
| Start-up (`main.cpp`) | the loop variables of `init_thread`; attached or not | find library, resolve exports, get domain, settle, sleep, attach, find image, install, detach | ELF lookup, IL2CPP API, both `install_hooks` |
| Hook wrapper (`hook.cpp`) | `g_engine_once`, `g_engine_ready`; the caller's original slot | `install` | IL2CPP metadata, ShadowHook (external) |
| Photon hooks (`photon_hooks.cpp`) | `g_*` original slots, `static` method caches, call counters | `install_hooks`; 17 replacements: two change behaviour (`SelectPhotonAppId`, `SetUpPhoton`), the others log and pass on | PUN's `ServerSettings` and `PhotonNetwork` |
| Cloud guard (`cloud_guard.h`) | `g_cloud_ready`, `g_*` slots, counters that limit logging | `install_hooks`, `force_cloud`, four entry hooks, `hook_friends_update` | PUN, `hook::install` |
| IL2CPP binding (`il2cpp.cpp`) | function pointers bound once | `resolve`, `find_image`, `find_class`, `find_method_info`, `method_pointer`, `find_field`, `to_utf8` | ELF lookup; the runtime's assembly vector |
| ELF lookup (`elf_sym.cpp`) | none | `find_library`, `find_symbol` | `dl_iterate_phdr` |
| Logger (`log.h`) | time origin, sequence counter | `print` | logcat |
| Symbolizer (`src/tools/symbolize_log.py`) | none between runs | parse `dump.cs`, look an address up, annotate lines | files |
| Build and CI | none | compile-time `PHOTON_APP_ID`, mode, address | - |

### What is hard about it

- The init thread patches code that other threads execute at that moment. A
  replacement jumps through its slot without looking at it.
- It walks a vector that the runtime reallocates on another thread, without a
  lock, and decides by sampling the vector's length when that is over.
- Hooks appear one by one while the game already runs, and any of them may be
  refused. What is reported must match what is active.
- The route of a session lives in a mutable settings object that the game, PUN
  and the library all write. The SDK call that forces it can fail in part.
- The quarantine of `FriendsController.Update` must cover every active client
  state and end when the session ends; the state is an enumeration whose idle
  members are 0, 1 and 15 of 0..20.
- Static fields of `PhotonNetwork` are addressed through a base pointer that is
  null until the class is initialized, and nothing keeps the game from calling a
  hooked entry before that.
- The exports are found by reading the dynamic section of a library in memory,
  whose addresses may or may not have been relocated by the linker.
- A log line takes its time, its number and its place in logcat in three separate
  steps, and a reader is to tell from the numbers whether lines are missing.

### What makes each component correct

- **Hook wrapper.** A call that enters a replacement reaches the original body
  of the method it was made to, and never a null pointer. What `install`
  returned stays true. Later installs leave earlier hooks alone.
- **Cloud guard and Photon hooks.** A session that `force_cloud` answered for is
  on the forced route. After the ready report that holds for every session.
  No hook touches static fields before they exist in a call it has answered for.
  A hooked `Update` ends no session, and runs again when there is none.
- **Start-up.** The assembly vector is walked only when complete and by an
  attached thread; the thread gives up only for cause, ends, and ends detached.
- **The whole library.** While hooks appear one by one, some are refused and the
  game already plays, the report says what has been installed, a thread that gives
  up leaves nothing behind, and in a game that starts in time every entry whose
  hook was not refused is checked in the end.
- **ELF lookup and binding.** The lookup answers with a symbol that
  `libil2cpp.so` itself defines, and with nothing exactly when there is none.
- **`to_utf8`.** The text says what the string said, and is UTF-8 but for a high
  half in the last unit read, which is encoded as it stands.
- **Logger.** Numbers are complete; a line overtakes fewer lines than there are
  threads; numbers disagree with times or with the order in
  logcat only for calls that overlapped.
- **Symbolizer.** The index lists what the dump declares; a note names the method
  that covers the call site; annotating twice adds nothing.

`PROJECT.json` lists the hazards behind these properties, each at its line.

## 2. Modules

| Module | Models | Role |
|---|---|---|
| `HookTable` | the contract of `hook::install` (`hook.h`) | abstract specification |
| `HookInstall` | `hook.cpp` against calling threads and the engine | detailed specification, implements `HookTable` |
| `HookInstallProofs` | - | theorems about `HookInstall` |
| `MCHookInstall` | - | symmetry for TLC |
| `CloudGuard` | `cloud_guard.h`, the behaviour-changing part of `photon_hooks.cpp` | specification |
| `CloudGuardProofs` | - | theorems about `CloudGuard` |
| `MCCloudGuard` | - | builds, states and entries for TLC |
| `OnlineSession` | what the guard promises a player | abstract specification, implemented by `CloudGuard` |
| `Startup` | `main.cpp`, with the answers of `il2cpp.cpp` and `elf_sym.cpp` | specification |
| `StartupProofs` | - | theorems about `Startup` |
| `MCStartup` | - | root module for TLC |
| `ElfLookup` | `elf_sym.cpp` | pure operators |
| `PhaseZero` | `Startup`, `ElfLookup`, the two `install_hooks` and the report composed | specification, refines `Startup` |
| `PhaseZeroProofs` | - | theorems about `PhaseZero` |
| `MCPhaseZero` | - | images and entries for TLC |
| `Utf16` | `to_utf8` in `il2cpp.cpp` | specification |
| `LogStream` | `print` in `log.h` | specification |
| `Symbolizer` | `src/tools/symbolize_log.py` | specification |
| `Diagnostics` | the three in a row | specification |
| `DiagnosticsProofs` | - | theorems about `Diagnostics`: text, order, notes |
| `NumberProofs` | - | theorems about the numbers in the log |
| `TextProofs` | - | theorem about what the text says |
| `DumpProofs` | - | theorem about the index of a dump |
| `MCDiagnostics` | - | symmetry and names for TLC |

`HookInstall`, `CloudGuard` and `Startup` meet at one interface each. `Startup` ends where both
`install_hooks` run; `HookInstall` is what each `install` call inside them does;
`CloudGuard` starts with no hook and adds them one step at a time. That single
step is what the refinement of `HookTable` justifies: seen from a game thread,
`install` is atomic (for an engine that keeps its word, see `EngineSilent`).
`CloudGuard` in turn implements `OnlineSession` when nothing is refused.
`PhaseZero` composes `Startup` with the symbol lookup and with the installation,
refusals included, up to the report; what a hook then does stays in `CloudGuard`.

### HookInstall

| TLA+ | Code |
|---|---|
| `engine`, `EnsureEngine` | `g_engine_once`, `g_engine_ready`, `ensure_engine` |
| `ipc`, `cur` | the point `install` has reached and its target |
| `slot[t]` | the `g_*` pointer of target `t` |
| `patch[a]` | where native address `a` leads |
| `running[th]` | what a game thread executes: game code, a replacement, an original body |
| `Begin` | argument to `*original = nullptr` (`hook.cpp:43-77`), with its early returns |
| `EngineRefuse`, `EnginePublish`, `EngineSkip`, `EnginePatch` | `shadowhook_hook_func_addr` (external) |
| `VerifyOk`, `RollBack` | the check of `*original` (`hook.cpp:92-101`) |
| `CallMethod`, `Forward`, `ReturnToGame` | a game thread calls a method, a replacement calls its original, a call ends |

The engine is modelled from how `hook.cpp` uses it: UNIQUE mode refuses an
address that already carries a hook, any request may fail, and the slot is
written before the entry is redirected. `EngineSilent` adds the case the code
provides for with its rollback: a stub and no trampoline. Two targets may share
one address, as methods do under generic sharing, and a target may be missing.
A process that has jumped through null takes no further step. Every replacement
jumps through its slot unconditionally; `hook_select_app_id` alone looks at its
slot first (`photon_hooks.cpp:423`). The model lets it jump too, which keeps the
targets alike and only adds behaviours: what holds here holds of it.

### CloudGuard

| TLA+ | Code |
|---|---|
| `build` | the compile-time AppID; which methods, fields and assets the running game has |
| `pos`, `hooks`, `report` | the sequence of `install` calls, their effect, the log line of `main.cpp:121-133` |
| `alive`, `early` | has the static constructor of `PhotonNetwork` run; which hooks touched statics before |
| `route` | `HostType`, `PreferredRegion` and `AppID` of `PhotonServerSettings` |
| `cloudReady` | `g_cloud_ready` |
| `pun` | `PhotonNetwork.connectionStateDetailed` |
| `frame` | the hooked call the main thread is in, and whether it was redirected |
| `ForceCloud`, `UseCloud`, `ReadBack` | `force_cloud` with its returns, the SDK call, the read-back |
| `CallEntry`, `ConnectAsleep`, `Connect`, `Decline` | an entry hook, then its original body, up to the hook of `ConnectUsingSettings` |
| `CallUpdate`, `UpdateBody` | `hook_friends_update`, then its original body |
| `CallSetUpPhoton`, `OriginalSetUp`, `SetUpPhotonEnd` | `hook_set_up_photon` around its original, which calls `hook_select_app_id` |
| `Reroute`, `Disconnect`, `PunProgress`, `PhotonAwake` | the game and PUN between two calls |

The game calls its entries at any time, before `PhotonNetwork` is initialized or
after. `force_cloud` reads `PhotonServerSettings` without asking
(`cloud_guard.h:77`, `:144-148`), and the hook of `ConnectUsingSettings` writes
`logLevel` before its original has run the static constructor
(`photon_hooks.cpp:476`; `ConnectAsleep`). `early` collects where that happened. A
read through the null base may crash the process; the model follows the one that
survives it and finds null, in which `force_cloud` answers no. What the hooks
guarantee is `EarlyOnlyUnchecked`: it never happens in `SetUpPhoton`'s hook, nor in
a call that `force_cloud` has let through.

`session` records how the latest session was started and `lastUpdate` what the
last call of `Update` did; both only serve the properties. A frame keeps the
value `report` had when the call began, because a call that started before the
report cannot be expected to be guarded.

Abstractions. A region, a host type and an AppID are members of small sets; the
AppID is `"ours"` or `"game"`, and a comparison of string pointers in the
read-back becomes "was it written by this very call". `ServerAddress` and the
port are left out: `HostType = PhotonCloud` makes PUN ignore them. Replacements
that log and pass on are identity steps and appear only where their hook makes a
difference. The game re-routes its settings between two calls, not in the middle
of a verified one (section 6). The body of an entry may call another entry
(`NestedEntry`): the inner hook applies the route again, and if it blocks, the
outer body goes on as it likes.

### OnlineSession

Four variables without hooks, settings or SDK: the guarded entries, readiness,
the entry call under way, the latest session. A call is checked if its entry was
guarded when it began, or if it passes through a guarded one; a checked call
starts a routed session or none; readiness is announced when no entry is left.
What a player has of it is `LateRouted`: a session begun after the announcement
is routed, through whichever entry.
`CloudGuard!ImplementsSession` maps onto it: an entry the game lacks counts as
guarded, a call that is blocked never began, and a session is routed if host
type, region and AppID are the forced ones when PUN connects. A build without an
AppID blocks every guarded entry, which the promise allows.

### Startup

Every loop of `init_thread` is an action per iteration. `Await` is the shape that
the first three share. Time advances by one poll interval at each sleep, and the
runtime (`LoadLibrary`, `CreateDomain`, `RegisterBegin`, `RegisterEnd`) moves in
between at a pace bounded by `MaxGap`: once registration has begun, an assembly
is finished at least every `MaxGap` intervals. That bound is the assumption the
code makes without stating it. A sample taken during a registration may be the
old length, the new one, or a torn value, made of old and new bounds of the
vector and so any number. `assembly_count` turns those above `MaxCount` (8192)
into 0; the others enter the comparison as they are. One thing is assumed of
them: a tear lasts for a few stores, so the same torn value is not read in two
samples in a row, which are 10 ms apart.
`game` fixes which exports exist, whether attach succeeds, whether detach is
bound, and where in the vector `Assembly-CSharp` is (0: nowhere).

### ElfLookup and PhaseZero

`ElfLookup` follows `elf_sym.cpp` function by function: `find` takes the first
object whose file name matches, `lookup` needs the three tables of the dynamic
section and takes the first entry of the symbol table that is named, defined and
not at 0. An object carries its tables at addresses relative to its base, and
`absolute` says how the linker wrote them; a table read at the wrong address is
modelled as no table. What the answers should be (`Definitions`, `Searchable`) is
stated without tables and scans.

`PhaseZero` takes `Startup` apart where it takes something as given: are the
exports there, is detach bound, which is what `resolve` finds in one of the
`Images` of `libil2cpp.so`; and what happens at `install`.

| TLA+ | Code |
|---|---|
| `HookStep` | one `hook::install` of a list: patched, or refused because the method is missing or the engine fails |
| `installed`, `GuardInstalled` | the counter of `cloud_guard::install_hooks` and what it returns (`cloud_guard.h:309`) |
| `NextReport`, `Verdict` | the end of `init_thread`, after both lists, and what it logs (`main.cpp:119-139`) |
| `Play`, `EndCall` | the game calls an entry, hooked or not, once all assemblies are in |

Sixteen symbols must be bound; the model names two, as all are treated alike. The
tracing hooks are left out of the list, as nothing depends on them.

### Utf16, LogStream, Symbolizer and Diagnostics

| TLA+ | Code |
|---|---|
| `chars`, `limit`, `k`, `result` | the variables of `to_utf8`; a code unit is known by its class |
| `Pair`, `Unpaired`, `Low`, `Other` | one iteration of its loop each (`il2cpp.cpp:159-173`) |
| `once`, `origin`, `sequence` | `g_clock_once`, `g_clock_origin_ms`, `g_sequence` |
| `Call`, `Once`, `Stamp`, `Number`, `Write` | `print` up to its next shared access |
| `namespace`, `current_type`, `pending_rva`, `methods` | the variables of `parse_dump` |
| `Namespace`, `Type`, `Rva`, `Method`, `Comment`, `Blank` | one line of the dump each |
| `resolve_rva`, `annotated`, `symbolize_line` | `RvaIndex.resolve`, `ANNOTATION_RE`, one round of `symbolize_lines` |

`Diagnostics` leads a traced call to a reader: a string is converted, threads
print lines, the log is saved, a dump is read, the log is annotated and annotated
again. Between two stages it drops what no later stage reads, so that the stages
do not multiply. The number of a line is carried through to the end. The call
sites of the lines are chosen when the log is opened: no earlier stage depends on
them. `read` (the dump so far) and the `before` of a line (how many lines were
written when its call began) only serve the properties.

## 3. Runs

| Run | Result | Question |
|---|---|---|
| `hook_install` | passes | is installing safe at every step, and does it implement `HookTable`? |
| `hook_rollback` | passes | what still holds with an engine that gives no trampoline? |
| `hook_rollback_window` | violation of `NoNullForward` | does the rollback avoid the crash? |
| `cloud_guard` | passes | does `force_cloud` tell the truth, under every failure and however early it is called? |
| `full_guard` | passes | does the ready report keep its promise when nothing is refused, and the guard implement `OnlineSession`; does the quarantine end? |
| `partial_guard` | violation of `LateRouted` | ... and when one entry hook is refused? |
| `traced_entry` | violation of `LateRouted` | ... and through the entry that is only traced? |
| `no_getter` | violation of `NoFriendsDisconnect` | does the quarantine hold without the state getter? |
| `startup` | passes | are the right symbols bound, is the walk safe, does the thread end as it should, is the report true whichever hooks are refused, and is the player protected in the end as far as they were not? |
| `startup_gap` | violation of `WalkSafe` | does waiting for equal samples wait for the end? |
| `diagnostics` | passes | does what is traced reach a reader undamaged and in order, with the right methods? |
| `annotated_twice` | violation of `AnnotatedOnce` | may every annotated log be annotated again? |

### Bounds

- `hook_install`: two game threads, three targets, two addresses. Three targets
  on two addresses force two of them onto one address or leave one out; two
  threads let one be inside a replacement while another enters it. No bound is
  placed on calls: the state space is finite.
- `cloud_guard`: two of the four guarded entries (the four hooks are alike but
  for their slot), five builds, complete or lacking one thing, two hosts, two regions
  and seven client states: the idle ones and both neighbours of each edge of
  the idle set. `full_guard` and the violations use five states, as the
  numeric edge is not their question.
- `startup`: `StableChecks = 5`, `MaxGap = 2`, four assemblies, eight iterations
  per loop (the code's 25, unknown, some 100 and 6000), and lengths up to 5 that
  are not taken for torn. What matters is the ratio of `StableChecks` to `MaxGap`,
  which is exactly at the limit the theorem `WalkIsSafe` needs (with 4 checks
  `WalkSafe` fails), that torn lengths fall on both sides of `MaxCount`, and that
  the loop is long enough both to settle and not to.
  Two entries, so that none, one or both are refused; the executable and another library
  before `libil2cpp.so`; and images that differ from a good one in one entry of
  the symbol table (nameless, at 0, an import, a duplicate), in their tables, in
  the dynamic section or in the kind of addresses.
  `startup_gap` runs `Startup` alone with the same `StableChecks` and a gap one
  interval longer.
- `diagnostics`: four code units hold a pair next to an unpaired half on either
  side and every limit. Two threads and three lines let one thread overtake the
  other and a later call meet both; the clock ticks once. Five lines of a dump
  hold an address, a type that comes between, and two methods; call sites lie
  below, at and one above each of two addresses, with 1 as the largest offset.
  `annotated_twice` needs one method and three lines.

Deadlock is checked except where the system really stops: after a null jump
(`hook_rollback`, `hook_rollback_window`), after the init thread has returned
(`startup`, `startup_gap`) and when the log has been annotated (`diagnostics`,
`annotated_twice`).

### Fairness

`HookInstall` is checked for safety only. In `CloudGuard` the init thread is
scheduled (weak fairness of `Install`), a call of the main thread returns (weak
fairness of the steps that end one), and Unity calls `Update` again and again
whatever happens in between (strong fairness of `CallUpdate`, whose guard is
false while another call runs). Nothing is assumed of the network, of the game's
connection attempts or of PUN. In `PhaseZero` the init thread is scheduled (one
condition for its own steps and the installation of hooks, which take turns), a
registration that can begin or end does, and a call of an entry ends. The library
need never be loaded, the domain never be created and no entry be called.
`Diagnostics` is checked for safety only: nothing in it waits.

### Mutants

Each property of a passing run is broken by a fault in the code it is about:
a wrong slot, an engine without UNIQUE mode, an error path that unhooks what it
did not hook, a rollback that does not unhook, swapped arguments, a read-back
that skips the AppID, a cached answer, settings written too early, an
off-by-one in the quarantine, a settle loop that takes an empty list for a
settled one or does not keep its sample, a torn length taken at its word, a loop
with no limit, an early return that does not detach, an inner entry that passes
for checked though it blocked, a thread that ends before every hook is tried, a
backend guard that counts as its own second hook, an import taken for a
definition, a low half that is not consumed or not replaced, a clock origin taken
anew, a number that is not taken atomically or taken twice, an address kept for
the next type, `bisect_left`, a note that is not recognised. They stand beside the definitions they would replace, marked as mutants, and
`PROJECT.json` pairs them with properties.

## 4. What the violations show

1. **The rollback has a window.** The null slot is noticed after the entry has
   been redirected; a thread that calls the method before `shadowhook_unhook`
   crashes, which is what the comment at `hook.cpp:87-91` means to avoid.
2. **One entry hook out of four is enough to report ready** (`cloud_guard.h:309`),
   while `src/README.md:14` promises routing before every attempt.
3. **`GameConnect.ConnectToPhoton/0` is traced and not guarded**
   (`photon_hooks.cpp:512-518`), against "every known connection entry point" in
   `src/docs/PHOTON_CLOUD_GUARD.md:40`.
4. **The quarantine fails open** when the state getter is missing
   (`cloud_guard.h:89` gives -1, which counts as idle).
5. **Equal samples are not the end of registration** (`main.cpp:79`): they bound
   the gap that is tolerated. `WalkIsSafe` says which gap that is.
   In the run the pause between two finished registrations is shorter than the row
   of samples: one of them was taken during a registration and already saw the
   new length.
6. **A note may be added twice.** The pattern that recognises a note allows no `]`
   in it (`src/tools/symbolize_log.py:28`), and names of methods may hold one;
   `test_does_not_duplicate_annotation` covers a name that does not.
   `NotesAreSingle` says that this is the only way.

## 5. Proofs

All theorems hold for every value of the constants under the named assumptions
of the modules (`HookAssumption`, `GuardAssumption`, `StartupAssumption`,
`LogAssumption`), which only give the constants their types, tell null apart
from the rest and say that a process has finitely many threads. TLC evaluates them on the constants of every run. Conditions that
a single theorem needs stand in that theorem and are named below.

**HookInstall.** `TypeCorrect`, `OriginalsAreNotMixed`, `OutcomeIsHonest` and
`HooksStay` need nothing more. `OutcomeHonest` is not inductive: between
publishing and patching nothing in it says that the address is still free. The
invariant `HookInv` adds what the installing thread knows at each point
(`CurInv`), that a patched address belongs to the target whose method it is
(`PatchInv`), that a slot is empty or holds its target's own method (`SlotInv`)
and that a thread in a replacement came through the address it called
(`CallInv`). `NoNullJump` and `Implementation` assume `~EngineSilent` and add
`TrampolineInv`: an address is redirected only when the slot is filled. Under it
a step of the protocol is a step of `HookTable` or a stutter: `EnginePatch` is
`Install`, the calls are the calls, and everything else is invisible.

**CloudGuard.** `VerifiedSessionsAreRouted` rests on `RoutedInv`: a verified
call keeps the forced route until it connects, since nothing else moves while
the main thread is inside it. `ReadBackForces` is the lemma that the read-back
accepts exactly the forced route, whatever was written. `EarlyIsUnchecked`
uses that the end of `SetUpPhoton` follows its original, and that a call which
`force_cloud` has let through found settings, so that the class is initialized
(`VerifiedIsAwake`); it assumes nothing about when the game calls its entries. `FriendsDoNotDisconnect`
assumes `GetterExists`, the condition run `no_getter` drops; it covers all 21
client states. `LateSessionsAreRouted` assumes `Guardable`, the two conditions
runs `partial_guard` and `traced_entry` drop, and adds `LateInv`: whatever the
installation has passed is hooked or missing, and the report comes last, so an
entry called late without a guard does not exist. `OrderProperties` gives the
positions of the entries in the installation order. `PromiseIsKept` shows, under
`Guardable` again, that every step is a step of `OnlineSession` or a stutter: the
report finds all entries guarded by `LateInv`, and a verified call connects on the
forced route by `RoutedInv`, also when an inner entry has half-failed since.

**Startup.** `WalkIsSafe` assumes `GapsFit`, `StableChecks > 2 * MaxGap`: two
registrations may hide in one run of equal samples, because the sample taken
during a registration may already be the new length. Its invariant ties the
number of equal samples to the time since the last registration ended.
`TimeoutIsHonest` counts the iterations since registration was complete, and
`AttachIsReleased` follows the returns. With 25 checks of 10 ms the code
tolerates gaps of 120 ms by this argument; the sleep adds time but no sample,
so the proof does not use it. `AbsenceIsHonest`, under `GapsFit` again, adds that
the image is looked up for the first time when the vector is already complete,
so that a loop that has begun to wait (`i > 0`) waits for what does not exist.

What liveness rests on is proved as safety. `StepsLeft` bounds the steps the
thread still has, `5 * WaitSteps + Headroom + 8` at the start, and `StepsDoRunOut`
says that each step of the thread leaves fewer and that the runtime never gives
one back; it needs `LoopInv`, that no loop counter passes its limit.
`InTimeEndsWell` says of a game that is up when the settle loop begins that,
however the thread ends, it ends with its hooks installed. It assumes
`StableChecks < WaitSteps`, as in the code (25 and 6000): without it the settle
loop cannot be satisfied. `OnItsWay` is the invariant from that moment on.

**PhaseZero.** Every step of the composition is a step of `Startup` or leaves it
alone, so the theorems of `Startup` carry over
(`PhaseTypeCorrect`, `PhaseWalkIsSafe`, `PhaseTimeoutIsHonest`,
`PhaseAttachIsReleased`, `PhaseAbsenceIsHonest`, `PhaseStepsDoRunOut`). The last
is no matter of course: `HookStep` is taken by the same thread in the middle of
`install` and must not give it steps back. `ReportIsHonest` ties the counter to
the hooks that are in place (`CountInv`): what `installed` counts beyond the
backend guard is positive exactly when some entry is hooked. `InTimeIsAnnounced` takes
`InTimeEndsWell` up to the report: a thread that started in time ends only after
it has tried every hook and said what came of it. `BindingIsHonest` assumes `ObjectsFit`: no object before
`libil2cpp.so` has its name, and a table the linker did not relocate lies below
the load base, for only then can `fix_addr` tell the two kinds of addresses apart.

**Diagnostics.** `TextIsUtf8`: a high half is appended as it stands exactly in the
last place read, and nothing follows it. `OrderIsHonest` rests on `LogInv`:
whatever a thread holds was taken after the lines that were there when its call
began, and numbers and the clock only grow. `NotesAreRight` and `NotesAreSingle`
assume `DumpFits`, addresses are numbers, the second also that no name holds a
bracket. `ResolveRight` is the lemma that the lookup gives the nearest method at
or below a site; `NotesInv` keeps what each run has left on its lines.

The other three modules build on these.

- `MeaningIsKept` (`TextProofs`). `KeepsMeaning` says that there is an increasing
  map from the units appended to the characters read, and the proof carries the
  map along: a step extends it by the unit at `k`. What must be added is
  `AtStart`: the loop never stands on the low half of a pair whose high half it
  has just taken, so that the character at `k` begins there.
- `FewAreOvertaken` and `NumbersAreComplete` (`NumberProofs`). `Numbered` says
  that the numbers given are those of the lines written and of the threads that
  hold one, and as many. When a line is written, a lower number that is missing
  above it is therefore held by another thread, and no more numbers are held than
  there are threads to hold them (`NumbersFew`). When nothing is held, only the lines are left. `SavedInv`
  takes the set of numbers through annotation, which keeps each line's number.
  `NumbersAreDistinct` follows by counting: `n` lines with `n` numbers share none.
- `ListedAsDeclared` (`DumpProofs`). `MethodsExact` defines the index over the
  whole dump, without the parser's variables. `DumpInv` says what those
  variables are in terms of the part that has been read: the namespace and the type are the
  last ones declared, and an address is pending exactly if it comes last but for
  lines of no kind. Each kind of line keeps that (`ParserKeeps`).

**Checked by TLC only.** `UpdateResumes`, `Terminates`, `HooksInstalled` and
`Protected` are liveness properties under fairness, out of the prover's reach.
For the last three the safety part is proved: the thread has finitely many steps
(`StepsDoRunOut`), and if it ends, a timely game has had every hook tried and a
report made (`InTimeEndsWell`, `InTimeIsAnnounced`), which is true
(`ReportIsHonest`). `Terminates` needs a runtime that keeps its pace once it
registers assemblies. What remains to TLC is that
the thread is scheduled and never blocked. Every invariant and every action
property of a passing run is stated by a theorem.

## 6. What is not modelled, and why

- The self-hosted build: the guard is compiled away and the library makes no
  promise about routing in it.
- What the game's own entry bodies do to the settings before they connect. The
  guard takes for granted that they do nothing; so does the model.
- The trace hooks' reading of settings, tokens and peers: it feeds the log. Where
  they touch static fields on a path that may come too early, the touch is
  modelled (`EnableVerboseLogs`).
- What a read through the null base of a class does to the process (a crash, or
  garbage): the model records that it happens.
- `find_class`, `find_method_info` and `find_field` beyond found or not found.
- Bytes: the cut of a message at 3072 bytes, the "..." after a cut string, the
  shortening of a note to three names, the patterns that classify a dump's lines.
- The wrap of the 32-bit line number and a clock that cannot be read.
- Program headers that describe no dynamic section correctly, and what a read at
  a wrong address does other than give no table.
- Plain stores in the `static` caches of `connection_state` and `force_cloud`:
  every caller runs on the Unity main thread.
- The patched ShadowHook sources and the build scripts: no state of the
  library. What ShadowHook does is taken from how `hook.cpp` uses it.

## 7. Plan

Done, in the order of what can take the game down or send players to different
rooms: `HookTable`, `HookInstall`, `CloudGuard`, `Startup`; then `OnlineSession`,
which `CloudGuard` implements, and `PhaseZero` with the symbol lookup; then
`Diagnostics` with its three parts; and the theorems above.

Every property of a passing run that is not liveness has a theorem. Left:
`PhaseZero` and `CloudGuard` joined at `HookStep`, which both have as
`InstallHook`. It would connect the refusals of the one to the sessions of the
other, at the price of the product of two large state spaces.
