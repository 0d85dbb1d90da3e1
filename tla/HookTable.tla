------------------------------- MODULE HookTable -------------------------------
(***************************************************************************)
(* What hook::install promises to the code that runs in the game.          *)
(*                                                                         *)
(* Seen from a game thread, a method has an entry that leads either to its *)
(* original body or to one replacement.  An entry is redirected in one     *)
(* step and stays redirected.  A replacement that forwards always reaches  *)
(* the original body of the very method that was called, and no call ever  *)
(* ends anywhere else.  HookInstall is the protocol of hook.cpp that       *)
(* implements this with an engine that patches code while threads run.     *)
(***************************************************************************)

CONSTANTS
    Threads,     \* game threads
    Addresses,   \* native entry addresses of managed methods
    None         \* no method

VARIABLES
    hooked,      \* the addresses whose entry leads to a replacement
    running      \* what each thread executes: [at, called]

vars == <<hooked, running>>

InGame == [at |-> "game", called |-> None]

Init ==
    /\ hooked = {}
    /\ running = [th \in Threads |-> InGame]

(* A hook appears: callers see it at once or not at all. *)
Install(a) ==
    /\ a \notin hooked
    /\ hooked' = hooked \cup {a}
    /\ UNCHANGED running

Call(th, a) ==
    /\ running[th] = InGame
    /\ running' = [running EXCEPT
           ![th] = [at |-> IF a \in hooked THEN "replacement" ELSE "original",
                    called |-> a]]
    /\ UNCHANGED hooked

Forward(th) ==
    /\ running[th].at = "replacement"
    /\ running' = [running EXCEPT ![th].at = "original"]
    /\ UNCHANGED hooked

(* From the original body, or from a replacement that blocks the call. *)
Return(th) ==
    /\ running[th].at \in {"replacement", "original"}
    /\ running' = [running EXCEPT ![th] = InGame]
    /\ UNCHANGED hooked

Next ==
    \/ \E a \in Addresses : Install(a)
    \/ \E th \in Threads :
          \/ \E a \in Addresses : Call(th, a)
          \/ Forward(th)
          \/ Return(th)

Spec == Init /\ [][Next]_vars
=============================================================================
