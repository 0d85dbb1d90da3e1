------------------------------- MODULE LogStream -------------------------------
(***************************************************************************)
(* log.h: lines that several threads print at the same time.               *)
(*                                                                         *)
(* print() takes the time, then the number, then writes the line.  Each is *)
(* one atomic access and other threads may come between any two.  What a   *)
(* line says is left out; the message has been formatted before.           *)
(***************************************************************************)
EXTENDS Naturals, Sequences, FiniteSets

CONSTANTS
    Threads,
    MaxLines,      \* calls of print() considered
    MaxTime        \* ticks of the clock considered

ASSUME LogAssumption == IsFiniteSet(Threads) /\ MaxLines \in Nat /\ MaxTime \in Nat

VARIABLES
    clock,         \* CLOCK_MONOTONIC, in milliseconds
    origin,        \* g_clock_origin_ms, guarded by g_clock_once
    once,          \* has g_clock_once run?
    sequence,      \* g_sequence
    calls,         \* print() calls begun
    at,            \* where each thread stands in print()
    mine,          \* the time and the number each thread has taken
    written        \* the lines in the order in which logcat has them

logVars == <<clock, origin, once, sequence, calls, at, mine, written>>

(* before: how many lines were written when the call began. *)
Lines == [time : Nat, number : Nat, before : Nat]
Nothing == [time |-> 0, number |-> 0, before |-> 0]

LogInit ==
    /\ clock \in 0..MaxTime /\ origin = 0 /\ once = FALSE
    /\ sequence = 0 /\ calls = 0
    /\ at = [t \in Threads |-> "out"]
    /\ mine = [t \in Threads |-> Nothing]
    /\ written = <<>>

ClockTick ==
    /\ clock < MaxTime
    /\ clock' = clock + 1
    /\ UNCHANGED <<origin, once, sequence, calls, at, mine, written>>

Goto(t, from, to) == at[t] = from /\ at' = [at EXCEPT ![t] = to]

(* A thread calls print(). *)
Call(t) ==
    /\ calls < MaxLines
    /\ Goto(t, "out", "once")
    /\ calls' = calls + 1
    /\ mine' = [mine EXCEPT ![t] = [Nothing EXCEPT !.before = Len(written)]]
    /\ UNCHANGED <<clock, origin, once, sequence, written>>

(* Mutant: the origin is taken anew by every call. *)
OnceAgain(t) ==
    /\ Goto(t, "once", "stamp")
    /\ once' = TRUE
    /\ origin' = clock
    /\ UNCHANGED <<clock, sequence, calls, mine, written>>

(* pthread_once: the first caller takes the origin, others find it. *)
Once(t) ==
    /\ Goto(t, "once", "stamp")
    /\ once' = TRUE
    /\ origin' = IF once THEN origin ELSE clock
    /\ UNCHANGED <<clock, sequence, calls, mine, written>>

Stamp(t) ==
    /\ Goto(t, "stamp", "number")
    /\ mine' = [mine EXCEPT ![t].time = IF clock >= origin THEN clock - origin ELSE 0]
    /\ UNCHANGED <<clock, origin, once, sequence, calls, written>>

(* Mutant: a load and a store in the place of fetch_add: the number is not
   taken away from others. *)
NumberOnly(t) ==
    /\ Goto(t, "number", "write")
    /\ mine' = [mine EXCEPT ![t].number = sequence + 1]
    /\ sequence' \in {sequence, sequence + 1}
    /\ UNCHANGED <<clock, origin, once, calls, written>>

(* Mutant: a call takes a second number that no line carries. *)
NumberTwice(t) ==
    /\ Goto(t, "number", "write")
    /\ sequence' = sequence + 2
    /\ mine' = [mine EXCEPT ![t].number = sequence + 1]
    /\ UNCHANGED <<clock, origin, once, calls, written>>

Number(t) ==
    /\ Goto(t, "number", "write")
    /\ sequence' = sequence + 1
    /\ mine' = [mine EXCEPT ![t].number = sequence + 1]
    /\ UNCHANGED <<clock, origin, once, calls, written>>

Write(t) ==
    /\ Goto(t, "write", "out")
    /\ written' = Append(written, mine[t])
    /\ UNCHANGED <<clock, origin, once, sequence, calls, mine>>

LogNext ==
    \/ ClockTick
    \/ \E t \in Threads : Call(t) \/ Once(t) \/ Stamp(t) \/ Number(t) \/ Write(t)

LogSpec == LogInit /\ [][LogNext]_logVars

Quiet == \A t \in Threads : at[t] = "out"

-----------------------------------------------------------------------------
(* Properties.                                                             *)

(* Numbers and times may disagree, with each other and with the order in
   logcat, only for calls that overlapped: a line that was there when another
   call began has a smaller number and no later time. *)
OverlapOnly ==
    \A n \in 1..Len(written) : \A m \in 1..written[n].before :
        /\ written[m].number < written[n].number
        /\ written[m].time <= written[n].time
=============================================================================
