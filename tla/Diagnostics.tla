------------------------------ MODULE Diagnostics ------------------------------
(***************************************************************************)
(* The way of a traced call to a reader: its strings are converted         *)
(* (Utf16), several threads print lines (LogStream), and the log is        *)
(* annotated against a dump (Symbolizer), and then annotated again.        *)
(***************************************************************************)
EXTENDS Utf16, LogStream, Symbolizer

VARIABLE
    stage        \* "text", "log", "dump", "index", "annotate" or "again"

pathVars == <<textVars, logVars, symbolVars, stage>>

Sites == Addresses \cup {a + 1 : a \in Addresses} \cup {0}

DiagnosticsInit ==
    /\ TextInit /\ LogInit /\ SymbolInit
    /\ stage = "text"

Convert ==
    /\ stage = "text" /\ TextNext
    /\ UNCHANGED <<logVars, symbolVars, stage>>

(* What the string was no longer matters. *)
Formatted ==
    /\ stage = "text" /\ TextDone
    /\ stage' = "log"
    /\ chars' = <<>> /\ limit' = 0 /\ k' = 1 /\ result' = <<>>
    /\ UNCHANGED <<logVars, symbolVars>>

PrintLines ==
    /\ stage = "log" /\ LogNext
    /\ UNCHANGED <<textVars, symbolVars, stage>>

(* The log is saved: of its lines the numbers matter from now on. *)
Save ==
    /\ stage = "log" /\ Quiet
    /\ stage' = "dump"
    /\ input' = [n \in DOMAIN written |->
           [number |-> written[n].number, site |-> Absent, notes |-> <<>>]]
    /\ clock' = 0 /\ origin' = 0 /\ once' = FALSE
    /\ sequence' = 0 /\ calls' = 0 /\ written' = <<>>
    /\ at' = [t \in Threads |-> "out"] /\ mine' = [t \in Threads |-> Nothing]
    /\ UNCHANGED <<textVars, dumpVars, output>>

ReadDump ==
    /\ stage = "dump" /\ parse_dump
    /\ UNCHANGED <<textVars, logVars, stage>>

(* The end of the dump: the index is built. *)
BuildIndex ==
    /\ stage = "dump"
    /\ stage' = "index"
    /\ read' = <<>> /\ namespace' = Absent /\ current_type' = Unknown
    /\ pending_rva' = Absent
    /\ UNCHANGED <<textVars, logVars, methods, input, output>>

(* The log is opened.  A line of it may have any call site in the game's
   library or none; it is chosen here because nothing before depends on it. *)
OpenLog ==
    /\ stage = "index"
    /\ stage' = "annotate"
    /\ \E sites \in [DOMAIN input -> Sites \cup {Absent}] :
           input' = [n \in DOMAIN input |-> [input[n] EXCEPT !.site = sites[n]]]
    /\ UNCHANGED <<textVars, logVars, dumpVars, output>>

Annotate ==
    /\ stage = "annotate" /\ symbolize_line
    /\ UNCHANGED <<textVars, logVars, stage>>

(* The tool is run again on what it has written, with the same dump. *)
RunAgain ==
    /\ stage = "annotate" /\ input = <<>>
    /\ stage' = "again"
    /\ input' = output /\ output' = <<>>
    /\ UNCHANGED <<textVars, logVars, dumpVars>>

AnnotateAgain ==
    /\ stage = "again" /\ symbolize_line
    /\ UNCHANGED <<textVars, logVars, stage>>

DiagnosticsNext ==
    \/ Convert \/ Formatted \/ PrintLines \/ Save \/ ReadDump \/ BuildIndex
    \/ OpenLog \/ Annotate \/ RunAgain \/ AnnotateAgain

DiagnosticsSpec == DiagnosticsInit /\ [][DiagnosticsNext]_pathVars

-----------------------------------------------------------------------------
(* Properties.                                                             *)

(* No number is lost or given twice on the whole way: whenever no thread is
   printing, the lines there are, annotated or not, carry the numbers 1, 2, ...
   up to their count (log.h:65, symbolize_log.py:121). *)
NumbersComplete ==
    LET lines == written \o output \o input
    IN  Quiet => {lines[n].number : n \in DOMAIN lines} = 1..Len(lines)

(* A line overtakes only lines that other threads hold at that moment: when it
   is written, fewer lower numbers are missing above it than there are
   threads.  Where a reader finds more missing, lines are lost (log.h:65, the
   README's "sequence numbers"). *)
FewOvertaken ==
    \A n \in 1..Len(written) :
        LET above == {written[m].number : m \in 1..n}
        IN  Cardinality((1..written[n].number) \ above) < Cardinality(Threads)
=============================================================================
