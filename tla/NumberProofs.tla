------------------------------ MODULE NumberProofs ------------------------------
(***************************************************************************)
(* Theorems about the numbers of a log in Diagnostics, for any number of   *)
(* threads and lines: none is lost or given twice, from fetch_add to the   *)
(* annotated file, and a line overtakes only lines that are held.          *)
(***************************************************************************)
EXTENDS DiagnosticsProofs, FiniteSetTheorems

NumbersOf(lines) == {lines[n].number : n \in 1..Len(lines)}

(* The threads that hold a number no line carries yet, and those numbers. *)
Held == {t \in Threads : at[t] = "write"}
HeldNumbers == {mine[t].number : t \in Held}

(* The numbers given are 1, 2, ..., each carried by a line or held by a thread
   that is about to write it. *)
Numbered ==
    /\ sequence = Len(written) + Cardinality(Held)
    /\ NumbersOf(written) \cup HeldNumbers = 1..sequence

NumberInv == (stage \in {"text", "log"} => Numbered) /\ FewOvertaken

LEMMA HeldFinite ==
    /\ IsFiniteSet(Held) /\ IsFiniteSet(Threads)
    /\ Cardinality(Held) \in Nat /\ Cardinality(Threads) \in Nat
    /\ Cardinality(Held) <= Cardinality(Threads)
<1>1. Held \subseteq Threads
  BY DEF Held
<1>. QED  BY <1>1, LogAssumption, FS_Subset, FS_CardinalityType

(* No more numbers are held than there are threads that hold one. *)
HeldFew ==
    IsFiniteSet(Held)
        => IsFiniteSet(HeldNumbers) /\ Cardinality(HeldNumbers) <= Cardinality(Held)

LEMMA NumbersFew == HeldFew
<1>. SUFFICES ASSUME IsFiniteSet(Held)
              PROVE  /\ IsFiniteSet(HeldNumbers)
                     /\ Cardinality(HeldNumbers) <= Cardinality(Held)
  BY DEF HeldFew
<1>. DEFINE number == [t \in Held |-> mine[t].number]
<1>1. \A t \in Held : number[t] = mine[t].number
  OBVIOUS
<1>2. number \in [Held -> HeldNumbers]
  <2>1. \A t \in Held : mine[t].number \in HeldNumbers
    BY Zenon DEF HeldNumbers
  <2>. QED  BY <2>1
<1>3. \A m \in HeldNumbers : \E t \in Held : number[t] = m
  BY <1>1, Zenon DEF HeldNumbers
<1>. HIDE DEF number
<1>4. number \in Surjection(Held, HeldNumbers)
  BY <1>2, <1>3, Zenon DEF Surjection
<1>. QED  BY <1>4, FS_Surjection

LEMMA NumbersFewNext == HeldFew'
BY NumbersFew, PTL

LEMMA NumbersAppend ==
    ASSUME NEW S, NEW lines \in Seq(S), NEW line \in S
    PROVE  NumbersOf(Append(lines, line)) = NumbersOf(lines) \cup {line.number}
<1>. DEFINE longer == Append(lines, line)
<1>1. /\ Len(longer) = Len(lines) + 1 /\ Len(lines) \in Nat
      /\ \A n \in 1..Len(lines) : longer[n] = lines[n]
      /\ longer[Len(lines) + 1] = line
  BY AppendProperties
<1>2. 1..Len(longer) = 1..Len(lines) \cup {Len(lines) + 1}
  BY <1>1
<1>. HIDE DEF longer
<1>3. ASSUME NEW v PROVE v \in NumbersOf(longer) <=> v \in NumbersOf(lines) \cup {line.number}
  <2>1. v \in NumbersOf(longer) <=> \E n \in 1..Len(longer) : v = longer[n].number
    BY DEF NumbersOf
  <2>2. v \in NumbersOf(lines) <=> \E n \in 1..Len(lines) : v = lines[n].number
    BY DEF NumbersOf
  <2>3. ASSUME v \in NumbersOf(longer) PROVE v \in NumbersOf(lines) \cup {line.number}
    <3>1. PICK n \in 1..Len(longer) : v = longer[n].number
      BY <2>1, <2>3
    <3>2. CASE n \in 1..Len(lines)
      BY <1>1, <2>2, <3>1, <3>2
    <3>3. CASE n = Len(lines) + 1
      BY <1>1, <3>1, <3>3
    <3>. QED  BY <1>2, <3>2, <3>3
  <2>4. ASSUME v \in NumbersOf(lines) PROVE v \in NumbersOf(longer)
    <3>1. PICK n \in 1..Len(lines) : v = lines[n].number
      BY <2>2, <2>4
    <3>2. n \in 1..Len(longer) /\ longer[n] = lines[n]
      BY <1>1, <1>2
    <3>. QED  BY <2>1, <3>1, <3>2
  <2>5. line.number \in NumbersOf(longer)
    <3>1. Len(lines) + 1 \in 1..Len(longer)
      BY <1>2
    <3>2. longer[Len(lines) + 1].number \in NumbersOf(longer)
      BY <3>1 DEF NumbersOf
    <3>. QED  BY <1>1, <3>2
  <2>. QED  BY <2>3, <2>4, <2>5
<1>4. NumbersOf(longer) = NumbersOf(lines) \cup {line.number}
  BY <1>3
<1>. QED  BY <1>4 DEF longer

LEMMA NumberStarts == DiagnosticsInit => NumberInv
<1>. SUFFICES ASSUME DiagnosticsInit PROVE NumberInv
  OBVIOUS
<1>1. written = <<>> /\ sequence = 0 /\ Held = {}
  BY DEF DiagnosticsInit, LogInit, Held
<1>2. Cardinality(Held) = 0
  BY <1>1, FS_EmptySet
<1>3. NumbersOf(written) = {} /\ HeldNumbers = {}
  BY <1>1 DEF NumbersOf, HeldNumbers
<1>. QED  BY <1>1, <1>2, <1>3 DEF NumberInv, Numbered, FewOvertaken

(* A step that gives no number and writes no line. *)
LEMMA NumberKeeps ==
    ASSUME Numbered, UNCHANGED <<sequence, written>>, Held' = Held,
           \A t \in Held : mine'[t].number = mine[t].number
    PROVE  Numbered'
<1>1. HeldNumbers' = HeldNumbers
  BY Zenon DEF HeldNumbers
<1>2. NumbersOf(written)' = NumbersOf(written)
  BY DEF NumbersOf
<1>3. Cardinality(Held)' = Cardinality(Held) /\ Len(written)' = Len(written)
  OBVIOUS
<1>. QED  BY <1>1, <1>2, <1>3, Zenon DEF Numbered

LEMMA NumberInductive ==
    ASSUME LogInv, LogInv', Numbered, FewOvertaken, LogNext
    PROVE  Numbered' /\ FewOvertaken'
<1>0. /\ \A t \in Threads : mine[t] \in Lines
      /\ Len(written) \in Nat /\ sequence \in Nat
      /\ at \in [Threads -> {"out", "once", "stamp", "number", "write"}]
      /\ mine \in [Threads -> Lines] /\ written \in Seq(Lines)
  BY DEF LogInv, LogTyped
<1>1. ASSUME UNCHANGED written PROVE FewOvertaken'
  BY <1>1 DEF FewOvertaken
<1>2. CASE ClockTick
  BY <1>1, <1>2, NumberKeeps DEF ClockTick, Held
<1>3. ASSUME NEW t \in Threads, Call(t) \/ Once(t) \/ Stamp(t)
      PROVE  Numbered' /\ FewOvertaken'
  <2>1. /\ UNCHANGED <<sequence, written>>
        /\ at[t] # "write" /\ at'[t] # "write"
        /\ \A u \in Threads \ {t} : at'[u] = at[u] /\ mine'[u] = mine[u]
    BY <1>0, <1>3 DEF Call, Once, Stamp, Goto
  <2>2. Held' = Held /\ t \notin Held
    BY <2>1 DEF Held
  <2>3. \A u \in Held : u \in Threads \ {t}
    BY <2>2 DEF Held
  <2>. QED  BY <1>1, <2>1, <2>2, <2>3, NumberKeeps
<1>4. ASSUME NEW t \in Threads, Number(t) PROVE Numbered' /\ FewOvertaken'
  <2>1. /\ at[t] = "number" /\ at' = [at EXCEPT ![t] = "write"]
        /\ sequence' = sequence + 1 /\ UNCHANGED written
        /\ mine' = [mine EXCEPT ![t].number = sequence + 1]
    BY <1>4 DEF Number, Goto
  <2>2. Held' = Held \cup {t} /\ t \notin Held
    BY <1>0, <2>1 DEF Held
  <2>3. /\ mine'[t].number = sequence + 1
        /\ \A u \in Held : mine'[u].number = mine[u].number
    <3>1. mine[t] \in Lines /\ sequence + 1 \in Nat
      BY <1>0
    <3>2. [mine[t] EXCEPT !.number = sequence + 1].number = sequence + 1
      BY <3>1, LineFields
    <3>3. mine'[t] = [mine[t] EXCEPT !.number = sequence + 1]
      BY <1>0, <2>1
    <3>4. \A u \in Threads \ {t} : mine'[u] = mine[u]
      BY <1>0, <2>1
    <3>. QED  BY <2>2, <3>2, <3>3, <3>4 DEF Held
  <2>4. HeldNumbers' = HeldNumbers \cup {sequence + 1}
    BY <2>2, <2>3, Zenon DEF HeldNumbers
  <2>5. Cardinality(Held') = Cardinality(Held) + 1
    BY <2>2, HeldFinite, FS_AddElement
  <2>6. 1..(sequence + 1) = 1..sequence \cup {sequence + 1}
    BY <1>0
  <2>7. NumbersOf(written)' = NumbersOf(written)
    BY <2>1 DEF NumbersOf
  <2>8. sequence' = Len(written)' + Cardinality(Held)'
    BY <1>0, <2>1, <2>5, HeldFinite DEF Numbered
  <2>9. NumbersOf(written)' \cup HeldNumbers' = 1..sequence'
    BY <2>1, <2>4, <2>6, <2>7, Zenon DEF Numbered
  <2>. QED  BY <1>1, <2>1, <2>8, <2>9 DEF Numbered
<1>5. ASSUME NEW t \in Threads, Write(t) PROVE Numbered' /\ FewOvertaken'
  <2>1. /\ at[t] = "write" /\ at' = [at EXCEPT ![t] = "out"]
        /\ written' = Append(written, mine[t])
        /\ UNCHANGED <<sequence, mine>>
    BY <1>5 DEF Write, Goto
  <2>2. Held' = Held \ {t} /\ t \in Held
    BY <1>0, <2>1 DEF Held
  <2>3. HeldNumbers = HeldNumbers' \cup {mine[t].number}
    BY <2>1, <2>2, Zenon DEF HeldNumbers
  <2>4. NumbersOf(written)' = NumbersOf(written) \cup {mine[t].number}
    BY <1>0, <2>1, NumbersAppend
  <2>5. Cardinality(Held') = Cardinality(Held) - 1
    BY <2>2, HeldFinite, FS_RemoveElement
  <2>6. /\ Len(written') = Len(written) + 1
        /\ \A n \in 1..Len(written) : written'[n] = written[n]
        /\ written'[Len(written) + 1] = mine[t]
    BY <1>0, <2>1, AppendProperties
  <2>7. sequence' = Len(written)' + Cardinality(Held)'
    BY <1>0, <2>1, <2>5, <2>6, HeldFinite DEF Numbered
  <2>8. NumbersOf(written)' \cup HeldNumbers' = 1..sequence'
    BY <2>1, <2>3, <2>4, Zenon DEF Numbered
  <2>9. Cardinality((1..mine[t].number) \ NumbersOf(written)') < Cardinality(Threads)
    <3>. DEFINE missing == (1..mine[t].number) \ NumbersOf(written)'
    <3>1. mine[t].number <= sequence /\ mine[t].number \in Nat
      BY <1>0, <2>1, LineTyped DEF LogInv, HeldAfter
    <3>2. 1..mine[t].number \subseteq 1..sequence
      BY <1>0, <3>1
    <3>3. missing \subseteq HeldNumbers'
      BY <2>1, <2>8, <3>2
    <3>4. /\ IsFiniteSet(Held') /\ Cardinality(Held') < Cardinality(Threads)
          /\ Cardinality(Held') \in Nat
      BY <2>2, <2>5, HeldFinite, FS_Subset, FS_CardinalityType
    <3>5. IsFiniteSet(HeldNumbers') /\ Cardinality(HeldNumbers') <= Cardinality(Held')
      BY <3>4, NumbersFewNext DEF HeldFew
    <3>. HIDE DEF missing
    <3>6. IsFiniteSet(missing) /\ Cardinality(missing) <= Cardinality(HeldNumbers')
      BY <3>3, <3>5, FS_Subset
    <3>7. Cardinality(missing) \in Nat /\ Cardinality(HeldNumbers') \in Nat
      BY <3>5, <3>6, FS_CardinalityType
    <3>. QED  BY <3>4, <3>5, <3>6, <3>7, HeldFinite DEF missing
  <2>10. FewOvertaken'
    <3>1. SUFFICES ASSUME NEW n \in 1..Len(written')
                   PROVE  Cardinality((1..written'[n].number)
                              \ {written'[m].number : m \in 1..n}) < Cardinality(Threads)
      BY Zenon DEF FewOvertaken
    <3>2. CASE n \in 1..Len(written)
      <4>1. \A m \in 1..n : written'[m] = written[m]
        BY <1>0, <2>6, <3>2
      <4>2. {written'[m].number : m \in 1..n} = {written[m].number : m \in 1..n}
        BY <4>1, Zenon
      <4>3. written'[n].number = written[n].number
        BY <2>6, <3>2
      <4>4. Cardinality((1..written[n].number) \ {written[m].number : m \in 1..n})
                < Cardinality(Threads)
        BY <3>2, Zenon DEF FewOvertaken
      <4>. QED  BY <4>2, <4>3, <4>4
    <3>3. CASE n = Len(written) + 1
      <4>1. {written'[m].number : m \in 1..n} = NumbersOf(written)'
        BY <2>6, <3>3, Zenon DEF NumbersOf
      <4>2. written'[n] = mine[t]
        BY <2>6, <3>3
      <4>. QED  BY <2>9, <4>1, <4>2, Zenon
    <3>. QED  BY <1>0, <2>6, <3>2, <3>3
  <2>. QED  BY <2>7, <2>8, <2>10 DEF Numbered
<1>. QED  BY <1>2, <1>3, <1>4, <1>5 DEF LogNext

LEMMA PathNumber ==
    LogInv /\ LogInv' /\ NumberInv /\ [DiagnosticsNext]_pathVars => NumberInv'
<1>. SUFFICES ASSUME LogInv, LogInv', NumberInv, [DiagnosticsNext]_pathVars
              PROVE  NumberInv'
  OBVIOUS
<1>1. ASSUME UNCHANGED logVars, stage' \in {"text", "log"} => stage \in {"text", "log"}
      PROVE  NumberInv'
  <2>1. FewOvertaken'
    BY <1>1 DEF logVars, NumberInv, FewOvertaken
  <2>2. Numbered => Numbered'
    BY <1>1, NumberKeeps DEF logVars, Held
  <2>. QED  BY <1>1, <2>1, <2>2, Zenon DEF NumberInv
<1>2. CASE PrintLines
  BY <1>2, NumberInductive DEF PrintLines, NumberInv
<1>3. CASE Save
  BY <1>3 DEF Save, NumberInv, FewOvertaken
<1>4. CASE UNCHANGED pathVars
  BY <1>1, <1>4 DEF pathVars
<1>. QED
  BY <1>1, <1>2, <1>3, <1>4 DEF DiagnosticsNext, Convert, Formatted, ReadDump, BuildIndex,
     OpenLog, Annotate, RunAgain, AnnotateAgain

LEMMA AlwaysNumbered == DiagnosticsSpec => []NumberInv
BY AlwaysLogged, NumberStarts, PathNumber, PTL DEF DiagnosticsSpec

(* However many threads print, when a line is written fewer lower numbers are
   missing above it than there are threads: where a reader of the log finds
   more of them missing, lines are lost. *)
THEOREM FewAreOvertaken == DiagnosticsSpec => []FewOvertaken
<1>1. NumberInv => FewOvertaken
  BY DEF NumberInv
<1>. QED  BY <1>1, AlwaysNumbered, PTL

-----------------------------------------------------------------------------
(* The saved log.                                                          *)

SavedInv ==
    stage \notin {"text", "log"} =>
        /\ written = <<>> /\ Quiet
        /\ NumbersOf(output) \cup NumbersOf(input) = 1..(Len(output) + Len(input))

(* symbolize_line moves a line and keeps its number. *)
LEMMA LineMoved ==
    ASSUME NotesInv, SavedInv, stage \notin {"text", "log"}, symbolize_line,
           UNCHANGED <<logVars, stage>>
    PROVE  SavedInv'
<1>. DEFINE line == Head(input)
            note == IF line.site = Absent \/ annotated(line.notes) THEN Absent
                    ELSE resolve_rva(line.site)
            given == IF note = Absent THEN line
                     ELSE [line EXCEPT !.notes = Append(line.notes, note)]
<1>1. input # <<>> /\ input' = Tail(input) /\ output' = Append(output, given)
  BY DEF symbolize_line
<1>2. input \in Seq(LogLines) /\ output \in Seq(LogLines)
  BY DEF NotesInv, DumpTyped
<1>3. line \in LogLines /\ line = input[1]
  BY <1>1, <1>2
<1>4. given.number = line.number
  BY <1>3 DEF LogLines
<1>. HIDE DEF given, note, line
<1>5. /\ Len(input') = Len(input) - 1 /\ Len(input) \in Nat \ {0}
      /\ \A n \in 1..Len(input') : input'[n] = input[n + 1]
  BY <1>1, <1>2
<1>6. NumbersOf(input) = NumbersOf(input)' \cup {line.number}
  <2>1. ASSUME NEW n \in 1..Len(input)
        PROVE  input[n].number \in NumbersOf(input)' \cup {line.number}
    <3>1. CASE n = 1
      BY <1>3, <3>1
    <3>2. CASE n # 1
      <4>1. n - 1 \in 1..Len(input') /\ input'[n - 1] = input[n]
        BY <1>5, <3>2
      <4>. QED  BY <4>1, Zenon DEF NumbersOf
    <3>. QED  BY <3>1, <3>2
  <2>2. ASSUME NEW n \in 1..Len(input') PROVE input'[n].number \in NumbersOf(input)
    <3>1. n + 1 \in 1..Len(input) /\ input'[n] = input[n + 1]
      BY <1>5
    <3>. QED  BY <3>1, Zenon DEF NumbersOf
  <2>3. line.number \in NumbersOf(input)
    <3>1. 1 \in 1..Len(input)
      BY <1>5
    <3>. QED  BY <1>3, <3>1, Zenon DEF NumbersOf
  <2>. QED  BY <2>1, <2>2, <2>3, Zenon DEF NumbersOf
<1>7. /\ Len(output') = Len(output) + 1 /\ Len(output) \in Nat
      /\ \A n \in 1..Len(output) : output'[n] = output[n]
      /\ output'[Len(output) + 1] = given
  BY <1>1, <1>2
<1>8. NumbersOf(output)' = NumbersOf(output) \cup {line.number}
  <2>1. 1..Len(output') = 1..Len(output) \cup {Len(output) + 1}
    BY <1>7
  <2>. QED  BY <1>4, <1>7, <2>1, Zenon DEF NumbersOf
<1>9. Len(output') + Len(input') = Len(output) + Len(input)
  BY <1>5, <1>7
<1>10. NumbersOf(output)' \cup NumbersOf(input)' = 1..(Len(output') + Len(input'))
  BY <1>6, <1>8, <1>9, Zenon DEF SavedInv
<1>11. written' = <<>> /\ Quiet'
  BY DEF SavedInv, logVars, Quiet
<1>. QED  BY <1>10, <1>11, Zenon DEF SavedInv

LEMMA PathSaved ==
    ASSUME DumpFits, LogInv, NumberInv, NotesInv, SavedInv, [DiagnosticsNext]_pathVars
    PROVE  SavedInv'
<1>1. ASSUME UNCHANGED <<logVars, input, output>>,
             stage' \notin {"text", "log"} => stage \notin {"text", "log"}
      PROVE  SavedInv'
  BY <1>1 DEF SavedInv, logVars, Quiet, NumbersOf
<1>2. CASE PrintLines \/ Formatted
  BY <1>2 DEF PrintLines, Formatted, SavedInv
<1>3. CASE Save
  <2>1. written \in Seq(Lines) /\ Len(written) \in Nat /\ DOMAIN written = 1..Len(written)
    BY DEF LogInv, LogTyped
  <2>2. Held = {} /\ HeldNumbers = {}
    BY <1>3 DEF Save, Quiet, Held, HeldNumbers
  <2>3. NumbersOf(written) = 1..Len(written)
    BY <1>3, <2>1, <2>2, FS_EmptySet DEF Save, NumberInv, Numbered
  <2>4. output' = <<>> /\ written' = <<>> /\ Quiet'
    BY <1>3 DEF Save, NotesInv, Quiet
  <2>5. input' = [n \in 1..Len(written) |->
                     [number |-> written[n].number, site |-> Absent, notes |-> <<>>]]
    BY <1>3, <2>1 DEF Save
  <2>6. /\ Len(input') = Len(written)
        /\ \A n \in 1..Len(written) : input'[n].number = written[n].number
    <3>1. input' \in Seq(LogLines) /\ DOMAIN input' = 1..Len(written)
      BY <1>3, <2>5, Saved DEF LogInv
    <3>. QED  BY <2>1, <2>5, <3>1
  <2>7. NumbersOf(input)' = 1..Len(input')
    BY <2>3, <2>6, Zenon DEF NumbersOf
  <2>8. NumbersOf(output)' = {} /\ Len(output') + Len(input') = Len(input')
    BY <2>1, <2>4, <2>6 DEF NumbersOf
  <2>. QED  BY <2>4, <2>7, <2>8 DEF SavedInv
<1>4. CASE ReadDump
  BY <1>1, <1>4 DEF ReadDump, parse_dump, Namespace, Type, Rva, Method, Comment, Blank, Line
<1>5. CASE BuildIndex
  BY <1>1, <1>5 DEF BuildIndex
<1>6. CASE OpenLog
  <2>1. stage = "index" /\ UNCHANGED <<logVars, output>>
    BY <1>6 DEF OpenLog
  <2>2. Len(input') = Len(input) /\ \A n \in 1..Len(input) : input'[n].number = input[n].number
    BY <1>6, Opened DEF OpenLog, NotesInv
  <2>3. NumbersOf(input)' = NumbersOf(input)
    BY <2>2, Zenon DEF NumbersOf
  <2>4. NumbersOf(output)' = NumbersOf(output)
    BY <2>1 DEF NumbersOf
  <2>. QED  BY <2>1, <2>2, <2>3, <2>4 DEF SavedInv, logVars, Quiet
<1>7. CASE Annotate \/ AnnotateAgain
  BY <1>7, LineMoved DEF Annotate, AnnotateAgain
<1>8. CASE RunAgain
  <2>1. /\ stage \notin {"text", "log"} /\ input = <<>> /\ input' = output
        /\ output' = <<>> /\ UNCHANGED logVars
    BY <1>8 DEF RunAgain
  <2>2. Len(output) \in Nat
    BY DEF NotesInv, DumpTyped
  <2>3. NumbersOf(input) = {} /\ NumbersOf(output)' = {} /\ NumbersOf(input)' = NumbersOf(output)
    BY <2>1 DEF NumbersOf
  <2>4. Len(output') + Len(input') = Len(output) + Len(input)
    BY <2>1, <2>2
  <2>. QED  BY <2>1, <2>3, <2>4 DEF SavedInv, logVars, Quiet
<1>9. CASE Convert \/ UNCHANGED pathVars
  BY <1>1, <1>9 DEF Convert, pathVars, symbolVars
<1>. QED
  BY <1>2, <1>3, <1>4, <1>5, <1>6, <1>7, <1>8, <1>9 DEF DiagnosticsNext

LEMMA AlwaysSaved == ASSUME DumpFits PROVE DiagnosticsSpec => []SavedInv
<1>1. DiagnosticsInit => SavedInv
  BY DEF DiagnosticsInit, SavedInv
<1>2. DumpFits /\ LogInv /\ NumberInv /\ NotesInv /\ SavedInv /\ [DiagnosticsNext]_pathVars
          => SavedInv'
  BY PathSaved
<1>. QED  BY <1>1, <1>2, AlwaysLogged, AlwaysNumbered, AlwaysNoted, PTL DEF DiagnosticsSpec

(* The lines on the way, in the order of NumbersComplete. *)
LEMMA NumbersAll ==
    ASSUME LogInv, NotesInv, NumberInv, SavedInv PROVE NumbersComplete
<1>. DEFINE lines == written \o output \o input
<1>1. SUFFICES ASSUME Quiet
               PROVE  {lines[n].number : n \in DOMAIN lines} = 1..Len(lines)
  BY DEF NumbersComplete
<1>2. /\ written \in Seq(Lines) /\ output \in Seq(LogLines) /\ input \in Seq(LogLines)
      /\ Len(written) \in Nat /\ Len(output) \in Nat /\ Len(input) \in Nat
  BY DEF LogInv, LogTyped, NotesInv, DumpTyped
<1>3. CASE stage \in {"text", "log"}
  <2>1. output = <<>> /\ input = <<>>
    BY <1>3 DEF NotesInv
  <2>2. lines = written
    BY <1>2, <2>1
  <2>3. Held = {} /\ HeldNumbers = {}
    BY <1>1 DEF Quiet, Held, HeldNumbers
  <2>4. NumbersOf(written) = 1..Len(written)
    BY <1>2, <1>3, <2>3, FS_EmptySet DEF NumberInv, Numbered
  <2>5. DOMAIN written = 1..Len(written)
    BY <1>2
  <2>. QED  BY <2>2, <2>4, <2>5 DEF NumbersOf
<1>4. CASE stage \notin {"text", "log"}
  <2>1. written = <<>>
    BY <1>4 DEF SavedInv
  <2>2. lines = output \o input
    BY <1>2, <2>1
  <2>3. /\ Len(lines) = Len(output) + Len(input) /\ DOMAIN lines = 1..Len(lines)
        /\ \A n \in 1..Len(output) : lines[n] = output[n]
        /\ \A n \in 1..Len(input) : lines[Len(output) + n] = input[n]
    BY <1>2, <2>2
  <2>. HIDE DEF lines
  <2>4. ASSUME NEW n \in 1..Len(lines)
        PROVE  lines[n].number \in NumbersOf(output) \cup NumbersOf(input)
    <3>1. CASE n \in 1..Len(output)
      BY <2>3, <3>1, Zenon DEF NumbersOf
    <3>2. CASE n \notin 1..Len(output)
      <4>1. n - Len(output) \in 1..Len(input) /\ n = Len(output) + (n - Len(output))
        BY <1>2, <2>3, <3>2
      <4>2. lines[n] = input[n - Len(output)]
        BY <2>3, <4>1
      <4>. QED  BY <4>1, <4>2, Zenon DEF NumbersOf
    <3>. QED  BY <3>1, <3>2
  <2>5. ASSUME NEW n \in 1..Len(output)
        PROVE  output[n].number \in NumbersOf(lines)
    <3>1. n \in 1..Len(lines)
      BY <1>2, <2>3
    <3>. QED  BY <2>3, <3>1, Zenon DEF NumbersOf
  <2>6. ASSUME NEW n \in 1..Len(input)
        PROVE  input[n].number \in NumbersOf(lines)
    <3>1. Len(output) + n \in 1..Len(lines)
      BY <1>2, <2>3
    <3>. QED  BY <2>3, <3>1, Zenon DEF NumbersOf
  <2>7. NumbersOf(lines) = NumbersOf(output) \cup NumbersOf(input)
    BY <2>4, <2>5, <2>6, Zenon DEF NumbersOf
  <2>. QED  BY <1>4, <2>3, <2>7, Zenon DEF SavedInv, NumbersOf
<1>. QED  BY <1>3, <1>4

(* No number is lost or given twice from fetch_add to the annotated file, however
   many threads print and however often the log is annotated. *)
THEOREM NumbersAreComplete ==
    ASSUME DumpFits PROVE DiagnosticsSpec => []NumbersComplete
BY AlwaysLogged, AlwaysNoted, AlwaysNumbered, AlwaysSaved, NumbersAll, PTL

(* Numbers that fill 1, 2, ... up to their count are all different. *)
LEMMA FullIsDistinct ==
    ASSUME NEW lines, Len(lines) \in Nat, NumbersOf(lines) = 1..Len(lines)
    PROVE  \A m, n \in 1..Len(lines) : lines[m].number = lines[n].number => m = n
<1>. DEFINE places == 1..Len(lines)
            number == [n \in places |-> lines[n].number]
<1>1. \A n \in places : number[n] = lines[n].number
  OBVIOUS
<1>2. number \in [places -> places]
  <2>1. \A n \in places : lines[n].number \in places
    BY Zenon DEF NumbersOf
  <2>. QED  BY <2>1
<1>3. \A m \in places : \E n \in places : number[n] = m
  BY <1>1, Zenon DEF NumbersOf
<1>4. IsFiniteSet(places)
  BY FS_Interval
<1>. HIDE DEF number, places
<1>5. number \in Surjection(places, places)
  BY <1>2, <1>3, Zenon DEF Surjection
<1>6. number \in Injection(places, places)
  BY <1>4, <1>5, FS_SurjSameCardinalityImpliesInj
<1>7. \A m, n \in places : number[m] = number[n] => m = n
  BY <1>2, <1>6 DEF Injection, IsInjective
<1>. QED  BY <1>1, <1>7 DEF places

(* In the log and in the annotated file no two lines carry the same number. *)
THEOREM NumbersAreDistinct ==
    ASSUME DumpFits
    PROVE  DiagnosticsSpec =>
               [](Quiet => LET lines == written \o output \o input
                           IN  \A m, n \in DOMAIN lines :
                                   lines[m].number = lines[n].number => m = n)
<1>1. ASSUME LogInv, NotesInv, NumbersComplete, Quiet
      PROVE  \A m, n \in DOMAIN (written \o output \o input) :
                 (written \o output \o input)[m].number
                     = (written \o output \o input)[n].number => m = n
  <2>. DEFINE lines == written \o output \o input
  <2>1. Len(lines) \in Nat /\ DOMAIN lines = 1..Len(lines)
    <3>1. /\ written \in Seq(Lines) /\ output \in Seq(LogLines) /\ input \in Seq(LogLines)
      BY <1>1 DEF LogInv, LogTyped, NotesInv, DumpTyped
    <3>. QED  BY <3>1
  <2>2. {lines[n].number : n \in DOMAIN lines} = 1..Len(lines)
    BY <1>1, Zenon DEF NumbersComplete
  <2>. HIDE DEF lines
  <2>3. \A m, n \in DOMAIN lines : lines[m].number = lines[n].number => m = n
    BY <2>1, <2>2, FullIsDistinct DEF NumbersOf
  <2>. QED  BY <2>3 DEF lines
<1>2. LogInv /\ NotesInv /\ NumbersComplete
          => (Quiet => LET lines == written \o output \o input
                       IN  \A m, n \in DOMAIN lines :
                               lines[m].number = lines[n].number => m = n)
  BY <1>1, Zenon
<1>. QED  BY <1>2, AlwaysLogged, AlwaysNoted, NumbersAreComplete, PTL
=============================================================================
