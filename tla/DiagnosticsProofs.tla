--------------------------- MODULE DiagnosticsProofs ---------------------------
(***************************************************************************)
(* Theorems about Diagnostics, for strings, threads, lines and dumps       *)
(* without bound: what is given up when a string is cut, what the order of *)
(* the lines in a log says, and when a log may be annotated twice.         *)
(***************************************************************************)
EXTENDS Diagnostics, SequenceTheorems, WellFoundedInduction, TLAPS

-----------------------------------------------------------------------------
(* The text.                                                               *)

TextInv ==
    /\ chars \in Seq(Units)
    /\ limit \in 0..Len(chars)
    /\ k \in Nat \ {0}
    /\ result \in Seq(CodePoints)
    /\ k > 1 => result # <<>>
    /\ Utf8ButLast

LEMMA TextStarts == ASSUME MaxUnits \in Nat PROVE TextInit => TextInv
<1>. SUFFICES ASSUME TextInit PROVE TextInv
  OBVIOUS
<1>1. chars \in Seq(Units)
  BY DEF TextInit, BoundedSeq, SeqOf
<1>2. limit \in 0..Len(chars) /\ k = 1 /\ result = <<>>
  BY DEF TextInit
<1>3. ~(TextDone /\ limit > 0)
  BY <1>1, <1>2 DEF TextDone
<1>. QED  BY <1>1, <1>2, <1>3 DEF TextInv, Utf8ButLast

(* Only a high half in the last place read is appended as it stands, and there
   always. *)
LEMMA PushKeeps ==
    ASSUME TextInv, NEW codePoint \in CodePoints, NEW units \in {1, 2}, k <= limit,
           Push(codePoint, units),
           codePoint = "surrogate" => k = limit,
           k + units > limit => (codePoint = "surrogate" <=> chars[limit] = "high")
    PROVE  TextInv'
<1>1. \A n \in DOMAIN result : result[n] # "surrogate"
  BY DEF TextInv, Utf8ButLast, TextDone
<1>2. /\ chars' = chars /\ limit' = limit /\ k' = k + units
      /\ result' = Append(result, codePoint)
  BY DEF Push
<1>3. /\ result' \in Seq(CodePoints)
      /\ Len(result') = Len(result) + 1
      /\ \A n \in 1..Len(result) : result'[n] = result[n]
      /\ result'[Len(result) + 1] = codePoint
  BY <1>2, AppendProperties DEF TextInv
<1>4. k' \in Nat \ {0} /\ result' # <<>>
  BY <1>2, <1>3 DEF TextInv
<1>5. ASSUME NEW n \in DOMAIN result', result'[n] = "surrogate"
      PROVE  n = Len(result') /\ TextDone'
  <2>1. n = Len(result) + 1
    BY <1>1, <1>3, <1>5 DEF TextInv
  <2>2. codePoint = "surrogate"
    BY <1>3, <1>5, <2>1
  <2>3. k + units > limit
    BY <2>2 DEF TextInv
  <2>. QED  BY <1>2, <1>3, <2>1, <2>3 DEF TextDone
<1>6. TextDone' => (Last(result') = "surrogate" <=> chars'[limit'] = "high")
  <2>1. Last(result') = codePoint
    BY <1>3 DEF Last
  <2>. QED  BY <1>2, <2>1 DEF TextDone
<1>. QED  BY <1>2, <1>3, <1>4, <1>5, <1>6 DEF TextInv, Utf8ButLast

LEMMA TextInductive == TextInv /\ TextNext => TextInv'
<1>. SUFFICES ASSUME TextInv, TextNext PROVE TextInv'
  OBVIOUS
<1>1. ASSUME k <= limit PROVE chars[k] \in Units
  BY <1>1 DEF TextInv
<1>2. CASE Pair
  <2>1. /\ k <= limit /\ k + 1 <= limit /\ chars[k + 1] = "low"
        /\ Push("pair", 2)
    BY <1>2 DEF Pair, High
  <2>2. k + 2 > limit => limit = k + 1
    BY <2>1 DEF TextInv
  <2>. QED  BY <2>1, <2>2, PushKeeps DEF CodePoints
<1>3. CASE Unpaired
  <2>1. k <= limit /\ ~(k + 1 > limit) /\ Push("fffd", 1)
    BY <1>3 DEF Unpaired, High, TextInv
  <2>. QED  BY <2>1, PushKeeps DEF CodePoints
<1>4. CASE Low
  <2>1. k <= limit /\ chars[k] = "low" /\ Push("fffd", 1)
    BY <1>4 DEF Low
  <2>2. k + 1 > limit => limit = k
    BY <2>1 DEF TextInv
  <2>. QED  BY <2>1, <2>2, PushKeeps DEF CodePoints
<1>5. CASE Other
  <2>. DEFINE codePoint == IF chars[k] = "high" THEN "surrogate" ELSE chars[k]
  <2>1. k <= limit /\ Push(codePoint, 1) /\ chars[k] # "low" /\ ~High
    BY <1>5 DEF Other
  <2>2. codePoint \in CodePoints
    BY <1>1, <2>1 DEF Units, CodePoints
  <2>3. codePoint = "surrogate" <=> chars[k] = "high"
    BY <1>1, <2>1 DEF Units, Plain
  <2>4. codePoint = "surrogate" => k = limit
    BY <2>1, <2>3 DEF High, TextInv
  <2>5. k + 1 > limit => limit = k
    BY <2>1 DEF TextInv
  <2>. HIDE DEF codePoint
  <2>. QED  BY <2>1, <2>2, <2>3, <2>4, <2>5, PushKeeps
<1>. QED  BY <1>2, <1>3, <1>4, <1>5 DEF TextNext

LEMMA PathText == TextInv /\ [DiagnosticsNext]_pathVars => TextInv'
<1>. SUFFICES ASSUME TextInv, [DiagnosticsNext]_pathVars PROVE TextInv'
  OBVIOUS
<1>1. CASE UNCHANGED textVars
  BY <1>1 DEF textVars, TextInv, Utf8ButLast, TextDone
<1>2. CASE Convert
  BY <1>2, TextInductive DEF Convert
<1>3. CASE Formatted
  BY <1>3 DEF Formatted, TextInv, Utf8ButLast
<1>. QED
  BY <1>1, <1>2, <1>3 DEF DiagnosticsNext, PrintLines, Save, ReadDump, BuildIndex,
     OpenLog, Annotate, RunAgain, AnnotateAgain, pathVars

(* For every string and every limit, what to_utf8 gives is UTF-8 but for its
   last character, and is not UTF-8 there exactly when the last unit read is a
   high half: one cut from its pair, or one with which the string ends. *)
THEOREM TextIsUtf8 == ASSUME MaxUnits \in Nat PROVE DiagnosticsSpec => []Utf8ButLast
<1>1. DiagnosticsInit => TextInv
  BY TextStarts DEF DiagnosticsInit
<1>2. TextInv => Utf8ButLast
  BY DEF TextInv
<1>. QED  BY <1>1, <1>2, PathText, PTL DEF DiagnosticsSpec

-----------------------------------------------------------------------------
(* The log.                                                                *)

LogTyped ==
    /\ clock \in Nat /\ origin \in Nat /\ sequence \in Nat /\ once \in BOOLEAN
    /\ at \in [Threads -> {"out", "once", "stamp", "number", "write"}]
    /\ mine \in [Threads -> Lines]
    /\ written \in Seq(Lines)

(* The lines there are lie before all that will come. *)
LinesPast ==
    \A n \in 1..Len(written) :
        /\ once
        /\ written[n].before < n
        /\ written[n].number <= sequence
        /\ origin + written[n].time <= clock

(* What a thread holds lies after the lines its call has found. *)
HeldAfter ==
    \A t \in Threads :
        /\ at[t] # "out" => mine[t].before <= Len(written)
        /\ at[t] \in {"stamp", "number", "write"} => once
        /\ at[t] \in {"number", "write"} =>
              /\ origin + mine[t].time <= clock
              /\ \A m \in 1..mine[t].before : written[m].time <= mine[t].time
        /\ at[t] = "write" =>
              /\ mine[t].number <= sequence
              /\ \A m \in 1..mine[t].before : written[m].number < mine[t].number

LogInv ==
    /\ LogTyped
    /\ once => origin <= clock
    /\ LinesPast
    /\ HeldAfter
    /\ OverlapOnly

LEMMA NothingTyped == Nothing \in Lines
BY DEF Nothing, Lines

LEMMA LineTyped ==
    ASSUME NEW line \in Lines
    PROVE  line.time \in Nat /\ line.number \in Nat /\ line.before \in Nat
BY DEF Lines

LEMMA LineFields ==
    ASSUME NEW line \in Lines, NEW value \in Nat
    PROVE  /\ [line EXCEPT !.time = value] \in Lines
           /\ [line EXCEPT !.time = value].time = value
           /\ [line EXCEPT !.time = value].before = line.before
           /\ [line EXCEPT !.number = value] \in Lines
           /\ [line EXCEPT !.number = value].time = line.time
           /\ [line EXCEPT !.number = value].before = line.before
           /\ [line EXCEPT !.number = value].number = value
BY DEF Lines

LEMMA LogStarts == LogInit => LogInv
<1>. SUFFICES ASSUME LogInit PROVE LogInv
  OBVIOUS
<1>1. LogTyped
  <2>1. clock \in Nat /\ origin \in Nat /\ sequence \in Nat /\ written \in Seq(Lines)
    BY LogAssumption DEF LogInit
  <2>2. once \in BOOLEAN
    BY Zenon DEF LogInit
  <2>3. /\ at \in [Threads -> {"out", "once", "stamp", "number", "write"}]
        /\ mine \in [Threads -> Lines]
    BY NothingTyped DEF LogInit
  <2>. QED  BY <2>1, <2>2, <2>3, Zenon DEF LogTyped
<1>2. written = <<>> /\ once = FALSE /\ \A t \in Threads : at[t] = "out"
  BY DEF LogInit
<1>. QED  BY <1>1, <1>2 DEF LogInv, LinesPast, HeldAfter, OverlapOnly

LEMMA LinesKeep ==
    ASSUME LogInv, UNCHANGED written,
           once => once' /\ origin' = origin,
           sequence <= sequence', clock <= clock',
           clock' \in Nat, sequence' \in Nat
    PROVE  LinesPast' /\ OverlapOnly'
<1>1. OverlapOnly'
  BY DEF LogInv, OverlapOnly
<1>2. ASSUME NEW n \in 1..Len(written)
      PROVE  /\ once' /\ written[n].before < n /\ written[n].number <= sequence'
             /\ origin' + written[n].time <= clock'
  <2>1. /\ once /\ written[n].before < n /\ written[n].number <= sequence
        /\ origin + written[n].time <= clock
    BY DEF LogInv, LinesPast
  <2>2. once' /\ origin' = origin
    BY <2>1
  <2>3. written[n] \in Lines
    BY DEF LogInv, LogTyped
  <2>4. written[n].time \in Nat /\ written[n].number \in Nat /\ origin \in Nat /\ clock \in Nat
        /\ sequence \in Nat
    BY <2>3, LineTyped DEF LogInv, LogTyped
  <2>5. written[n].number <= sequence' /\ origin' + written[n].time <= clock'
    BY <2>1, <2>2, <2>4
  <2>. QED  BY <2>1, <2>2, <2>5
<1>. QED  BY <1>1, <1>2 DEF LinesPast

LEMMA LogInductive == LogInv /\ LogNext => LogInv'
<1>. SUFFICES ASSUME LogInv, LogNext PROVE LogInv'
  OBVIOUS
<1>. USE DEF LogInv
<1>0. /\ \A t \in Threads : mine[t] \in Lines
      /\ \A n \in 1..Len(written) : written[n] \in Lines
  BY DEF LogTyped
<1>1. CASE ClockTick
  <2>1. LogTyped' /\ (once' => origin' <= clock')
    BY <1>1 DEF ClockTick, LogTyped
  <2>2. LinesPast' /\ OverlapOnly'
    BY <1>1, LinesKeep DEF ClockTick, LogTyped
  <2>3. HeldAfter'
    BY <1>0, <1>1 DEF ClockTick, HeldAfter, LogTyped, Lines
  <2>. QED  BY <2>1, <2>2, <2>3
<1>2. ASSUME NEW t \in Threads, Call(t) PROVE LogInv'
  <2>. DEFINE line == [Nothing EXCEPT !.before = Len(written)]
  <2>1. line \in Lines /\ line.before = Len(written)
    BY DEF Nothing, Lines, LogTyped
  <2>. HIDE DEF line
  <2>2. /\ at' = [at EXCEPT ![t] = "once"] /\ mine' = [mine EXCEPT ![t] = line]
        /\ UNCHANGED <<clock, origin, once, sequence, written>>
    BY <1>2 DEF Call, Goto, line
  <2>3. LogTyped' /\ (once' => origin' <= clock')
    BY <2>1, <2>2 DEF LogTyped
  <2>4. LinesPast' /\ OverlapOnly'
    BY <2>2, LinesKeep DEF LogTyped
  <2>5. HeldAfter'
    BY <2>1, <2>2 DEF HeldAfter, LogTyped
  <2>. QED  BY <2>3, <2>4, <2>5
<1>3. ASSUME NEW t \in Threads, Once(t) PROVE LogInv'
  <2>1. /\ at[t] = "once" /\ at' = [at EXCEPT ![t] = "stamp"] /\ once' = TRUE
        /\ origin' = IF once THEN origin ELSE clock
        /\ UNCHANGED <<clock, sequence, mine, written>>
    BY <1>3 DEF Once, Goto
  <2>2. LogTyped' /\ (once' => origin' <= clock')
    <3>1. once' \in BOOLEAN
      BY <2>1, Zenon
    <3>2. origin' \in Nat /\ origin' <= clock'
      BY <2>1 DEF LogTyped
    <3>3. at' \in [Threads -> {"out", "once", "stamp", "number", "write"}]
      BY <2>1 DEF LogTyped
    <3>. QED  BY <2>1, <3>1, <3>2, <3>3 DEF LogTyped
  <2>3. LinesPast' /\ OverlapOnly'
    <3>1. once => once' /\ origin' = origin
      BY <2>1
    <3>. QED  BY <2>1, <3>1, LinesKeep DEF LogTyped
  <2>4. HeldAfter'
    <3>1. ASSUME once PROVE HeldAfter'
      BY <2>1, <3>1 DEF HeldAfter, LogTyped
    <3>2. ASSUME ~once PROVE \A u \in Threads : at[u] \in {"out", "once"}
      BY <3>2 DEF HeldAfter, LogTyped
    <3>3. ASSUME ~once PROVE HeldAfter'
      BY <2>1, <3>2, <3>3 DEF HeldAfter, LogTyped
    <3>. QED  BY <3>1, <3>3
  <2>. QED  BY <2>2, <2>3, <2>4
<1>4. ASSUME NEW t \in Threads, Stamp(t) PROVE LogInv'
  <2>1. at[t] = "stamp" /\ once
    BY <1>4 DEF Stamp, Goto, HeldAfter
  <2>2. /\ at' = [at EXCEPT ![t] = "number"]
        /\ mine' = [mine EXCEPT ![t].time = clock - origin]
        /\ UNCHANGED <<clock, origin, once, sequence, written>>
    BY <1>4, <2>1 DEF Stamp, Goto, LogTyped
  <2>3. /\ clock - origin \in Nat
        /\ mine' \in [Threads -> Lines]
        /\ mine'[t].time = clock - origin /\ mine'[t].before = mine[t].before
        /\ \A u \in Threads \ {t} : mine'[u] = mine[u]
    <3>. DEFINE line == [mine[t] EXCEPT !.time = clock - origin]
    <3>1. clock - origin \in Nat
      BY <2>1 DEF LogTyped
    <3>2. line \in Lines /\ line.time = clock - origin /\ line.before = mine[t].before
      BY <1>0, <3>1, LineFields
    <3>3. mine' = [mine EXCEPT ![t] = line]
      BY <2>2
    <3>. HIDE DEF line
    <3>. QED  BY <3>1, <3>2, <3>3 DEF LogTyped
  <2>4. LogTyped' /\ (once' => origin' <= clock')
    BY <2>2, <2>3 DEF LogTyped
  <2>5. LinesPast' /\ OverlapOnly'
    BY <2>2, LinesKeep DEF LogTyped
  <2>6. HeldAfter'
    <3>1. \A m \in 1..mine[t].before : written[m].time <= clock - origin
      <4>1. ASSUME NEW m \in 1..mine[t].before PROVE written[m].time <= clock - origin
        <5>1. m \in 1..Len(written)
          BY <1>0, <2>1 DEF HeldAfter, Lines, LogTyped
        <5>2. origin + written[m].time <= clock
          BY <1>0, <5>1 DEF LinesPast
        <5>3. written \in Seq(Lines) /\ origin \in Nat /\ clock \in Nat
          BY DEF LogTyped
        <5>4. written[m] \in Lines
          BY <5>1, <5>3
        <5>5. written[m].time \in Nat
          BY <5>4, LineTyped
        <5>. QED  BY <5>2, <5>3, <5>5
      <4>. QED  BY <4>1
    <3>2. at'[t] = "number" /\ \A u \in Threads \ {t} : at'[u] = at[u]
      BY <2>2 DEF LogTyped
    <3>3. ASSUME NEW u \in Threads \ {t}
          PROVE  /\ at'[u] # "out" => mine'[u].before <= Len(written')
                 /\ at'[u] \in {"stamp", "number", "write"} => once'
                 /\ at'[u] \in {"number", "write"} =>
                       /\ origin' + mine'[u].time <= clock'
                       /\ \A m \in 1..mine'[u].before : written'[m].time <= mine'[u].time
                 /\ at'[u] = "write" =>
                       /\ mine'[u].number <= sequence'
                       /\ \A m \in 1..mine'[u].before :
                             written'[m].number < mine'[u].number
      BY <2>2, <2>3, <3>2 DEF HeldAfter
    <3>4. mine[t].before <= Len(written)
      BY <2>1 DEF HeldAfter
    <3>5. origin + mine'[t].time <= clock
      BY <2>3 DEF LogTyped
    <3>. QED  BY <2>1, <2>2, <2>3, <3>1, <3>2, <3>3, <3>4, <3>5 DEF HeldAfter
  <2>. QED  BY <2>4, <2>5, <2>6
<1>5. ASSUME NEW t \in Threads, Number(t) PROVE LogInv'
  <2>1. /\ at[t] = "number" /\ at' = [at EXCEPT ![t] = "write"]
        /\ sequence' = sequence + 1
        /\ mine' = [mine EXCEPT ![t].number = sequence + 1]
        /\ UNCHANGED <<clock, origin, once, written>>
    BY <1>5 DEF Number, Goto
  <2>2. /\ mine' \in [Threads -> Lines]
        /\ mine'[t].time = mine[t].time /\ mine'[t].before = mine[t].before
        /\ mine'[t].number = sequence + 1
        /\ \A u \in Threads \ {t} : mine'[u] = mine[u]
    <3>. DEFINE line == [mine[t] EXCEPT !.number = sequence + 1]
    <3>1. sequence + 1 \in Nat
      BY DEF LogTyped
    <3>2. /\ line \in Lines /\ line.time = mine[t].time /\ line.before = mine[t].before
          /\ line.number = sequence + 1
      BY <1>0, <3>1, LineFields
    <3>3. mine' = [mine EXCEPT ![t] = line]
      BY <2>1
    <3>. HIDE DEF line
    <3>. QED  BY <3>2, <3>3 DEF LogTyped
  <2>3. LogTyped' /\ (once' => origin' <= clock')
    BY <2>1, <2>2 DEF LogTyped
  <2>4. LinesPast' /\ OverlapOnly'
    BY <2>1, LinesKeep DEF LogTyped
  <2>5. HeldAfter'
    <3>1. \A m \in 1..mine[t].before : written[m].number < sequence + 1
      <4>1. ASSUME NEW m \in 1..mine[t].before PROVE written[m].number < sequence + 1
        <5>1. /\ mine[t].before \in Nat /\ mine[t].before <= Len(written)
              /\ Len(written) \in Nat
          BY <1>0, <2>1, LineTyped DEF HeldAfter, LogTyped
        <5>2. m \in 1..Len(written)
          BY <5>1
        <5>3. written[m].number \in Nat /\ sequence \in Nat
          BY <1>0, <5>2, LineTyped DEF LogTyped
        <5>. QED  BY <5>2, <5>3 DEF LinesPast
      <4>. QED  BY <4>1
    <3>2. at'[t] = "write" /\ \A u \in Threads \ {t} : at'[u] = at[u]
      BY <2>1 DEF LogTyped
    <3>3. /\ mine[t].before <= Len(written) /\ once
          /\ origin + mine[t].time <= clock
          /\ \A m \in 1..mine[t].before : written[m].time <= mine[t].time
      BY <2>1 DEF HeldAfter
    <3>4. ASSUME NEW u \in Threads \ {t}
          PROVE  /\ at'[u] # "out" => mine'[u].before <= Len(written')
                 /\ at'[u] \in {"stamp", "number", "write"} => once'
                 /\ at'[u] \in {"number", "write"} =>
                       /\ origin' + mine'[u].time <= clock'
                       /\ \A m \in 1..mine'[u].before : written'[m].time <= mine'[u].time
                 /\ at'[u] = "write" =>
                       /\ mine'[u].number <= sequence'
                       /\ \A m \in 1..mine'[u].before :
                             written'[m].number < mine'[u].number
      BY <1>0, <2>1, <2>2, <3>2 DEF HeldAfter, LogTyped, Lines
    <3>5. mine'[t].number <= sequence'
      BY <2>1, <2>2 DEF LogTyped
    <3>. QED  BY <2>1, <2>2, <3>1, <3>2, <3>3, <3>4, <3>5 DEF HeldAfter
  <2>. QED  BY <2>3, <2>4, <2>5
<1>6. ASSUME NEW t \in Threads, Write(t) PROVE LogInv'
  <2>1. /\ at[t] = "write" /\ at' = [at EXCEPT ![t] = "out"]
        /\ written' = Append(written, mine[t])
        /\ UNCHANGED <<clock, origin, once, sequence, mine>>
    BY <1>6 DEF Write, Goto
  <2>2. /\ written' \in Seq(Lines)
        /\ Len(written') = Len(written) + 1
        /\ \A n \in 1..Len(written) : written'[n] = written[n]
        /\ written'[Len(written) + 1] = mine[t]
    BY <1>0, <2>1, AppendProperties DEF LogTyped
  <2>3. LogTyped' /\ (once' => origin' <= clock')
    BY <2>1, <2>2 DEF LogTyped
  <2>4. Len(written) \in Nat /\ \A u \in Threads : mine[u].before \in Nat
    BY <1>0 DEF LogTyped, Lines
  <2>5. /\ mine[t].before <= Len(written) /\ once
        /\ origin + mine[t].time <= clock /\ mine[t].number <= sequence
        /\ \A m \in 1..mine[t].before :
              written[m].time <= mine[t].time /\ written[m].number < mine[t].number
    BY <2>1 DEF HeldAfter
  <2>6. LinesPast'
    BY <2>1, <2>2, <2>4, <2>5 DEF LinesPast
  <2>7. OverlapOnly'
    <3>1. ASSUME NEW n \in 1..Len(written), NEW m \in 1..written[n].before
          PROVE  m \in 1..Len(written)
      BY <1>0 DEF LinesPast, Lines, LogTyped
    <3>2. ASSUME NEW n \in 1..Len(written), NEW m \in 1..written'[n].before
          PROVE  written'[m].number < written'[n].number
                     /\ written'[m].time <= written'[n].time
      BY <2>2, <3>1, <3>2 DEF OverlapOnly
    <3>3. ASSUME NEW m \in 1..mine[t].before
          PROVE  written'[m].number < mine[t].number /\ written'[m].time <= mine[t].time
      BY <2>2, <2>4, <2>5, <3>3
    <3>. QED  BY <2>2, <2>4, <3>2, <3>3 DEF OverlapOnly
  <2>8. HeldAfter'
    <3>1. ASSUME NEW u \in Threads, at'[u] # "out"
          PROVE  at[u] = at'[u] /\ u # t
      BY <2>1, <3>1 DEF LogTyped
    <3>2. ASSUME NEW u \in Threads, at[u] # "out", NEW m \in 1..mine[u].before
          PROVE  written'[m] = written[m]
      BY <2>2, <2>4, <3>2 DEF HeldAfter
    <3>. QED  BY <2>1, <2>2, <2>4, <3>1, <3>2 DEF HeldAfter
  <2>. QED  BY <2>3, <2>6, <2>7, <2>8
<1>. QED  BY <1>1, <1>2, <1>3, <1>4, <1>5, <1>6 DEF LogNext

LEMMA PathLog == LogInv /\ [DiagnosticsNext]_pathVars => LogInv'
<1>. SUFFICES ASSUME LogInv, [DiagnosticsNext]_pathVars PROVE LogInv'
  OBVIOUS
<1>1. CASE UNCHANGED logVars
  BY <1>1 DEF logVars, LogInv, LogTyped, LinesPast, HeldAfter, OverlapOnly
<1>2. CASE PrintLines
  BY <1>2, LogInductive DEF PrintLines
<1>3. CASE Save
  <2>1. LogTyped'
    <3>1. /\ clock' \in Nat /\ origin' \in Nat /\ sequence' \in Nat
          /\ written' \in Seq(Lines)
      BY <1>3 DEF Save
    <3>2. once' \in BOOLEAN
      BY <1>3, Zenon DEF Save
    <3>3. /\ at' \in [Threads -> {"out", "once", "stamp", "number", "write"}]
          /\ mine' \in [Threads -> Lines]
      BY <1>3, NothingTyped DEF Save
    <3>. QED  BY <3>1, <3>2, <3>3, Zenon DEF LogTyped
  <2>2. written' = <<>> /\ once' = FALSE /\ \A t \in Threads : at'[t] = "out"
    BY <1>3 DEF Save
  <2>. QED  BY <2>1, <2>2 DEF LogInv, LinesPast, HeldAfter, OverlapOnly
<1>. QED
  BY <1>1, <1>2, <1>3 DEF DiagnosticsNext, Convert, Formatted, ReadDump, BuildIndex,
     OpenLog, Annotate, RunAgain, AnnotateAgain, pathVars

LEMMA AlwaysLogged == DiagnosticsSpec => []LogInv
<1>1. DiagnosticsInit => LogInv
  BY LogStarts DEF DiagnosticsInit
<1>. QED  BY <1>1, PathLog, PTL DEF DiagnosticsSpec

(* With any number of threads, the numbers and the times of two lines are in
   order unless the two calls overlapped. *)
THEOREM OrderIsHonest == DiagnosticsSpec => []OverlapOnly
<1>1. LogInv => OverlapOnly
  BY DEF LogInv
<1>. QED  BY <1>1, AlwaysLogged, PTL

-----------------------------------------------------------------------------
(* The annotated log.                                                      *)

(* Addresses are numbers, and nothing else is taken for the lack of one. *)
DumpFits ==
    /\ Addresses \subseteq Nat
    /\ MaxOffset \in Nat
    /\ Absent \notin Nat /\ Absent \notin [at : Nat, offset : Nat]

LogLines == [number : Nat, site : Nat \cup {Absent}, notes : Seq([at : Nat, offset : Nat])]

(* The greatest of some natural numbers below a bound is one of them. *)
LEMMA MaxIn ==
    ASSUME NEW S, S \subseteq Nat, S # {}, NEW bound \in Nat, \A x \in S : x <= bound
    PROVE  Max(S) \in S /\ \A x \in S : x <= Max(S)
<1>. DEFINE T == {bound - x : x \in S}
<1>1. T \subseteq Nat /\ T # {}
  <2>1. \A x \in S : bound - x \in Nat
    OBVIOUS
  <2>2. T \subseteq Nat
    BY <2>1, Zenon
  <2>. QED  BY <2>2
<1>2. PICK least \in T : \A y \in T : ~ (<<y, least>> \in OpToRel(<, Nat))
  <2>. HIDE DEF T
  <2>. QED  BY <1>1, NatLessThanWellFounded, WFMin
<1>3. PICK greatest \in S : least = bound - greatest
  OBVIOUS
<1>4. \A y \in T : y \in Nat /\ ~(y < least)
  <2>1. least \in Nat /\ \A y \in T : y \in Nat
    BY <1>1
  <2>. HIDE DEF T
  <2>. QED  BY <1>2, <2>1, Zenon DEF OpToRel
<1>5. ASSUME NEW x \in S PROVE greatest >= x
  <2>1. bound - x \in T /\ x \in Nat /\ greatest \in Nat
    OBVIOUS
  <2>2. ~(bound - x < bound - greatest)
    BY <1>3, <1>4, <2>1
  <2>. QED  BY <2>1, <2>2
<1>6. Max(S) \in S /\ \A x \in S : Max(S) >= x
  BY <1>5, Zenon DEF Max
<1>. QED  BY <1>6

(* resolve_rva gives the method that covers a site, if there is one. *)
LEMMA ResolveRight ==
    ASSUME DumpFits, \A m \in methods : m.rva \in Addresses, NEW site \in Nat
    PROVE  LET note == resolve_rva(site)
           IN  IF note = Absent THEN \A m \in methods : ~Covers(m.rva, site)
               ELSE /\ note \in [at : Nat, offset : Nat]
                    /\ NamesAt(note.at) # {} /\ Covers(note.at, site)
                    /\ site = note.at + note.offset
<1>. DEFINE below == {m.rva : m \in {one \in methods : one.rva <= site}}
            start == Max(below)
<1>1. below \subseteq Nat /\ \A x \in below : x <= site
  BY DEF DumpFits
<1>2. \A m \in methods : m.rva \in Nat /\ (m.rva <= site => m.rva \in below)
  BY DEF DumpFits
<1>3. resolve_rva(site) = IF below = {} THEN Absent ELSE Near(start, site)
  BY DEF resolve_rva
<1>4. CASE below = {}
  BY <1>2, <1>3, <1>4 DEF Covers
<1>5. CASE below # {}
  <2>1. start \in below /\ \A x \in below : x <= start
    <3>. HIDE DEF below
    <3>. QED  BY <1>1, <1>5, MaxIn
  <2>2. start \in Nat /\ start <= site /\ NamesAt(start) # {}
    BY <1>1, <2>1 DEF NamesAt
  <2>3. MaxOffset \in Nat
    BY DEF DumpFits
  <2>. HIDE DEF below, start
  <2>4. \A m \in methods : ~(start < m.rva /\ m.rva <= site)
    BY <1>2, <2>1, <2>2
  <2>5. CASE site - start > MaxOffset
    <3>1. resolve_rva(site) = Absent
      BY <1>3, <1>5, <2>5 DEF Near
    <3>2. ASSUME NEW m \in methods PROVE ~Covers(m.rva, site)
      <4>1. PICK top \in methods : top.rva = start
        BY <2>2 DEF NamesAt
      <4>2. m.rva <= site => m.rva <= start
        BY <1>2, <2>1
      <4>. QED  BY <1>2, <2>2, <2>3, <2>5, <4>1, <4>2 DEF Covers
    <3>. QED  BY <3>1, <3>2
  <2>6. CASE ~(site - start > MaxOffset)
    <3>. DEFINE note == [at |-> start, offset |-> site - start]
    <3>1. resolve_rva(site) = note
      BY <1>3, <1>5, <2>6 DEF Near
    <3>2. /\ note \in [at : Nat, offset : Nat] /\ note.at = start
          /\ note.offset = site - start
      BY <2>2
    <3>3. note # Absent
      BY <3>2 DEF DumpFits
    <3>4. Covers(start, site)
      BY <2>2, <2>3, <2>4, <2>6 DEF Covers
    <3>. HIDE DEF note
    <3>. QED  BY <2>2, <3>1, <3>2, <3>3, <3>4
  <2>. QED  BY <2>5, <2>6
<1>. QED  BY <1>4, <1>5

DumpTyped ==
    /\ \A m \in methods : m.rva \in Addresses
    /\ pending_rva \in Addresses \cup {Absent}
    /\ input \in Seq(LogLines) /\ output \in Seq(LogLines)

(* Before the second pass the lines to come carry no note; in it they carry
   those of the first, which are right. *)
NotesInv ==
    /\ DumpTyped
    /\ stage \notin {"annotate", "again"} => output = <<>>
    /\ stage \notin {"dump", "index", "annotate", "again"} => input = <<>>
    /\ stage # "again" => \A n \in 1..Len(input) : input[n].notes = <<>>
    /\ stage = "again" => \A n \in 1..Len(input) : LineRight(input[n])
    /\ \A n \in 1..Len(output) : LineRight(output[n])

LEMMA LinesTyped ==
    ASSUME NEW s \in Seq(LogLines), NEW n \in 1..Len(s)
    PROVE  s[n] \in LogLines
OBVIOUS

(* What symbolize_lines makes of one line. *)
LEMMA AnnotatedLine ==
    ASSUME DumpFits, \A m \in methods : m.rva \in Addresses,
           NEW line \in LogLines, line.notes = <<>> \/ LineRight(line),
           NEW note, NEW given,
           note = IF line.site = Absent \/ annotated(line.notes) THEN Absent
                  ELSE resolve_rva(line.site),
           given = IF note = Absent THEN line
                   ELSE [line EXCEPT !.notes = Append(line.notes, note)]
    PROVE  given \in LogLines /\ LineRight(given)
<1>0. line.notes \in Seq([at : Nat, offset : Nat]) /\ line.site \in Nat \cup {Absent}
  BY DEF LogLines
<1>1. CASE line.site = Absent
  <2>1. line.notes = <<>>
    BY <1>1 DEF LineRight
  <2>. QED  BY <1>1, <2>1 DEF LineRight
<1>2. CASE line.site # Absent /\ annotated(line.notes)
  <2>1. LineRight(line)
    BY <1>2 DEF annotated
  <2>. QED  BY <1>2, <2>1
<1>3. CASE line.site # Absent /\ ~annotated(line.notes)
  <2>1. line.site \in Nat /\ note = resolve_rva(line.site)
    BY <1>0, <1>3
  <2>2. CASE note = Absent
    <3>1. given = line /\ \A m \in methods : ~Covers(m.rva, line.site)
      BY <2>1, <2>2, ResolveRight
    <3>2. CASE line.notes = <<>>
      <4>1. line.notes = <<>> => \A n \in DOMAIN line.notes : FALSE
        OBVIOUS
      <4>. QED  BY <1>3, <3>1, <3>2, <4>1, Zenon DEF LineRight
    <3>3. CASE LineRight(line)
      BY <3>1, <3>3
    <3>. QED  BY <3>1, <3>2, <3>3
  <2>3. CASE note # Absent
    <3>1. /\ note \in [at : Nat, offset : Nat]
          /\ NamesAt(note.at) # {} /\ Covers(note.at, line.site)
          /\ line.site = note.at + note.offset
      BY <2>1, <2>3, ResolveRight
    <3>. DEFINE notes == Append(line.notes, note)
    <3>2. /\ notes \in Seq([at : Nat, offset : Nat]) /\ notes # <<>>
          /\ Len(notes) = Len(line.notes) + 1
          /\ \A n \in 1..Len(line.notes) : notes[n] = line.notes[n]
          /\ notes[Len(line.notes) + 1] = note
      BY <1>0, <3>1, AppendProperties
    <3>. HIDE DEF notes
    <3>3. /\ given \in LogLines /\ given.site = line.site /\ given.notes = notes
      <4>1. given = [line EXCEPT !.notes = notes]
        BY <2>3 DEF notes
      <4>. QED  BY <3>2, <4>1 DEF LogLines
    <3>4. ASSUME NEW n \in DOMAIN line.notes
          PROVE  /\ NamesAt(line.notes[n].at) # {} /\ Covers(line.notes[n].at, line.site)
                 /\ line.site = line.notes[n].at + line.notes[n].offset
      BY <1>3, <3>4 DEF LineRight
    <3>5. ASSUME NEW n \in DOMAIN notes
          PROVE  /\ NamesAt(notes[n].at) # {} /\ Covers(notes[n].at, line.site)
                 /\ line.site = notes[n].at + notes[n].offset
      <4>0. DOMAIN line.notes = 1..Len(line.notes) /\ DOMAIN notes = 1..Len(notes)
            /\ Len(line.notes) \in Nat
        BY <1>0, <3>2
      <4>1. n \in DOMAIN line.notes \/ n = Len(line.notes) + 1
        BY <3>2, <4>0
      <4>2. n \in DOMAIN line.notes => notes[n] = line.notes[n]
        BY <3>2, <4>0
      <4>3. CASE n \in DOMAIN line.notes
        BY <3>4, <4>2, <4>3, Zenon
      <4>4. CASE n = Len(line.notes) + 1
        BY <3>1, <3>2, <4>4, Zenon
      <4>. QED  BY <4>1, <4>3, <4>4
    <3>. QED  BY <1>3, <3>2, <3>3, <3>5, Zenon DEF LineRight
  <2>. QED  BY <2>2, <2>3
<1>. QED  BY <1>1, <1>2, <1>3

(* One line is taken from the input and put at the end of the output. *)
LEMMA SymbolizeInductive ==
    ASSUME DumpFits, NotesInv, stage \in {"annotate", "again"}, symbolize_line,
           UNCHANGED stage
    PROVE  NotesInv'
<1>. DEFINE line == Head(input)
            note == IF line.site = Absent \/ annotated(line.notes) THEN Absent
                    ELSE resolve_rva(line.site)
            given == IF note = Absent THEN line
                     ELSE [line EXCEPT !.notes = Append(line.notes, note)]
<1>1. /\ input # <<>> /\ input' = Tail(input) /\ output' = Append(output, given)
      /\ methods' = methods /\ pending_rva' = pending_rva
  BY DEF symbolize_line, dumpVars
<1>2. /\ line \in LogLines /\ line = input[1] /\ 1 \in 1..Len(input)
      /\ input' \in Seq(LogLines)
      /\ \A n \in 1..Len(input') : input'[n] = input[n + 1] /\ n + 1 \in 1..Len(input)
  BY <1>1 DEF NotesInv, DumpTyped
<1>3. line.notes = <<>> \/ LineRight(line)
  BY <1>2 DEF NotesInv
<1>4. given \in LogLines /\ LineRight(given)
  <2>. HIDE DEF line
  <2>1. \A m \in methods : m.rva \in Addresses
    BY DEF NotesInv, DumpTyped
  <2>. QED  BY <1>2, <1>3, <2>1, AnnotatedLine, Zenon
<1>. HIDE DEF given, note, line
<1>5. /\ output' \in Seq(LogLines) /\ Len(output') = Len(output) + 1
      /\ \A n \in 1..Len(output) : output'[n] = output[n]
      /\ output'[Len(output) + 1] = given
  BY <1>1, <1>4, AppendProperties DEF NotesInv, DumpTyped
<1>6. \A one : LineRight(one)' <=> LineRight(one)
  BY <1>1 DEF LineRight, NamesAt, Covers
<1>7. DumpTyped'
  BY <1>1, <1>2, <1>5 DEF NotesInv, DumpTyped
<1>8. \A n \in 1..Len(output') : LineRight(output'[n])
  BY <1>4, <1>5 DEF NotesInv, DumpTyped
<1>9. ASSUME NEW n \in 1..Len(input')
      PROVE  /\ stage # "again" => input'[n].notes = <<>>
             /\ stage = "again" => LineRight(input'[n])
  <2>1. input'[n] = input[n + 1] /\ n + 1 \in 1..Len(input)
    BY <1>2
  <2>. QED  BY <2>1, Zenon DEF NotesInv
<1>10. stage' = stage
  OBVIOUS
<1>. QED  BY <1>6, <1>7, <1>8, <1>9, <1>10, Zenon DEF NotesInv

LEMMA NotesStart == DumpFits /\ DiagnosticsInit => NotesInv
<1>. SUFFICES ASSUME DumpFits, DiagnosticsInit PROVE NotesInv
  OBVIOUS
<1>1. methods = {} /\ pending_rva = Absent /\ input = <<>> /\ output = <<>> /\ stage = "text"
  BY DEF DiagnosticsInit, SymbolInit
<1>. QED  BY <1>1 DEF NotesInv, DumpTyped

(* Lines of the log as they are saved, and as they are opened. *)
LEMMA Saved ==
    ASSUME LogTyped, Save
    PROVE  input' \in Seq(LogLines) /\ \A n \in 1..Len(input') : input'[n].notes = <<>>
<1>1. \A n \in 1..Len(written) : written[n].number \in Nat
  BY LineTyped DEF LogTyped
<1>2. Len(written) \in Nat /\ DOMAIN written = 1..Len(written)
  BY DEF LogTyped
<1>3. input' = [n \in 1..Len(written) |->
                   [number |-> written[n].number, site |-> Absent, notes |-> <<>>]]
  BY <1>2 DEF Save
<1>4. ASSUME NEW n \in 1..Len(written)
      PROVE  [number |-> written[n].number, site |-> Absent, notes |-> <<>>] \in LogLines
  BY <1>1 DEF LogLines
<1>. QED  BY <1>2, <1>3, <1>4

LEMMA Opened ==
    ASSUME DumpFits, DumpTyped, OpenLog, \A n \in 1..Len(input) : input[n].notes = <<>>
    PROVE  /\ input' \in Seq(LogLines) /\ Len(input') = Len(input)
           /\ \A n \in 1..Len(input') : input'[n].notes = <<>>
           /\ \A n \in 1..Len(input') : input'[n].number = input[n].number
<1>1. PICK sites \in [DOMAIN input -> Sites \cup {Absent}] :
          input' = [n \in DOMAIN input |-> [input[n] EXCEPT !.site = sites[n]]]
  BY Zenon DEF OpenLog
<1>2. Sites \subseteq Nat
  <2>1. \A a \in Addresses : a \in Nat /\ a + 1 \in Nat
    BY DEF DumpFits
  <2>2. 0 \in Nat
    OBVIOUS
  <2>. QED  BY <2>1, <2>2, Zenon DEF Sites
<1>3. Len(input) \in Nat /\ DOMAIN input = 1..Len(input)
  BY DEF DumpTyped
<1>4. \A line \in LogLines : \A site \in Nat \cup {Absent} :
          /\ [line EXCEPT !.site = site] \in LogLines
          /\ [line EXCEPT !.site = site].notes = line.notes
          /\ [line EXCEPT !.site = site].number = line.number
  BY DEF LogLines
<1>5. ASSUME NEW n \in 1..Len(input)
      PROVE  /\ [input[n] EXCEPT !.site = sites[n]] \in LogLines
             /\ [input[n] EXCEPT !.site = sites[n]].notes = <<>>
             /\ [input[n] EXCEPT !.site = sites[n]].number = input[n].number
  <2>1. input[n] \in LogLines
    BY LinesTyped DEF DumpTyped
  <2>2. sites[n] \in Nat \cup {Absent}
    BY <1>2, <1>3
  <2>. QED  BY <1>4, <2>1, <2>2, Zenon
<1>6. ASSUME NEW n \in 1..Len(input)
      PROVE  input'[n] = [input[n] EXCEPT !.site = sites[n]]
  BY <1>1, <1>3, Zenon
<1>7. input' = [n \in 1..Len(input) |-> input'[n]]
  BY <1>1, <1>3, Zenon
<1>8. \A n \in 1..Len(input) : /\ input'[n] \in LogLines /\ input'[n].notes = <<>>
                                /\ input'[n].number = input[n].number
  BY <1>5, <1>6, Zenon
<1>. QED  BY <1>3, <1>7, <1>8

LEMMA PathNotes == DumpFits /\ LogInv /\ NotesInv /\ [DiagnosticsNext]_pathVars => NotesInv'
<1>. SUFFICES ASSUME DumpFits, LogInv, NotesInv, [DiagnosticsNext]_pathVars
              PROVE  NotesInv'
  OBVIOUS
<1>1. ASSUME UNCHANGED symbolVars, UNCHANGED stage PROVE NotesInv'
  BY <1>1 DEF symbolVars, dumpVars, NotesInv, DumpTyped, LineRight, NamesAt, Covers
<1>2. CASE Formatted
  BY <1>2 DEF Formatted, symbolVars, dumpVars, NotesInv, DumpTyped, LineRight, NamesAt, Covers
<1>3. CASE Save
  <2>1. input' \in Seq(LogLines) /\ \A n \in 1..Len(input') : input'[n].notes = <<>>
    BY <1>3, Saved DEF LogInv
  <2>. QED  BY <1>3, <2>1 DEF Save, dumpVars, NotesInv, DumpTyped
<1>4. CASE ReadDump
  <2>1. stage = "dump" /\ UNCHANGED <<stage, input, output>> /\ output = <<>>
    BY <1>4 DEF ReadDump, parse_dump, Namespace, Type, Rva, Method, Comment, Blank, Line,
       NotesInv
  <2>2. (\A m \in methods' : m.rva \in Addresses) /\ pending_rva' \in Addresses \cup {Absent}
    BY <1>4 DEF ReadDump, parse_dump, Namespace, Type, Rva, Method, Comment, Blank, NotesInv,
       DumpTyped
  <2>. QED  BY <2>1, <2>2 DEF NotesInv, DumpTyped
<1>5. CASE BuildIndex
  BY <1>5 DEF BuildIndex, NotesInv, DumpTyped
<1>6. CASE OpenLog
  <2>1. input' \in Seq(LogLines) /\ \A n \in 1..Len(input') : input'[n].notes = <<>>
    BY <1>6, Opened DEF OpenLog, NotesInv
  <2>. QED  BY <1>6, <2>1 DEF OpenLog, dumpVars, NotesInv, DumpTyped
<1>7. CASE Annotate \/ AnnotateAgain
  BY <1>7, SymbolizeInductive DEF Annotate, AnnotateAgain
<1>8. CASE RunAgain
  BY <1>8 DEF RunAgain, dumpVars, NotesInv, DumpTyped, LineRight, NamesAt, Covers
<1>9. CASE Convert \/ PrintLines \/ UNCHANGED pathVars
  BY <1>1, <1>9 DEF Convert, PrintLines, pathVars
<1>. QED
  BY <1>2, <1>3, <1>4, <1>5, <1>6, <1>7, <1>8, <1>9 DEF DiagnosticsNext

LEMMA AlwaysNoted == ASSUME DumpFits PROVE DiagnosticsSpec => []NotesInv
BY AlwaysLogged, NotesStart, PathNotes, PTL DEF DiagnosticsSpec

(* Every note names the method nearest below its call site and near enough,
   whatever the dump and the log, and however the names are spelled. *)
THEOREM NotesAreRight == ASSUME DumpFits PROVE DiagnosticsSpec => []AnnotatedRight
<1>1. NotesInv => AnnotatedRight
  BY DEF NotesInv, DumpTyped, AnnotatedRight
<1>. QED  BY <1>1, AlwaysNoted, PTL

(* A note is the only one of its line if it can be recognized in the second
   pass. *)
OnceInv ==
    /\ \A n \in 1..Len(input) : Len(input[n].notes) <= 1
    /\ \A n \in 1..Len(output) : Len(output[n].notes) <= 1

LEMMA AnnotatedLineOnce ==
    ASSUME Bracketed = {}, OnceInv, NotesInv, symbolize_line
    PROVE  OnceInv'
<1>. DEFINE line == Head(input)
            note == IF line.site = Absent \/ annotated(line.notes) THEN Absent
                    ELSE resolve_rva(line.site)
            given == IF note = Absent THEN line
                     ELSE [line EXCEPT !.notes = Append(line.notes, note)]
<1>1. input # <<>> /\ input' = Tail(input) /\ output' = Append(output, given)
  BY DEF symbolize_line
<1>2. /\ line \in LogLines /\ Len(line.notes) <= 1
      /\ \A n \in 1..Len(input') : input'[n] = input[n + 1] /\ n + 1 \in 1..Len(input)
  BY <1>1 DEF NotesInv, DumpTyped, OnceInv
<1>3. Len(given.notes) <= 1
  <2>1. CASE note = Absent
    BY <1>2, <2>1
  <2>2. CASE note # Absent
    <3>1. ~annotated(line.notes)
      BY <2>2
    <3>2. line.notes = <<>>
      BY <3>1, Zenon DEF annotated
    <3>3. given.notes = Append(line.notes, note)
      BY <1>2, <2>2 DEF LogLines
    <3>. QED  BY <3>2, <3>3
  <2>. QED  BY <2>1, <2>2
<1>. HIDE DEF line, note, given
<1>4. /\ Len(output') = Len(output) + 1
      /\ \A n \in 1..Len(output) : output'[n] = output[n]
      /\ output'[Len(output) + 1] = given
      /\ Len(output) \in Nat
  BY <1>1 DEF NotesInv, DumpTyped
<1>5. ASSUME NEW n \in 1..Len(output') PROVE Len(output'[n].notes) <= 1
  BY <1>3, <1>4 DEF OnceInv
<1>6. ASSUME NEW n \in 1..Len(input') PROVE Len(input'[n].notes) <= 1
  BY <1>2, Zenon DEF OnceInv
<1>. QED  BY <1>5, <1>6 DEF OnceInv

LEMMA PathOnce ==
    Bracketed = {} /\ NotesInv /\ NotesInv' /\ OnceInv /\ [DiagnosticsNext]_pathVars => OnceInv'
<1>. SUFFICES ASSUME Bracketed = {}, NotesInv, NotesInv', OnceInv, [DiagnosticsNext]_pathVars
              PROVE  OnceInv'
  OBVIOUS
<1>1. ASSUME UNCHANGED <<input, output>> PROVE OnceInv'
  BY <1>1 DEF OnceInv
<1>2. CASE Save \/ OpenLog
  <2>1. stage' # "again" /\ output' = output
    BY <1>2 DEF Save, OpenLog
  <2>2. \A n \in 1..Len(input') : Len(input'[n].notes) <= 1
    BY <2>1 DEF NotesInv
  <2>. QED  BY <2>1, <2>2 DEF OnceInv
<1>3. CASE ReadDump
  BY <1>1, <1>3 DEF ReadDump, parse_dump, Namespace, Type, Rva, Method, Comment, Blank, Line
<1>4. CASE Annotate \/ AnnotateAgain
  BY <1>4, AnnotatedLineOnce DEF Annotate, AnnotateAgain
<1>5. CASE RunAgain
  BY <1>5 DEF RunAgain, OnceInv
<1>6. CASE Convert \/ Formatted \/ PrintLines \/ BuildIndex \/ UNCHANGED pathVars
  BY <1>1, <1>6 DEF Convert, Formatted, PrintLines, BuildIndex, pathVars, symbolVars
<1>. QED
  BY <1>2, <1>3, <1>4, <1>5, <1>6 DEF DiagnosticsNext

(* A log is annotated once however long it is, if no name has a "]" in it. *)
THEOREM NotesAreSingle ==
    ASSUME DumpFits, Bracketed = {} PROVE DiagnosticsSpec => []AnnotatedOnce
<1>1. DiagnosticsInit => OnceInv
  BY DEF DiagnosticsInit, SymbolInit, OnceInv
<1>2. NotesInv /\ OnceInv => AnnotatedOnce
  BY DEF NotesInv, DumpTyped, OnceInv, AnnotatedOnce
<1>. QED  BY <1>1, <1>2, AlwaysNoted, PathOnce, PTL DEF DiagnosticsSpec
=============================================================================
