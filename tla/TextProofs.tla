------------------------------- MODULE TextProofs -------------------------------
(***************************************************************************)
(* Theorems about the text that Diagnostics makes of a managed string: for *)
(* strings and limits of any length nothing is lost, doubled or moved.     *)
(***************************************************************************)
EXTENDS DiagnosticsProofs

(* The unit to be read next begins a character: a low half is consumed with its
   high half. *)
AtStart == k <= limit => ~SecondHalf(k)

MeaningInv == TextInv /\ AtStart /\ KeepsMeaning

(* A string none of which has been read. *)
LEMMA UnreadKeeps == TextInv /\ k = 1 /\ result = <<>> => AtStart /\ KeepsMeaning
<1>. SUFFICES ASSUME TextInv, k = 1, result = <<>> PROVE AtStart /\ KeepsMeaning
  OBVIOUS
<1>1. AtStart
  BY DEF AtStart, SecondHalf
<1>2. KeepsMeaning
  <2>. DEFINE from == [n \in {} |-> 1]
  <2>1. DOMAIN result = {} /\ from \in [DOMAIN result -> 1..limit]
    OBVIOUS
  <2>2. {n \in 1..limit : n < k /\ ~SecondHalf(n)} = {}
    <3>1. \A n \in 1..limit : ~(n < k)
      BY DEF TextInv
    <3>. QED  BY <3>1
  <2>. HIDE DEF from
  <2>3. {from[n] : n \in DOMAIN result} = {n \in 1..limit : n < k /\ ~SecondHalf(n)}
    BY <2>1, <2>2
  <2>. QED  BY <2>1, <2>3, Zenon DEF KeepsMeaning
<1>. QED  BY <1>1, <1>2

LEMMA UnreadKeepsNext ==
    (TextInv /\ k = 1 /\ result = <<>>)' => AtStart' /\ KeepsMeaning'
BY UnreadKeeps, PTL

(* One more character: it begins at k, and takes its second half with it. *)
LEMMA CharacterKeeps ==
    ASSUME TextInv, AtStart, KeepsMeaning, k <= limit,
           NEW codePoint \in CodePoints, NEW units \in {1, 2}, Push(codePoint, units),
           units = 2 => SecondHalf(k + 1),
           codePoint = CodePointAt(k) \/ (k = limit /\ chars[limit] = "high" /\ codePoint = "surrogate")
    PROVE  KeepsMeaning'
<1>1. PICK from \in [DOMAIN result -> 1..limit] :
          /\ \A m, n \in DOMAIN result : m < n => from[m] < from[n]
          /\ {from[n] : n \in DOMAIN result} = {n \in 1..limit : n < k /\ ~SecondHalf(n)}
          /\ \A n \in DOMAIN result :
                \/ result[n] = CodePointAt(from[n])
                \/ from[n] = limit /\ chars[limit] = "high" /\ result[n] = "surrogate"
  BY Zenon DEF KeepsMeaning
<1>. DEFINE last == Len(result) + 1
<1>0. PICK now : now = [n \in 1..last |-> IF n = last THEN k ELSE from[n]]
  OBVIOUS
<1>2. /\ Len(result) \in Nat /\ DOMAIN result = 1..Len(result)
      /\ limit \in Nat /\ k \in 1..limit
      /\ 1..last = 1..Len(result) \cup {last} /\ last \notin 1..Len(result)
  BY DEF TextInv
<1>3. /\ UNCHANGED <<chars, limit>> /\ k' = k + units
      /\ DOMAIN result' = 1..last
      /\ \A n \in 1..Len(result) : result'[n] = result[n]
      /\ result'[last] = codePoint
  <2>1. result' = Append(result, codePoint) /\ UNCHANGED <<chars, limit>> /\ k' = k + units
    BY DEF Push
  <2>2. /\ result' \in Seq(CodePoints) /\ Len(result') = last
        /\ \A n \in 1..Len(result) : result'[n] = result[n]
        /\ result'[last] = codePoint
    BY <2>1, AppendProperties DEF TextInv
  <2>. QED  BY <2>1, <2>2
<1>4. \A n : (SecondHalf(n)' <=> SecondHalf(n)) /\ CodePointAt(n)' = CodePointAt(n)
  BY <1>3 DEF SecondHalf, CodePointAt
<1>5. \A n \in 1..Len(result) : from[n] \in 1..limit /\ from[n] < k /\ now[n] = from[n]
  <2>1. ASSUME NEW n \in 1..Len(result) PROVE from[n] \in 1..limit /\ from[n] < k
    BY <1>1, <1>2
  <2>2. ASSUME NEW n \in 1..Len(result) PROVE now[n] = from[n]
    BY <1>0, <1>2
  <2>. QED  BY <2>1, <2>2
<1>6. now[last] = k
  BY <1>0, <1>2
<1>7. now \in [1..last -> 1..limit]
  BY <1>0, <1>2, <1>5
<1>. HIDE DEF last
<1>8. \A m, n \in 1..last : m < n => now[m] < now[n]
  <2>1. ASSUME NEW m \in 1..last, NEW n \in 1..last, m < n PROVE now[m] < now[n]
    <3>1. m \in 1..Len(result)
      BY <1>2, <2>1 DEF last
    <3>2. CASE n \in 1..Len(result)
      BY <1>1, <1>2, <1>5, <2>1, <3>1, <3>2
    <3>3. CASE n = last
      BY <1>5, <1>6, <3>1, <3>3
    <3>. QED  BY <1>2, <3>2, <3>3
  <2>. QED  BY <2>1
<1>9. {now[n] : n \in 1..last} = {from[n] : n \in 1..Len(result)} \cup {k}
  <2>1. ASSUME NEW n \in 1..last PROVE now[n] \in {from[m] : m \in 1..Len(result)} \cup {k}
    BY <1>2, <1>5, <1>6
  <2>2. ASSUME NEW n \in 1..Len(result) PROVE from[n] \in {now[m] : m \in 1..last}
    BY <1>2, <1>5
  <2>3. k \in {now[m] : m \in 1..last}
    BY <1>2, <1>6
  <2>. QED  BY <2>1, <2>2, <2>3, Zenon
<1>10. {n \in 1..limit : n < k + units /\ ~SecondHalf(n)}
           = {n \in 1..limit : n < k /\ ~SecondHalf(n)} \cup {k}
  <2>1. ~SecondHalf(k)
    BY DEF AtStart
  <2>2. \A n \in 1..limit : n < k + units <=> n < k \/ n = k \/ (units = 2 /\ n = k + 1)
    BY <1>2
  <2>. QED  BY <1>2, <2>1, <2>2, Zenon
<1>11. \A n \in 1..last :
           \/ result'[n] = CodePointAt(now[n])
           \/ now[n] = limit /\ chars[limit] = "high" /\ result'[n] = "surrogate"
  BY <1>1, <1>2, <1>3, <1>5, <1>6, Zenon
<1>12. {now[n] : n \in 1..last} = {n \in 1..limit : n < k + units /\ ~SecondHalf(n)}
  BY <1>1, <1>2, <1>9, <1>10, Zenon
<1>13. {now[n] : n \in 1..last} = {n \in 1..limit' : n < k' /\ ~SecondHalf(n)'}
  BY <1>3, <1>4, <1>12, Zenon
<1>14. \A n \in 1..last :
           \/ result'[n] = CodePointAt(now[n])'
           \/ now[n] = limit' /\ chars'[limit'] = "high" /\ result'[n] = "surrogate"
  BY <1>3, <1>4, <1>11, Zenon
<1>15. DOMAIN result' = 1..last /\ now \in [1..last -> 1..limit']
  BY <1>3, <1>7, Zenon
<1>. QED  BY <1>8, <1>13, <1>14, <1>15, Zenon DEF KeepsMeaning

LEMMA MeaningInductive == ASSUME MeaningInv, TextNext PROVE MeaningInv'
<1>. USE DEF MeaningInv
<1>1. TextInv'
  BY TextInductive
<1>2. /\ limit \in 0..Len(chars) /\ k \in Nat \ {0} /\ Len(chars) \in Nat
      /\ k <= limit => chars[k] \in Units
      /\ k <= limit => ~SecondHalf(k)
  BY DEF TextInv, AtStart
<1>3. CASE Pair
  <2>1. /\ k + 1 <= limit /\ chars[k] = "high" /\ chars[k + 1] = "low" /\ Push("pair", 2)
    BY <1>3 DEF Pair, High
  <2>2. SecondHalf(k + 1) /\ CodePointAt(k) = "pair"
    BY <1>2, <2>1 DEF SecondHalf, CodePointAt
  <2>3. AtStart'
    BY <1>2, <2>1 DEF AtStart, SecondHalf, Push
  <2>4. "pair" \in CodePoints /\ k <= limit
    BY <1>2, <2>1 DEF CodePoints
  <2>. QED  BY <1>1, <2>1, <2>2, <2>3, <2>4, CharacterKeeps
<1>4. CASE Unpaired
  <2>1. /\ k + 1 <= limit /\ chars[k] = "high" /\ chars[k + 1] # "low" /\ Push("fffd", 1)
    BY <1>4 DEF Unpaired, High
  <2>2. CodePointAt(k) = "fffd"
    BY <1>2, <2>1 DEF CodePointAt, Plain
  <2>3. AtStart'
    BY <1>2, <2>1 DEF AtStart, SecondHalf, Push
  <2>4. "fffd" \in CodePoints /\ k <= limit
    BY <1>2, <2>1 DEF CodePoints
  <2>. QED  BY <1>1, <2>1, <2>2, <2>3, <2>4, CharacterKeeps
<1>5. CASE Low
  <2>1. k <= limit /\ chars[k] = "low" /\ Push("fffd", 1)
    BY <1>5 DEF Low
  <2>2. CodePointAt(k) = "fffd"
    BY <2>1 DEF CodePointAt, Plain
  <2>3. AtStart'
    BY <1>2, <2>1 DEF AtStart, SecondHalf, Push
  <2>4. "fffd" \in CodePoints
    BY DEF CodePoints
  <2>. QED  BY <1>1, <2>1, <2>2, <2>3, <2>4, CharacterKeeps
<1>6. CASE Other
  <2>. DEFINE codePoint == IF chars[k] = "high" THEN "surrogate" ELSE chars[k]
  <2>1. k <= limit /\ chars[k] # "low" /\ ~High /\ Push(codePoint, 1)
    BY <1>6 DEF Other
  <2>2. codePoint \in CodePoints
    BY <1>2, <2>1 DEF Units, CodePoints
  <2>3. codePoint = CodePointAt(k) \/ (k = limit /\ chars[limit] = "high" /\ codePoint = "surrogate")
    BY <1>2, <2>1 DEF CodePointAt, Units, Plain, High
  <2>4. AtStart'
    <3>1. k' = k + 1 /\ chars' = chars /\ limit' = limit
      BY <2>1 DEF Push
    <3>2. chars[k] = "high" => k = limit
      BY <1>2, <2>1 DEF High
    <3>. QED  BY <1>2, <3>1, <3>2 DEF AtStart, SecondHalf
  <2>. HIDE DEF codePoint
  <2>. QED  BY <1>1, <2>1, <2>2, <2>3, <2>4, CharacterKeeps
<1>. QED  BY <1>3, <1>4, <1>5, <1>6 DEF TextNext

LEMMA PathMeaning ==
    ASSUME MeaningInv, [DiagnosticsNext]_pathVars PROVE MeaningInv'
<1>. USE DEF MeaningInv
<1>1. TextInv'
  BY PathText
<1>2. CASE UNCHANGED textVars
  <2>1. UNCHANGED <<chars, limit, k, result>>
    BY <1>2 DEF textVars
  <2>2. AtStart' /\ KeepsMeaning'
    BY <2>1 DEF AtStart, KeepsMeaning, SecondHalf, CodePointAt
  <2>. QED  BY <1>1, <2>2
<1>3. CASE Convert
  BY <1>3, MeaningInductive DEF Convert
<1>4. CASE Formatted
  <2>1. (k = 1 /\ result = <<>>)'
    BY <1>4 DEF Formatted
  <2>. QED  BY <1>1, <2>1, UnreadKeepsNext
<1>. QED
  BY <1>2, <1>3, <1>4 DEF DiagnosticsNext, PrintLines, Save, ReadDump, BuildIndex,
     OpenLog, Annotate, RunAgain, AnnotateAgain, pathVars

(* Whatever the string and the limit, the text holds exactly the characters that
   begin in the units read, in their order, each as the string has it but for a
   high half in the last unit read. *)
THEOREM MeaningIsKept == ASSUME MaxUnits \in Nat PROVE DiagnosticsSpec => []KeepsMeaning
<1>1. DiagnosticsInit => MeaningInv
  <2>1. DiagnosticsInit => TextInv /\ k = 1 /\ result = <<>>
    BY TextStarts DEF DiagnosticsInit, TextInit
  <2>. QED  BY <2>1, UnreadKeeps DEF MeaningInv
<1>2. MeaningInv /\ [DiagnosticsNext]_pathVars => MeaningInv'
  BY PathMeaning
<1>3. MeaningInv => KeepsMeaning
  BY DEF MeaningInv
<1>. QED  BY <1>1, <1>2, <1>3, PTL DEF DiagnosticsSpec
=============================================================================
