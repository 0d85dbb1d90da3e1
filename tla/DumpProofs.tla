------------------------------- MODULE DumpProofs -------------------------------
(***************************************************************************)
(* Theorems about the index that the symbolizer builds in Diagnostics: a   *)
(* dump of any length and any names gives each declaration the address,    *)
(* the namespace and the type that stand for it in the file.               *)
(***************************************************************************)
EXTENDS DiagnosticsProofs

(* The address of line a waits for a declaration. *)
Waiting(a) ==
    /\ read[a].kind = "rva"
    /\ \A l \in (a + 1)..Len(read) : read[l].kind = "other"

(* The address of line a is that of the declaration in line b. *)
Declared(a, b) ==
    /\ a < b
    /\ read[a].kind = "rva" /\ read[b].kind = "method"
    /\ \A l \in (a + 1)..(b - 1) : read[l].kind = "other"

Entry(a, b) ==
    [rva |-> read[a].of, namespace |-> LastOf("namespace", b, Absent),
     type |-> LastOf("type", b, Unknown), name |-> read[b].of]

(* What the parser carries from line to line is what the lines so far say. *)
Parsed ==
    /\ namespace = LastOf("namespace", Len(read) + 1, Absent)
    /\ current_type = LastOf("type", Len(read) + 1, Unknown)
    /\ \A a \in 1..Len(read) : Waiting(a) => pending_rva = read[a].of
    /\ pending_rva # Absent => \E a \in 1..Len(read) : Waiting(a)
    /\ \A m : m \in methods <=>
           \E a, b \in 1..Len(read) : Declared(a, b) /\ m = Entry(a, b)

DumpInv ==
    /\ read \in Seq(DumpLines)
    /\ stage \in {"text", "log", "dump"} => Parsed
    /\ stage \notin {"text", "log", "dump"} => read = <<>>

LEMMA DumpStarts == DiagnosticsInit => DumpInv
<1>. SUFFICES ASSUME DiagnosticsInit PROVE DumpInv
  OBVIOUS
<1>1. /\ read = <<>> /\ namespace = Absent /\ current_type = Unknown
      /\ pending_rva = Absent /\ methods = {} /\ stage = "text"
  BY DEF DiagnosticsInit, SymbolInit
<1>2. Len(read) = 0 /\ read \in Seq(DumpLines) /\ 1..Len(read) = {}
  BY <1>1
<1>3. ASSUME NEW kind, NEW default PROVE LastOf(kind, Len(read) + 1, default) = default
  <2>1. {i \in 1..((Len(read) + 1) - 1) : read[i].kind = kind} = {}
    BY <1>2
  <2>. QED  BY <2>1, Zenon DEF LastOf
<1>. QED  BY <1>1, <1>2, <1>3, Zenon DEF DumpInv, Parsed

(* The next line of a dump. *)
LEMMA LineAdded ==
    ASSUME read \in Seq(DumpLines), NEW kind, NEW value, Line(kind, value),
           [kind |-> kind, of |-> value] \in DumpLines
    PROVE  /\ read' \in Seq(DumpLines)
           /\ Len(read') = Len(read) + 1 /\ Len(read) \in Nat
           /\ \A n \in 1..Len(read) : read'[n] = read[n]
           /\ read'[Len(read) + 1].kind = kind /\ read'[Len(read) + 1].of = value
<1>. DEFINE line == [kind |-> kind, of |-> value]
<1>1. read' = Append(read, line) /\ line \in DumpLines /\ line.kind = kind /\ line.of = value
  BY DEF Line
<1>. HIDE DEF line
<1>. QED  BY <1>1, AppendProperties

(* What the last line of a kind says, when one more line has been read. *)
LEMMA LastOfAdded ==
    ASSUME NEW size \in Nat, \A n \in 1..size : read'[n] = read[n],
           NEW kind, NEW default
    PROVE  /\ \A j \in 1..(size + 1) :
                 LastOf(kind, j, default)' = LastOf(kind, j, default)
           /\ LastOf(kind, size + 2, default)' =
                 IF read'[size + 1].kind = kind THEN read'[size + 1].of
                 ELSE LastOf(kind, size + 1, default)
<1>. DEFINE Earlier(j) == {i \in 1..(j - 1) : read[i].kind = kind}
            EarlierNow(j) == {i \in 1..(j - 1) : read'[i].kind = kind}
            last == size + 1
<1>1. ASSUME NEW j \in 1..last PROVE EarlierNow(j) = Earlier(j)
  <2>1. \A i \in 1..(j - 1) : i \in 1..size
    OBVIOUS
  <2>. QED  BY <2>1
<1>2. ASSUME NEW j \in 1..(last + 1), EarlierNow(j) # {}
      PROVE  Max(EarlierNow(j)) \in EarlierNow(j)
                 /\ \A i \in EarlierNow(j) : i <= Max(EarlierNow(j))
  <2>1. EarlierNow(j) \subseteq Nat /\ j \in Nat /\ \A i \in EarlierNow(j) : i <= j
    OBVIOUS
  <2>. HIDE DEF EarlierNow
  <2>. QED  BY <1>2, <2>1, MaxIn
<1>3. ASSUME NEW j \in 1..(last + 1)
      PROVE  LastOf(kind, j, default)' =
                 IF EarlierNow(j) = {} THEN default ELSE read'[Max(EarlierNow(j))].of
  BY DEF LastOf
<1>4. ASSUME NEW j \in 1..last
      PROVE  LastOf(kind, j, default)' = LastOf(kind, j, default)
  <2>1. LastOf(kind, j, default) =
            IF Earlier(j) = {} THEN default ELSE read[Max(Earlier(j))].of
    BY DEF LastOf
  <2>2. j \in 1..(last + 1)
    OBVIOUS
  <2>3. ASSUME EarlierNow(j) # {} PROVE Max(EarlierNow(j)) \in 1..size
    <3>1. Max(EarlierNow(j)) \in EarlierNow(j)
      BY <1>2, <2>2, <2>3
    <3>. QED  BY <3>1
  <2>4. EarlierNow(j) # {} => read'[Max(EarlierNow(j))] = read[Max(EarlierNow(j))]
    BY <2>3
  <2>. HIDE DEF Earlier, EarlierNow
  <2>. QED  BY <1>1, <1>3, <2>1, <2>2, <2>4, Zenon
<1>5. CASE read'[last].kind = kind
  <2>1. last + 1 \in 1..(last + 1) /\ last \in EarlierNow(last + 1)
    BY <1>5
  <2>2. \A i \in EarlierNow(last + 1) : i \in Nat /\ i <= last
    OBVIOUS
  <2>. HIDE DEF EarlierNow
  <2>3. /\ Max(EarlierNow(last + 1)) \in EarlierNow(last + 1)
        /\ last <= Max(EarlierNow(last + 1))
    BY <1>2, <2>1, Zenon
  <2>4. Max(EarlierNow(last + 1)) = last
    BY <2>2, <2>3
  <2>5. LastOf(kind, last + 1, default)' = read'[last].of
    BY <1>3, <2>1, <2>4, Zenon
  <2>6. last + 1 = size + 2
    OBVIOUS
  <2>. QED  BY <1>4, <1>5, <2>5, <2>6
<1>6. CASE read'[last].kind # kind
  <2>1. last + 1 \in 1..(last + 1) /\ last \in 1..(last + 1) /\ last \in 1..last
    OBVIOUS
  <2>2. EarlierNow(last + 1) = EarlierNow(last)
    <3>1. 1..((last + 1) - 1) = 1..(last - 1) \cup {last}
      OBVIOUS
    <3>. QED  BY <1>6, <3>1
  <2>. HIDE DEF EarlierNow
  <2>3. LastOf(kind, last + 1, default)' = LastOf(kind, last, default)'
    BY <1>3, <2>1, <2>2, Zenon
  <2>4. last + 1 = size + 2
    OBVIOUS
  <2>. QED  BY <1>4, <1>6, <2>1, <2>3, <2>4
<1>. QED  BY <1>5, <1>6

LEMMA LastOfKept ==
    ASSUME NEW size \in Nat, \A n \in 1..size : read'[n] = read[n],
           NEW kind, NEW default, NEW j \in 1..(size + 1)
    PROVE  LastOf(kind, j, default)' = LastOf(kind, j, default)
BY LastOfAdded

(* The six kinds of line: what each does to the state of the parser. *)
LEMMA ParserKeeps ==
    ASSUME DumpFits, read \in Seq(DumpLines), Parsed, NEW kind, NEW value, Line(kind, value),
           [kind |-> kind, of |-> value] \in DumpLines,
           namespace' = IF kind = "namespace" THEN value ELSE namespace,
           current_type' = IF kind = "type" THEN value ELSE current_type,
           pending_rva' = IF kind = "rva" THEN value
                          ELSE IF kind = "other" THEN pending_rva ELSE Absent,
           kind # "method" => methods' = methods,
           kind = "method" => methods' = methods \cup
               {[rva |-> r, namespace |-> namespace, type |-> current_type, name |-> value] :
                    r \in {pending_rva} \ {Absent}}
    PROVE  read' \in Seq(DumpLines) /\ Parsed'
<1>1. PICK size \in Nat : size = Len(read)
  OBVIOUS
<1>. DEFINE last == size + 1
<1>2. /\ read' \in Seq(DumpLines) /\ Len(read') = last
      /\ \A n \in 1..size : read'[n] = read[n]
      /\ read'[last].kind = kind /\ read'[last].of = value
      /\ 1..last = 1..size \cup {last}
      /\ last \notin 1..size
  BY <1>1, LineAdded
<1>3. ASSUME NEW one, NEW default
      PROVE  /\ \A j \in 1..last : LastOf(one, j, default)' = LastOf(one, j, default)
             /\ LastOf(one, last + 1, default)' =
                   IF kind = one THEN value ELSE LastOf(one, last, default)
  <2>1. \A n \in 1..size : read'[n] = read[n]
    BY <1>2
  <2>2. ASSUME NEW j \in 1..(size + 1)
        PROVE  LastOf(one, j, default)' = LastOf(one, j, default)
    BY <2>1, LastOfKept
  <2>3. LastOf(one, size + 2, default)' =
            IF read'[size + 1].kind = one THEN read'[size + 1].of
            ELSE LastOf(one, size + 1, default)
    BY <2>1, LastOfAdded
  <2>4. size + 2 = last + 1
    OBVIOUS
  <2>5. LastOf(one, last + 1, default)' = LastOf(one, size + 2, default)'
    BY <2>4 DEF LastOf
  <2>. QED  BY <1>2, <2>2, <2>3, <2>5, Zenon
<1>4. /\ namespace' = LastOf("namespace", last + 1, Absent)'
      /\ current_type' = LastOf("type", last + 1, Unknown)'
  BY <1>1, <1>3 DEF Parsed
<1>5. ASSUME NEW a \in 1..size PROVE Waiting(a)' <=> kind = "other" /\ Waiting(a)
  <2>1. (a + 1)..last = ((a + 1)..size) \cup {last} /\ \A l \in (a + 1)..size : l \in 1..size
    OBVIOUS
  <2>. QED  BY <1>1, <1>2, <2>1, Zenon DEF Waiting
<1>6. Waiting(last)' <=> kind = "rva"
  <2>1. (last + 1)..last = {}
    OBVIOUS
  <2>. QED  BY <1>2, <2>1, Zenon DEF Waiting
<1>7. \A a \in 1..last : Waiting(a)' => pending_rva' = read'[a].of
  <2>1. ASSUME NEW a \in 1..size, Waiting(a)' PROVE pending_rva' = read'[a].of
    BY <1>1, <1>2, <1>5, <2>1 DEF Parsed
  <2>2. Waiting(last)' => pending_rva' = read'[last].of
    BY <1>2, <1>6
  <2>. QED  BY <1>2, <2>1, <2>2
<1>8. pending_rva' # Absent => \E a \in 1..last : Waiting(a)'
  <2>1. CASE kind = "rva"
    BY <1>2, <1>6, <2>1
  <2>2. CASE kind = "other"
    BY <1>1, <1>2, <1>5, <2>2 DEF Parsed
  <2>. QED  BY <2>1, <2>2
<1>9. ASSUME NEW a \in 1..last, NEW b \in 1..size
      PROVE  /\ Declared(a, b)' <=> a \in 1..size /\ Declared(a, b)
             /\ Declared(a, b) /\ a \in 1..size => Entry(a, b)' = Entry(a, b)
  <2>1. CASE a = last
    BY <2>1 DEF Declared
  <2>2. CASE a \in 1..size
    <3>1. \A l \in (a + 1)..(b - 1) : l \in 1..size
      OBVIOUS
    <3>2. Declared(a, b)' <=> Declared(a, b)
      BY <1>2, <2>2, <3>1, Zenon DEF Declared
    <3>3. b \in 1..last
      OBVIOUS
    <3>4. Entry(a, b)' = Entry(a, b)
      BY <1>2, <1>3, <2>2, <3>3, Zenon DEF Entry
    <3>. QED  BY <2>2, <3>2, <3>4
  <2>. QED  BY <1>2, <2>1, <2>2
<1>10. ASSUME NEW a \in 1..last
       PROVE  Declared(a, last)' <=> kind = "method" /\ a \in 1..size /\ Waiting(a)
  <2>1. CASE a = last
    BY <1>2, <2>1 DEF Declared
  <2>2. CASE a \in 1..size
    <3>1. a < last /\ last - 1 = size /\ \A l \in (a + 1)..size : l \in 1..size
      BY <2>2
    <3>. QED  BY <1>1, <1>2, <2>2, <3>1, Zenon DEF Declared, Waiting
  <2>. QED  BY <1>2, <2>1, <2>2
<1>11. ASSUME NEW a \in 1..size, Waiting(a), kind = "method"
       PROVE  /\ pending_rva # Absent
              /\ Entry(a, last)' = [rva |-> pending_rva, namespace |-> namespace,
                                    type |-> current_type, name |-> value]
  <2>1. read[a] \in DumpLines /\ read[a].kind = "rva" /\ pending_rva = read[a].of
    BY <1>1, <1>11 DEF Waiting, Parsed
  <2>2. read[a].of \in Addresses
    BY <2>1 DEF DumpLines
  <2>3. last \in 1..last
    OBVIOUS
  <2>4. /\ LastOf("namespace", last, Absent)' = namespace
        /\ LastOf("type", last, Unknown)' = current_type
    BY <1>1, <1>3, <2>3 DEF Parsed
  <2>5. pending_rva # Absent
    BY <2>1, <2>2 DEF DumpFits
  <2>. QED  BY <1>2, <2>1, <2>4, <2>5, Zenon DEF Entry
<1>12. ASSUME NEW m
       PROVE  m \in methods' <=> \E a, b \in 1..last : Declared(a, b)' /\ m = Entry(a, b)'
  <2>1. m \in methods <=> \E a, b \in 1..size : Declared(a, b) /\ m = Entry(a, b)
    BY <1>1 DEF Parsed
  <2>2. (\E a, b \in 1..last : Declared(a, b)' /\ m = Entry(a, b)')
          <=> \/ \E a, b \in 1..size : Declared(a, b) /\ m = Entry(a, b)
              \/ \E a \in 1..size : kind = "method" /\ Waiting(a) /\ m = Entry(a, last)'
    <3>1. ASSUME NEW a \in 1..last, NEW b \in 1..last, Declared(a, b)', m = Entry(a, b)'
          PROVE  \/ \E c, d \in 1..size : Declared(c, d) /\ m = Entry(c, d)
                 \/ \E c \in 1..size : kind = "method" /\ Waiting(c) /\ m = Entry(c, last)'
      <4>1. CASE b \in 1..size
        BY <1>9, <3>1, <4>1
      <4>2. CASE b = last
        BY <1>10, <3>1, <4>2
      <4>. QED  BY <1>2, <4>1, <4>2
    <3>2. ASSUME NEW a \in 1..size, NEW b \in 1..size, Declared(a, b), m = Entry(a, b)
          PROVE  \E c, d \in 1..last : Declared(c, d)' /\ m = Entry(c, d)'
      <4>1. a \in 1..last /\ b \in 1..last
        BY <1>2
      <4>. QED  BY <1>9, <3>2, <4>1
    <3>3. ASSUME NEW a \in 1..size, kind = "method", Waiting(a), m = Entry(a, last)'
          PROVE  \E c, d \in 1..last : Declared(c, d)' /\ m = Entry(c, d)'
      <4>1. a \in 1..last /\ last \in 1..last
        BY <1>2
      <4>. QED  BY <1>10, <3>3, <4>1
    <3>. QED  BY <3>1, <3>2, <3>3
  <2>3. CASE kind # "method"
    BY <2>1, <2>2, <2>3
  <2>4. CASE kind = "method"
    <3>. DEFINE entry == [rva |-> pending_rva, namespace |-> namespace,
                          type |-> current_type, name |-> value]
    <3>1. m \in methods' <=> m \in methods \/ (pending_rva # Absent /\ m = entry)
      BY <2>4, Zenon
    <3>2. pending_rva # Absent => \E a \in 1..size : Waiting(a)
      BY <1>1 DEF Parsed
    <3>. QED  BY <1>11, <2>1, <2>2, <2>4, <3>1, <3>2, Zenon
  <2>. QED  BY <2>3, <2>4
<1>13. Parsed'
  <2>1. /\ (namespace = LastOf("namespace", Len(read) + 1, Absent))'
        /\ (current_type = LastOf("type", Len(read) + 1, Unknown))'
    BY <1>2, <1>4 DEF LastOf
  <2>. HIDE DEF last
  <2>2. (\A a \in 1..Len(read) : Waiting(a) => pending_rva = read[a].of)'
    BY <1>2, <1>7
  <2>3. (pending_rva # Absent => \E a \in 1..Len(read) : Waiting(a))'
    BY <1>2, <1>8
  <2>4. (\A m : m \in methods <=>
              \E a, b \in 1..Len(read) : Declared(a, b) /\ m = Entry(a, b))'
    BY <1>2, <1>12
  <2>. QED  BY <2>1, <2>2, <2>3, <2>4, Zenon DEF Parsed
<1>. QED  BY <1>2, <1>13

LEMMA PathDump ==
    ASSUME DumpFits, DumpInv, [DiagnosticsNext]_pathVars
    PROVE  DumpInv'
<1>1. ASSUME UNCHANGED dumpVars,
             (stage' \in {"text", "log", "dump"}) <=> (stage \in {"text", "log", "dump"})
      PROVE  DumpInv'
  <2>1. UNCHANGED <<read, namespace, current_type, pending_rva, methods>>
    BY <1>1 DEF dumpVars
  <2>2. \A a : Waiting(a)' <=> Waiting(a)
    BY <2>1 DEF Waiting
  <2>3. \A a, b : (Declared(a, b)' <=> Declared(a, b)) /\ Entry(a, b)' = Entry(a, b)
    BY <2>1 DEF Declared, Entry, LastOf
  <2>4. /\ (namespace = LastOf("namespace", Len(read) + 1, Absent))'
            <=> namespace = LastOf("namespace", Len(read) + 1, Absent)
        /\ (current_type = LastOf("type", Len(read) + 1, Unknown))'
            <=> current_type = LastOf("type", Len(read) + 1, Unknown)
    BY <2>1 DEF LastOf
  <2>5. Parsed => Parsed'
    BY <2>1, <2>2, <2>3, <2>4, Zenon DEF Parsed
  <2>. QED  BY <1>1, <2>1, <2>5 DEF DumpInv
<1>2. ASSUME ReadDump PROVE DumpInv'
  <2>1. stage = "dump" /\ stage' = stage /\ Parsed /\ read \in Seq(DumpLines)
    BY <1>2 DEF ReadDump, DumpInv
  <2>2. ASSUME read' \in Seq(DumpLines), Parsed' PROVE DumpInv'
    BY <2>1, <2>2, Zenon DEF DumpInv
  <2>3. ASSUME NEW n \in Namespaces, Namespace(n) PROVE DumpInv'
    <3>1. [kind |-> "namespace", of |-> n] \in DumpLines
      BY DEF DumpLines
    <3>. QED  BY <2>1, <2>2, <2>3, <3>1, ParserKeeps DEF Namespace
  <2>4. ASSUME NEW t \in Types, Type(t) PROVE DumpInv'
    <3>1. [kind |-> "type", of |-> t] \in DumpLines
      BY DEF DumpLines
    <3>. QED  BY <2>1, <2>2, <2>4, <3>1, ParserKeeps DEF Type
  <2>5. ASSUME NEW r \in Addresses, Rva(r) PROVE DumpInv'
    <3>1. [kind |-> "rva", of |-> r] \in DumpLines
      BY DEF DumpLines
    <3>. QED  BY <2>1, <2>2, <2>5, <3>1, ParserKeeps DEF Rva
  <2>6. ASSUME NEW m \in Names, Method(m) PROVE DumpInv'
    <3>1. [kind |-> "method", of |-> m] \in DumpLines
      BY DEF DumpLines
    <3>. QED  BY <2>1, <2>2, <2>6, <3>1, ParserKeeps DEF Method
  <2>7. CASE Comment
    <3>1. [kind |-> "comment", of |-> Absent] \in DumpLines
      BY DEF DumpLines
    <3>. QED  BY <2>1, <2>2, <2>7, <3>1, ParserKeeps DEF Comment
  <2>8. CASE Blank
    <3>1. [kind |-> "other", of |-> Absent] \in DumpLines
      BY DEF DumpLines
    <3>. QED  BY <2>1, <2>2, <2>8, <3>1, ParserKeeps DEF Blank
  <2>. QED
    BY <1>2, <2>3, <2>4, <2>5, <2>6, <2>7, <2>8 DEF ReadDump, parse_dump
<1>3. CASE BuildIndex
  <2>1. read' = <<>> /\ stage' = "index"
    BY <1>3 DEF BuildIndex
  <2>. QED  BY <2>1 DEF DumpInv
<1>4. CASE Convert \/ Formatted \/ PrintLines \/ UNCHANGED pathVars
  BY <1>1, <1>4 DEF Convert, Formatted, PrintLines, pathVars, symbolVars
<1>5. CASE Save \/ OpenLog \/ RunAgain
  BY <1>1, <1>5 DEF Save, OpenLog, RunAgain
<1>6. CASE Annotate \/ AnnotateAgain
  BY <1>1, <1>6 DEF Annotate, AnnotateAgain, symbolize_line
<1>. QED
  BY <1>2, <1>3, <1>4, <1>5, <1>6 DEF DiagnosticsNext

LEMMA ListingIsExact ==
    ASSUME Parsed, read \in Seq(DumpLines) PROVE MethodsExact
<1>. DEFINE pairs == {q \in (DOMAIN read) \X (DOMAIN read) :
                         /\ q[1] < q[2]
                         /\ read[q[1]].kind = "rva" /\ read[q[2]].kind = "method"
                         /\ \A i \in (q[1] + 1)..(q[2] - 1) : read[i].kind = "other"}
            listed == {Entry(p[1], p[2]) : p \in pairs}
<1>1. DOMAIN read = 1..Len(read)
  OBVIOUS
<1>2. ASSUME NEW m \in methods PROVE m \in listed
  <2>1. PICK a, b \in 1..Len(read) : Declared(a, b) /\ m = Entry(a, b)
    BY Zenon DEF Parsed
  <2>2. <<a, b>> \in pairs
    BY <1>1, <2>1 DEF Declared
  <2>. HIDE DEF pairs
  <2>. QED  BY <2>1, <2>2
<1>3. ASSUME NEW m \in listed PROVE m \in methods
  <2>1. PICK p \in pairs : m = Entry(p[1], p[2])
    OBVIOUS
  <2>2. p[1] \in 1..Len(read) /\ p[2] \in 1..Len(read) /\ Declared(p[1], p[2])
    BY <1>1 DEF Declared
  <2>. QED  BY <2>1, <2>2, Zenon DEF Parsed
<1>4. methods = listed
  BY <1>2, <1>3
<1>. QED  BY <1>4 DEF MethodsExact, Entry

(* However long the dump is and whatever it names, the index lists exactly its
   declarations, each with the address, namespace and type it has there. *)
THEOREM ListedAsDeclared == ASSUME DumpFits PROVE DiagnosticsSpec => []MethodsExact
<1>1. DumpInv => MethodsExact
  <2>1. read = <<>> => MethodsExact
    BY DEF MethodsExact
  <2>. QED  BY <2>1, ListingIsExact DEF DumpInv
<1>2. DumpFits /\ DumpInv /\ [DiagnosticsNext]_pathVars => DumpInv'
  BY PathDump
<1>. QED  BY <1>1, <1>2, DumpStarts, PTL DEF DiagnosticsSpec
=============================================================================
