------------------------------- MODULE Symbolizer -------------------------------
(***************************************************************************)
(* tools/symbolize_log.py: a dump of the game's methods is read line by    *)
(* line into an index of addresses, and the lines of a log are annotated   *)
(* with the method nearest below their call site.                          *)
(*                                                                         *)
(* A line of the dump is its kind and the one name or address in it.       *)
(* "other" is what may stand between an address and its declaration: a     *)
(* blank line, an attribute, a field or a brace; "comment" is any other    *)
(* comment.  A note is the address it names with its distance; of the      *)
(* several names of one address all are shown.                             *)
(***************************************************************************)
EXTENDS Naturals, Sequences, FiniteSetsExt

CONSTANTS
    Namespaces, Types, Names,   \* what a dump may name
    Bracketed,                  \* the Names with a "]" in them
    Addresses,                  \* addresses of methods
    Unknown,                    \* the type before the first declaration of one
    Absent,                     \* no address, no call site, no annotation
    MaxDump,                    \* longest dump considered
    MaxOffset                   \* --max-offset

VARIABLES
    read,                       \* history: the lines of the dump so far
    namespace, current_type, pending_rva, methods,
    input, output               \* lines of the log to annotate, and annotated

dumpVars == <<read, namespace, current_type, pending_rva, methods>>
symbolVars == <<dumpVars, input, output>>

DumpLines ==
    [kind : {"namespace"}, of : Namespaces] \cup [kind : {"type"}, of : Types]
        \cup [kind : {"rva"}, of : Addresses] \cup [kind : {"method"}, of : Names]
        \cup [kind : {"comment", "other"}, of : {Absent}]

SymbolInit ==
    /\ read = <<>> /\ namespace = Absent /\ current_type = Unknown
    /\ pending_rva = Absent /\ methods = {}
    /\ input = <<>> /\ output = <<>>

Line(kind, value) ==
    /\ Len(read) < MaxDump
    /\ read' = Append(read, [kind |-> kind, of |-> value])
    /\ UNCHANGED <<input, output>>

Namespace(n) ==
    /\ Line("namespace", n)
    /\ namespace' = n /\ pending_rva' = Absent
    /\ UNCHANGED <<current_type, methods>>

(* Mutant: an address may wait for a declaration of the next type. *)
TypeKeeps(t) ==
    /\ Line("type", t)
    /\ current_type' = t
    /\ UNCHANGED <<namespace, pending_rva, methods>>

Type(t) ==
    /\ Line("type", t)
    /\ current_type' = t /\ pending_rva' = Absent
    /\ UNCHANGED <<namespace, methods>>

Rva(r) ==
    /\ Line("rva", r)
    /\ pending_rva' = r
    /\ UNCHANGED <<namespace, current_type, methods>>

(* Without an address that waits, a declaration is passed over. *)
Method(m) ==
    /\ Line("method", m)
    /\ methods' = methods \cup
           {[rva |-> r, namespace |-> namespace, type |-> current_type, name |-> m] :
                r \in {pending_rva} \ {Absent}}
    /\ pending_rva' = Absent
    /\ UNCHANGED <<namespace, current_type>>

Comment ==
    /\ Line("comment", Absent)
    /\ pending_rva' = Absent
    /\ UNCHANGED <<namespace, current_type, methods>>

Blank ==
    /\ Line("other", Absent)
    /\ UNCHANGED <<namespace, current_type, pending_rva, methods>>

parse_dump ==
    \/ \E n \in Namespaces : Namespace(n)
    \/ \E t \in Types : Type(t)
    \/ \E r \in Addresses : Rva(r)
    \/ \E m \in Names : Method(m)
    \/ Comment
    \/ Blank

NamesAt(r) == {m \in methods : m.rva = r}

Near(start, site) ==
    IF site - start > MaxOffset THEN Absent ELSE [at |-> start, offset |-> site - start]

(* Mutant: bisect_left in the place of bisect_right. *)
ResolveLeft(site) ==
    LET below == {m.rva : m \in {one \in methods : one.rva < site}}
    IN  IF below = {} THEN Absent ELSE Near(Max(below), site)

(* RvaIndex.resolve: bisect_right(rvas, site) - 1. *)
resolve_rva(site) ==
    LET below == {m.rva : m \in {one \in methods : one.rva <= site}}
    IN  IF below = {} THEN Absent ELSE Near(Max(below), site)

(* Mutant: no line counts as annotated. *)
NeverAnnotated(notes) == FALSE

(* ANNOTATION_RE: one note that ends the line, with no "]" inside it. *)
annotated(notes) ==
    /\ notes # <<>>
    /\ \A m \in NamesAt(notes[Len(notes)].at) : m.name \notin Bracketed

(* symbolize_lines, one line: site is the call site in libil2cpp.so, if any. *)
symbolize_line ==
    /\ input # <<>>
    /\ LET line == Head(input)
           note == IF line.site = Absent \/ annotated(line.notes) THEN Absent
                   ELSE resolve_rva(line.site)
       IN  output' = Append(output,
               IF note = Absent THEN line
               ELSE [line EXCEPT !.notes = Append(line.notes, note)])
    /\ input' = Tail(input)
    /\ UNCHANGED dumpVars

-----------------------------------------------------------------------------
(* Properties.                                                             *)

LastOf(kind, j, default) ==
    LET earlier == {i \in 1..(j - 1) : read[i].kind = kind}
    IN  IF earlier = {} THEN default ELSE read[Max(earlier)].of

(* A declaration is listed under exactly the address that stands last before
   it with nothing but blank lines, attributes and members between, and under
   the last namespace and type: an address left over is never given to a
   method of another type. *)
MethodsExact ==
    read # <<>> => methods =
        {[rva |-> read[p[1]].of, namespace |-> LastOf("namespace", p[2], Absent),
          type |-> LastOf("type", p[2], Unknown), name |-> read[p[2]].of] :
            p \in {q \in (DOMAIN read) \X (DOMAIN read) :
                      /\ q[1] < q[2]
                      /\ read[q[1]].kind = "rva" /\ read[q[2]].kind = "method"
                      /\ \A i \in (q[1] + 1)..(q[2] - 1) : read[i].kind = "other"}}

(* A method at r is near enough below the site, with no other in between. *)
Covers(r, site) ==
    /\ r <= site /\ site <= r + MaxOffset
    /\ \A m \in methods : ~(r < m.rva /\ m.rva <= site)

LineRight(line) ==
    IF line.site = Absent THEN line.notes = <<>>
    ELSE /\ \A n \in DOMAIN line.notes :
               /\ NamesAt(line.notes[n].at) # {} /\ Covers(line.notes[n].at, line.site)
               /\ line.site = line.notes[n].at + line.notes[n].offset
         /\ (\E m \in methods : Covers(m.rva, line.site)) => line.notes # <<>>

(* However often a log is annotated, every note of a line names an address with
   no other method between it and the call site and near enough to it, and a
   line with such an address has a note (symbolize_log.py:105-118). *)
AnnotatedRight == \A n \in DOMAIN output : LineRight(output[n])

(* A log that has been annotated may be annotated again: no line gets a
   second note (test_symbolize_log.py, test_does_not_duplicate_annotation). *)
AnnotatedOnce == \A n \in DOMAIN output : Len(output[n].notes) <= 1
=============================================================================
