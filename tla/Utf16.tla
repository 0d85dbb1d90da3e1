--------------------------------- MODULE Utf16 ---------------------------------
(***************************************************************************)
(* il2cpp.cpp: to_utf8, the conversion of a managed string for the log.    *)
(*                                                                         *)
(* A code unit is known by its class: one that becomes 1, 2 or 3 bytes of  *)
(* UTF-8, or a high or low surrogate.  What append_utf8 is given is one of *)
(* the first three, a pair of surrogates, U+FFFD, or a surrogate taken for *)
(* a code point of its own, whose three bytes are not UTF-8.               *)
(***************************************************************************)
EXTENDS Naturals, Sequences, SequencesExt

CONSTANT MaxUnits       \* longest string considered

Plain == {"one", "two", "three"}
Units == Plain \cup {"high", "low"}
CodePoints == Plain \cup {"pair", "fffd", "surrogate"}

VARIABLES
    chars,       \* string_chars of the managed string
    limit,       \* min(length, max_code_units)
    k,           \* the loop variable, from 1
    result       \* what has been appended

textVars == <<chars, limit, k, result>>

TextInit ==
    /\ chars \in BoundedSeq(Units, MaxUnits)
    /\ limit \in 0..Len(chars)
    /\ k = 1
    /\ result = <<>>

High == k <= limit /\ chars[k] = "high" /\ k + 1 <= limit

Push(codePoint, units) ==
    /\ result' = Append(result, codePoint)
    /\ k' = k + units
    /\ UNCHANGED <<chars, limit>>

(* Mutant: the low half is looked at and not consumed. *)
PairKeepsLow == High /\ chars[k + 1] = "low" /\ Push("pair", 1)

(* A high surrogate with its low half. *)
Pair == High /\ chars[k + 1] = "low" /\ Push("pair", 2)

(* A high surrogate before anything else. *)
Unpaired == High /\ chars[k + 1] # "low" /\ Push("fffd", 1)

(* Mutant: a low surrogate is encoded as it stands. *)
LowAsIs == k <= limit /\ chars[k] = "low" /\ Push("surrogate", 1)

Low == k <= limit /\ chars[k] = "low" /\ Push("fffd", 1)

(* All the rest, a high surrogate in the last place kept included. *)
Other ==
    /\ k <= limit /\ chars[k] # "low" /\ ~High
    /\ Push(IF chars[k] = "high" THEN "surrogate" ELSE chars[k], 1)

TextNext == Pair \/ Unpaired \/ Low \/ Other

TextSpec == TextInit /\ [][TextNext]_textVars

TextDone == k > limit

-----------------------------------------------------------------------------
(* Properties.                                                             *)

(* What the string says, read without a limit: a low half after a high one
   belongs to it, and a half that is alone says nothing. *)
SecondHalf(n) == chars[n] = "low" /\ n > 1 /\ chars[n - 1] = "high"

CodePointAt(n) ==
    IF chars[n] = "high" /\ n < Len(chars) /\ chars[n + 1] = "low" THEN "pair"
    ELSE IF chars[n] \in Plain THEN chars[n]
    ELSE "fffd"

(* The text is UTF-8 but for its last character, and that is not exactly when
   the last unit read is a high half: whether the limit has cut it from its
   low half or the string ends with it, it is encoded as it stands, where a
   half that is alone further up becomes U+FFFD (il2cpp.cpp:161). *)
Utf8ButLast ==
    /\ \A n \in DOMAIN result :
          result[n] = "surrogate" => n = Len(result) /\ TextDone
    /\ TextDone /\ limit > 0 =>
          (Last(result) = "surrogate" <=> chars[limit] = "high")

(* Nothing is lost, doubled or moved up to the limit: what has been appended are
   the characters that begin in the units read so far, in their order, each
   as the whole string has it.  Only a high half in the last unit read, cut
   from its pair or alone, is left as it stands (il2cpp.cpp:159-173). *)
KeepsMeaning ==
    \E from \in [DOMAIN result -> 1..limit] :
        /\ \A m, n \in DOMAIN result : m < n => from[m] < from[n]
        /\ {from[n] : n \in DOMAIN result} = {n \in 1..limit : n < k /\ ~SecondHalf(n)}
        /\ \A n \in DOMAIN result :
              \/ result[n] = CodePointAt(from[n])
              \/ from[n] = limit /\ chars[limit] = "high" /\ result[n] = "surrogate"
=============================================================================
