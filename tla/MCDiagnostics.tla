----------------------------- MODULE MCDiagnostics -----------------------------
(* A dump with one namespace, one type and two methods at two addresses; two
   threads that print. *)
EXTENDS Diagnostics, TLC

CONSTANTS t1, t2, m1, m2

BothThreads == {t1, t2}
AnyThread == Permutations(BothThreads)
NoBracket == {}
OneBracket == {m1}
=============================================================================
