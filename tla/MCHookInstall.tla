----------------------------- MODULE MCHookInstall -----------------------------
(* Model checking of HookInstall: threads, targets and addresses are
   interchangeable, and no run that uses the symmetry checks liveness. *)
EXTENDS HookInstall, TLC

Symmetry == Permutations(Threads) \cup Permutations(Targets) \cup Permutations(Addresses)
=============================================================================
