------------------------------- MODULE MCStartup -------------------------------
(* Model checking of Startup: the loops are as short as the settle loop
   allows; the ratio of StableChecks to MaxGap is what matters. *)
EXTENDS Startup
=============================================================================
