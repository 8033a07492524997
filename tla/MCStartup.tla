------------------------------- MODULE MCStartup -------------------------------
(* Startup for TLC: keys and UIDs are interchangeable, but the run checks   *)
(* liveness, so that no symmetry is declared.                               *)
EXTENDS Startup
=============================================================================
