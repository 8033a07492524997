------------------------------- MODULE MCProber -------------------------------
(***************************************************************************)
(* Instances of Prober for TLC.                                            *)
(***************************************************************************)
EXTENDS Prober

TwoProbes == {"startup", "readiness"}
OneSuccess == [t \in Probes |-> 1]
\* The startup probe has to fail twice in a row.
StartupTwice == [t \in Probes |-> IF t = "startup" THEN 2 ELSE 1]
=============================================================================
