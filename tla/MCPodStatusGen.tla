---------------------------- MODULE MCPodStatusGen ----------------------------
(***************************************************************************)
(* Instances of PodStatusGen for TLC.                                      *)
(***************************************************************************)
EXTENDS PodStatusGen

CONSTANTS i1, c1, c2

OneInit == {i1}
TwoContainers == {c1, c2}
\* c1 may be restarted.
C1Twice == [n \in Names |-> IF n = c1 THEN 2 ELSE 1]
AllPolicies == {"Always", "OnFailure", "Never"}
=============================================================================
