----------------------------- MODULE MCPodConfig -----------------------------
(***************************************************************************)
(* Instances of PodConfig for TLC.                                         *)
(***************************************************************************)
EXTENDS PodConfig

CONSTANTS a1, a2, m1, s1, s2, fa, fs

\* a1 and a2 replace each other under one name in the API server; m1 is the
\* mirror pod of the static pods s1 and s2, which share one name in another source.
AllPods == {a1, a2, m1, s1, s2}
Mirrors == {m1}
Names == {fa, fs}
NameOf == [u \in UIDs |-> IF u \in {a1, a2} THEN fa ELSE fs]
BothSources == {"api", "other"}
SourceOf == [u \in UIDs |-> IF u \in {s1, s2} THEN "other" ELSE "api"]
=============================================================================
