----------------------------- MODULE MCPodWorkers -----------------------------
(***************************************************************************)
(* Instances of PodWorkers for TLC.                                        *)
(***************************************************************************)
EXTENDS PodWorkers

CONSTANTS p1, p2, f1

\* An update that asks for nothing; the requests below differ from it.
Plain == [type |-> "Update", runtime |-> FALSE, deletion |-> FALSE,
          terminalPhase |-> FALSE, deletionGrace |-> Nil, evict |-> FALSE,
          ch |-> FALSE, statusFn |-> FALSE, override |-> Nil]

Add == [Plain EXCEPT !.type = "Create"]
Remove == [Plain EXCEPT !.type = "Kill"]
Delete == [Plain EXCEPT !.deletion = TRUE, !.deletionGrace = 3]
ForceDelete == [Plain EXCEPT !.deletion = TRUE, !.deletionGrace = 0]
Terminal == [Plain EXCEPT !.terminalPhase = TRUE]
Evict == [Plain EXCEPT !.type = "Kill", !.evict = TRUE, !.ch = TRUE,
                       !.statusFn = TRUE, !.override = 1]
EvictForceDeleted == [Evict EXCEPT !.deletion = TRUE, !.deletionGrace = 0, !.override = 2]
Orphan == [Plain EXCEPT !.type = "Kill", !.runtime = TRUE]
OrphanUpdate == [Plain EXCEPT !.runtime = TRUE]

AllRequests == {Plain, Add, Remove, Delete, ForceDelete, Terminal, Evict,
                EvictForceDeleted, Orphan, OrphanUpdate}

\* Static pods of the same name, which come and go.
StaticRequests == {Add, Remove}

OnePod == {p1}
TwoPods == {p1, p2}
NoPods == {}
Names == {f1}
SameName == [u \in UIDs |-> f1]
=============================================================================
