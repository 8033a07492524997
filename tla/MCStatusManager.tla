--------------------------- MODULE MCStatusManager ---------------------------
(***************************************************************************)
(* Instances of StatusManager for TLC.                                     *)
(***************************************************************************)
EXTENDS StatusManager, TLC

CONSTANTS p1, p2, n1

TwoPods == {p1, p2}
PodSymmetry == Permutations(TwoPods)
OnePod == {p1}
OneName == {n1}
SameName == [u \in UIDs |-> n1]

C(state, up) == [state |-> state, ready |-> up, started |-> up]

Running == C("running", TRUE)
Completed == C("completed", FALSE)

\* A pod that nobody has reported on, one that a former kubelet left running,
\* and one that was failed from outside.
Fresh == NoStatus
LeftRunning == [phase |-> "Running", container |-> Running,
                cond |-> FALSE, gate |-> FALSE]
FailedOutside == [NoStatus EXCEPT !.phase = "Failed", !.gate = TRUE]

OnlyRuns == {Running}
RunsAndCompletes == {Running, Completed}
AnyOutcome == {Running, Completed, C("failed", FALSE)}
NewPods == {Fresh}
OldPods == {LeftRunning, FailedOutside}
=============================================================================
