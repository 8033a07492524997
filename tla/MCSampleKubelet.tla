--------------------------- MODULE MCSampleKubelet ---------------------------
(***************************************************************************)
(* Instances of SampleKubelet for TLC.                                     *)
(***************************************************************************)
EXTENDS SampleKubelet

CONSTANT p1

Add == [Update EXCEPT !.type = "Create"]
AddDeleting == [DeleteUpdate EXCEPT !.type = "Create"]
AddTerminal == [Add EXCEPT !.terminalPhase = TRUE]

Adds == {Add, AddDeleting, AddTerminal}
PlainAdds == {Add}

OnePod == {p1}

\* Two containers with a command, one without; or a single container.
ThreeContainers == [u \in UIDs |-> <<TRUE, FALSE, TRUE>>]
TwoContainers == [u \in UIDs |-> <<TRUE, TRUE>>]
OneContainer == [u \in UIDs |-> <<TRUE>>]
=============================================================================
