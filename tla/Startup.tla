-------------------------------- MODULE Startup --------------------------------
(***************************************************************************)
(* The start of the kubelet (cmd/app/kubelet.go) up to its main loop, over *)
(* any number of starts: the certificate bootstrap (pkg/bootstrap), the    *)
(* registration of the node (pkg/node) and its lease (pkg/node/lease).     *)
(* The files of ./cert survive a crash, everything else of the process is  *)
(* lost.  The API server, the operator and the lease controller of         *)
(* component-helpers are external.                                         *)
(***************************************************************************)
EXTENDS Naturals

CONSTANTS
  Keys,       \* private keys; a new key is one that nothing refers to any more
  Uids,       \* UIDs of Node objects, likewise
  None,
  MaxFaults   \* bound: crashes, failed calls, timeouts and interference

ASSUME StartupAssumption == None \notin Keys \cup Uids /\ MaxFaults \in Nat

VARIABLES
  pc,      \* the step that the process is about to take, "down" when there is none
  key,     \* kubelet.key: the key in it, None when absent or torn
  pem,     \* kubelet.pem: the key that it certifies, None when absent or torn
  config,  \* kubelet.config: "absent", "torn" or "written"
  csrData, \* the certificate that WaitForCertificate returned: the key it certifies
  read,    \* nodeInstance: "current", "changed" since it was read, "empty" or None
  csr,     \* the node's CertificateSigningRequest on the API server
  node,    \* the Node object on the API server
  lease,   \* the UID of the Node that owns the node's Lease, None without a lease
  latest,  \* the lease controller has a lease to renew
  failed,  \* the lease controller's last renewal failed
  faults   \* faults so far

disk == <<key, pem, config>>
process == <<csrData, read>>
controller == <<latest, failed>>
server == <<csr, node, lease>>
vars == <<pc, disk, process, server, controller, faults>>

NoCsr == [key |-> None, state |-> "absent"]
NoNode == [uid |-> None, ready |-> FALSE]

Init ==
  /\ pc = "down" /\ key = None /\ pem = None /\ config = "absent"
  /\ csrData = None /\ read = None /\ latest = FALSE /\ failed = FALSE
  /\ csr = NoCsr /\ node = NoNode /\ lease = None
  /\ faults = 0

Fault == faults < MaxFaults /\ faults' = faults + 1

\* The process ends: a returned error, klog.Fatalln or os.Exit.
Exit ==
  /\ pc' = "down" /\ csrData' = None /\ read' = None
  /\ latest' = FALSE /\ failed' = FALSE

---------------------------------------------------------------------------
(* BootStrap *)

NeedRequestCSR == config = "absent"

Start ==
  /\ pc = "down"
  /\ pc' = IF NeedRequestCSR THEN "genkey" ELSE "client"
  /\ UNCHANGED <<disk, process, server, controller, faults>>

\* A new key replaces the one of an earlier start.
GenCSRPEM ==
  /\ pc = "genkey"
  /\ \E k \in Keys \ {key, pem, csr.key} : key' = k
  /\ pc' = "create"
  /\ UNCHANGED <<pem, config, process, server, controller, faults>>

\* Takes the request that is there, whoever made it.
CreateCSRCert_Reuses ==
  /\ pc = "create"
  /\ csr' = IF csr = NoCsr THEN [key |-> key, state |-> "pending"] ELSE csr
  /\ pc' = "wait"
  /\ UNCHANGED <<disk, process, node, lease, controller, faults>>

\* A request that an earlier start left behind ends the process.
CreateCSRCert ==
  /\ pc = "create"
  /\ IF csr = NoCsr
     THEN csr' = [key |-> key, state |-> "pending"] /\ pc' = "wait" /\ UNCHANGED <<process, controller>>
     ELSE Exit /\ UNCHANGED csr
  /\ UNCHANGED <<disk, node, lease, faults>>

\* WaitForCertificate gives up when the request is denied or is gone, or has
\* another UID than the one created (a request's UID is told by its key).
WaitForCertificate ==
  /\ pc = "wait" /\ csr.state # "pending"
  /\ IF csr.state = "approved"
     THEN csrData' = csr.key /\ pc' = "pem" /\ UNCHANGED <<read, controller>>
     ELSE Exit
  /\ UNCHANGED <<disk, server, faults>>

\* CsrWaitingTimeout has passed, also when the approval is on its way.
WaitTimeout ==
  /\ pc = "wait" /\ Fault /\ Exit
  /\ UNCHANGED <<disk, server>>

WritePem ==
  /\ pc = "pem"
  /\ pem' = csrData /\ pc' = "config"
  /\ UNCHANGED <<key, config, process, server, controller, faults>>

GenKubeletConfig ==
  /\ pc = "config"
  /\ config' = "written" /\ pc' = "client"
  /\ UNCHANGED <<key, pem, process, server, controller, faults>>

\* The test client and then the program's own: the configuration, the
\* certificate and the key have to fit.
NewForKubeletConfig ==
  /\ pc = "client"
  /\ IF config = "written" /\ pem = key /\ key # None
     THEN pc' = "getnode" /\ UNCHANGED <<process, controller>>
     ELSE Exit
  /\ UNCHANGED <<disk, server, faults>>

---------------------------------------------------------------------------
(* RegisterNode *)

GetNode ==
  /\ pc = "getnode"
  /\ IF node = NoNode THEN pc' = "createnode" /\ UNCHANGED read
                      ELSE pc' = "patch" /\ read' = "current"
  /\ UNCHANGED <<disk, csrData, server, controller, faults>>

\* Any other error than NotFound falls through, with an empty Node.
GetNodeFails ==
  /\ pc = "getnode" /\ Fault
  /\ pc' = "patch" /\ read' = "empty"
  /\ UNCHANGED <<disk, csrData, server, controller>>

CreateNode ==
  /\ pc = "createnode"
  /\ \E u \in Uids \ {lease} : node' = [uid |-> u, ready |-> FALSE]
  /\ pc' = "patch" /\ read' = "current"
  /\ UNCHANGED <<disk, csrData, csr, lease, controller, faults>>

SetNodeStatus(n) == [n EXCEPT !.ready = TRUE]

\* The patch is the difference to the local template, so that it carries the
\* resource version that was read: a Node changed since then is a conflict,
\* and the empty Node would clear the name, which the API server refuses.
PatchFits == read = "current" /\ node # NoNode

PatchNode ==
  /\ pc = "patch"
  /\ IF PatchFits
     THEN node' = SetNodeStatus(node) /\ pc' = "running" /\ UNCHANGED <<process, controller>>
     ELSE Exit /\ UNCHANGED node
  /\ UNCHANGED <<disk, csr, lease, faults>>

---------------------------------------------------------------------------
(* The lease controller, started by StartLeaseController. *)

\* SetNodeOwnerFunc: a lease that has an owner keeps it, and without the Node
\* there is no owner to set: the controller then tries again.
SetNodeOwner(owner) == IF owner # None THEN owner ELSE node.uid

EnsureLease ==
  /\ pc = "running" /\ ~latest
  /\ lease' = SetNodeOwner(lease)
  /\ latest' = (lease' # None)
  /\ UNCHANGED <<pc, disk, process, csr, node, failed, faults>>

\* A heartbeat failure that is only logged: the controller goes on renewing.
HeartbeatFailure_Logs == failed' = FALSE /\ UNCHANGED <<pc, process, latest>>

HeartbeatFailure == Exit

\* The second failed renewal in a row is a heartbeat failure.
RenewFails ==
  IF failed THEN HeartbeatFailure ELSE failed' = TRUE /\ UNCHANGED <<pc, process, latest>>

RenewLease ==
  /\ pc = "running" /\ latest
  /\ \/ lease # None /\ failed' = FALSE /\ UNCHANGED <<pc, process, latest, faults>>
     \/ lease = None /\ RenewFails /\ UNCHANGED faults
     \/ lease # None /\ Fault /\ RenewFails
  /\ UNCHANGED <<disk, server>>

---------------------------------------------------------------------------
(* Faults, the operator and the API server. *)

\* A file that is being written is left torn.
Torn(step, file, file1, torn) == file1 = file \/ (pc = step /\ file1 = torn)

\* A crash, or a call or a write that fails: each of them ends the process.
Crash ==
  /\ pc # "down" /\ Fault /\ Exit
  /\ Torn("genkey", key, key', None)
  /\ Torn("pem", pem, pem', None)
  /\ Torn("config", config, config', "torn")
  /\ UNCHANGED server

\* kubectl certificate approve
Approve ==
  /\ csr.state = "pending"
  /\ csr' = [key |-> csr.key, state |-> "approved"]
  /\ UNCHANGED <<pc, disk, process, node, lease, controller, faults>>

\* kubectl certificate deny
Deny ==
  /\ csr.state = "pending" /\ Fault
  /\ csr' = [key |-> csr.key, state |-> "denied"]
  /\ UNCHANGED <<pc, disk, process, node, lease, controller>>

\* kubectl delete csr, of a request that nobody waits for.
DeleteCSR ==
  /\ csr # NoCsr /\ pc # "wait"
  /\ csr' = NoCsr
  /\ UNCHANGED <<pc, disk, process, node, lease, controller, faults>>

\* kubectl delete csr, under the eyes of the process that waits for it.
DeleteAwaitedCSR ==
  /\ csr # NoCsr /\ pc = "wait" /\ Fault
  /\ csr' = NoCsr
  /\ UNCHANGED <<pc, disk, process, node, lease, controller>>

Changed == read' = IF read = "current" THEN "changed" ELSE read

\* Another client writes to the Node, or deletes it; the node lifecycle
\* controller, which has seen no renewal for too long, sets Ready to Unknown.
ChangeNode ==
  /\ node # NoNode /\ Fault /\ Changed
  /\ \/ node' = node /\ read = "current"
     \/ node.ready /\ node' = [node EXCEPT !.ready = FALSE]
     \/ node' = NoNode
  /\ UNCHANGED <<pc, disk, csrData, csr, lease, controller>>

\* A lease whose owner is gone is collected.
CollectLease ==
  /\ lease # None /\ lease # node.uid
  /\ lease' = None
  /\ UNCHANGED <<pc, disk, process, csr, node, controller, faults>>

Bootstrap == \/ GenCSRPEM \/ CreateCSRCert \/ WaitForCertificate \/ WritePem \/ GenKubeletConfig
Register == NewForKubeletConfig \/ GetNode \/ CreateNode \/ PatchNode
LeaseController == EnsureLease \/ RenewLease
Disturb == \/ WaitTimeout \/ GetNodeFails \/ Crash \/ Deny \/ DeleteAwaitedCSR \/ ChangeNode

Next == \/ Start \/ Bootstrap \/ Register \/ LeaseController
        \/ Approve \/ DeleteCSR \/ CollectLease \/ Disturb

\* The process runs and is started again; the operator follows the comment in
\* bootstrap.go; the garbage collector runs.  Faults are finitely many.
Fairness ==
  /\ WF_vars(Start) /\ WF_vars(Bootstrap) /\ WF_vars(Register) /\ WF_vars(LeaseController)
  /\ WF_vars(Approve) /\ WF_vars(DeleteCSR) /\ WF_vars(CollectLease)

Spec == Init /\ [][Next]_vars
FairSpec == Spec /\ Fairness

---------------------------------------------------------------------------
(* A kubelet.config, once there, switches the bootstrap off for good       *)
(* (NeedRequestCSR): whatever crashes, denials, deletions and left-over    *)
(* requests came before, the certificate beside it then belongs to the key *)
(* beside it, although every start writes a new key over the old one.      *)
CertifiedKey == config # "absent" => key # None /\ pem = key

\* The inductive invariant behind it: from the new key on, whatever the process
\* waits for, holds in memory or has written belongs to the key on disk.
BootstrapInv ==
  /\ config # "absent" => pc \notin {"genkey", "create", "wait", "pem", "config"}
  /\ pc \in {"create", "wait", "pem", "config"} => key # None
  /\ pc = "wait" /\ csr.state \in {"pending", "approved"} => csr.key = key
  /\ pc = "pem" => csrData = key
  /\ pc = "config" => pem = key
  /\ CertifiedKey

Serving == pc = "running" /\ node.ready /\ lease = node.uid

\* Nobody puts these right: a kubelet.config that was being written; a Node
\* deleted before the first lease of a process that never exits; and a Node that
\* the node lifecycle controller has marked while the process runs, because
\* RegisterNode writes Ready once, at the start.
TornConfig == config = "torn"
Stranded == pc = "running" /\ node = NoNode /\ lease = None /\ ~latest
Marked == pc = "running" /\ node # NoNode /\ ~node.ready /\ lease = node.uid

(* Once the faults stop, the node ends up registered, ready and holding a  *)
(* lease that its own Node object owns: the lease of a deleted Node is     *)
(* collected, its renewal fails, heartbeatFailure ends the process and the *)
(* next start registers a Node.  The exceptions are the three named above. *)
Recovers == <>[](Serving \/ TornConfig \/ Stranded \/ Marked)
=============================================================================
