---------------------------- MODULE StartupProofs ----------------------------
(***************************************************************************)
(* The files that a bootstrap leaves fit together, for any number of keys, *)
(* starts, crashes and left-over requests.                                 *)
(***************************************************************************)
EXTENDS Startup, TLAPS

\* A process that ends leaves files that fit as before.
LEMMA ExitKeepsFiles ==
  ASSUME BootstrapInv, Exit, UNCHANGED disk
  PROVE  BootstrapInv'
BY DEF BootstrapInv, CertifiedKey, Exit, disk

\* Steps of the registration, of the lease and of other clients that touch
\* neither the files nor the request.
LEMMA ElsewhereKeepsFiles ==
  ASSUME BootstrapInv, UNCHANGED <<disk, csr>>,
         pc' \in {"client", "getnode", "createnode", "patch", "running"}
  PROVE  BootstrapInv'
BY DEF BootstrapInv, CertifiedKey, disk

\* The steps of BootStrap.
LEMMA BootstrapStep ==
  ASSUME StartupAssumption, BootstrapInv, Start \/ Bootstrap
  PROVE  BootstrapInv'
<1>1. CASE Start
  BY <1>1 DEF Start, NeedRequestCSR, BootstrapInv, CertifiedKey, disk
<1>2. CASE GenCSRPEM
  BY <1>2 DEF GenCSRPEM, StartupAssumption, BootstrapInv, CertifiedKey
<1>3. CASE CreateCSRCert
  <2>1. pc = "create" /\ UNCHANGED disk
    BY <1>3 DEF CreateCSRCert
  <2>2. CASE csr = NoCsr
    BY <2>1, <2>2, <1>3 DEF CreateCSRCert, BootstrapInv, CertifiedKey, disk
  <2>3. CASE csr # NoCsr
    BY <2>1, <2>3, <1>3, ExitKeepsFiles DEF CreateCSRCert
  <2> QED
    BY <2>2, <2>3
<1>4. CASE WaitForCertificate
  <2>1. pc = "wait" /\ UNCHANGED <<disk, csr>>
    BY <1>4 DEF WaitForCertificate, server
  <2>2. CASE csr.state = "approved"
    BY <2>1, <2>2, <1>4 DEF WaitForCertificate, BootstrapInv, CertifiedKey, disk
  <2>3. CASE csr.state # "approved"
    BY <2>1, <2>3, <1>4, ExitKeepsFiles DEF WaitForCertificate
  <2> QED
    BY <2>2, <2>3
<1>5. CASE WritePem
  BY <1>5 DEF WritePem, BootstrapInv, CertifiedKey
<1>6. CASE GenKubeletConfig
  BY <1>6 DEF GenKubeletConfig, BootstrapInv, CertifiedKey
<1> QED
  BY <1>1, <1>2, <1>3, <1>4, <1>5, <1>6 DEF Bootstrap

\* The steps of RegisterNode and of the lease controller.
LEMMA RegisterStep ==
  ASSUME BootstrapInv, Register \/ GetNodeFails \/ LeaseController
  PROVE  BootstrapInv'
<1>1. CASE NewForKubeletConfig
  BY <1>1, ExitKeepsFiles, ElsewhereKeepsFiles DEF NewForKubeletConfig, server
<1>2. CASE GetNode
  BY <1>2, ElsewhereKeepsFiles DEF GetNode, server
<1>3. CASE CreateNode
  BY <1>3, ElsewhereKeepsFiles DEF CreateNode
<1>4. CASE PatchNode
  BY <1>4, ExitKeepsFiles, ElsewhereKeepsFiles DEF PatchNode
<1>5. CASE GetNodeFails
  BY <1>5, ElsewhereKeepsFiles DEF GetNodeFails, server
<1>6. CASE EnsureLease
  BY <1>6, ElsewhereKeepsFiles DEF EnsureLease
<1>7. CASE RenewLease
  BY <1>7, ExitKeepsFiles, ElsewhereKeepsFiles
     DEF RenewLease, RenewFails, HeartbeatFailure, server
<1> QED
  BY <1>1, <1>2, <1>3, <1>4, <1>5, <1>6, <1>7 DEF Register, LeaseController

\* A crash may leave the one file torn that is being written, and nothing
\* depends on that file yet.
LEMMA CrashStep ==
  ASSUME BootstrapInv, Crash
  PROVE  BootstrapInv'
BY DEF Crash, Exit, Torn, BootstrapInv, CertifiedKey

\* What the operator, other clients and the API server do.
LEMMA OutsideStep ==
  ASSUME BootstrapInv,
         Approve \/ Deny \/ DeleteCSR \/ DeleteAwaitedCSR \/ ChangeNode \/ CollectLease
  PROVE  BootstrapInv'
<1>1. UNCHANGED <<pc, disk, csrData>>
  BY DEF Approve, Deny, DeleteCSR, DeleteAwaitedCSR, ChangeNode, CollectLease, process
<1>2. \/ csr' = csr \/ csr' = NoCsr
      \/ csr.state = "pending" /\ csr' = [key |-> csr.key, state |-> "approved"]
      \/ csr.state = "pending" /\ csr' = [key |-> csr.key, state |-> "denied"]
  BY DEF Approve, Deny, DeleteCSR, DeleteAwaitedCSR, ChangeNode, CollectLease
<1>3. csr'.state \in {"pending", "approved"} =>
        csr'.key = csr.key /\ csr.state \in {"pending", "approved"}
  BY <1>2 DEF NoCsr
<1> QED
  BY <1>1, <1>3 DEF BootstrapInv, CertifiedKey, disk

\* The invariant of the bootstrap holds in every reachable state.
THEOREM BootstrapInvariance == Spec => []BootstrapInv
<1>1. Init => BootstrapInv
  BY DEF Init, BootstrapInv, CertifiedKey
<1>2. BootstrapInv /\ [Next]_vars => BootstrapInv'
  <2> SUFFICES ASSUME BootstrapInv, [Next]_vars PROVE BootstrapInv'
    OBVIOUS
  <2>1. CASE UNCHANGED vars
    BY <2>1 DEF vars, disk, process, server, BootstrapInv, CertifiedKey
  <2>2. CASE WaitTimeout
    BY <2>2, ExitKeepsFiles DEF WaitTimeout
  <2> QED
    BY <2>1, <2>2, BootstrapStep, RegisterStep, CrashStep, OutsideStep, StartupAssumption
       DEF Next, Disturb
<1> QED
  BY <1>1, <1>2, PTL DEF Spec

\* A kubelet.config has a matching key and certificate beside it.
THEOREM KeySafe == Spec => []CertifiedKey
<1>1. BootstrapInv => CertifiedKey
  BY DEF BootstrapInv
<1> QED
  BY <1>1, BootstrapInvariance, PTL

=============================================================================
