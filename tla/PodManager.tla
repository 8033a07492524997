------------------------------ MODULE PodManager ------------------------------
(***************************************************************************)
(* The pod manager (pkg/kubelet/pod/pod_manager.go): regular and mirror    *)
(* pods indexed by UID and by full name, and the translation of the UIDs   *)
(* of mirror pods.  Every action is one critical section of its lock.      *)
(***************************************************************************)
CONSTANTS
  UIDs,        \* pod UIDs
  MirrorPods,  \* those whose pods carry the mirror annotation
  Fullnames,   \* full names
  Fullname,    \* the full name of each UID's pod
  NoUID,       \* a missing entry
  NoPod        \* a missing pod

VARIABLES
  podByUID,         \* podByUID and mirrorPodByUID: their keys are disjoint
  podByFullName,    \* the UID of the pod stored under each full name
  mirrorPodByFullName,
  translationByUID  \* mirror pod UID to pod UID

managerVars == <<podByUID, podByFullName, mirrorPodByFullName, translationByUID>>

\* NewBasicPodManager, SetPods(nil)
ManagerInit ==
  /\ podByUID = [u \in UIDs |-> NoPod]
  /\ podByFullName = [f \in Fullnames |-> NoUID]
  /\ mirrorPodByFullName = [f \in Fullnames |-> NoUID]
  /\ translationByUID = [m \in MirrorPods |-> NoUID]

Translate_MirrorOnly(u) ==
  IF u \in MirrorPods /\ podByFullName[Fullname[u]] # NoUID
  THEN [translationByUID EXCEPT ![u] = podByFullName[Fullname[u]]]
  ELSE translationByUID

\* The translation after u has been stored: a mirror pod is translated to the
\* pod of its name, a pod is what the mirror of its name is translated to.
Translate(u) ==
  LET pod == podByFullName[Fullname[u]]
      mirror == mirrorPodByFullName[Fullname[u]]
  IN  CASE u \in MirrorPods /\ pod # NoUID -> [translationByUID EXCEPT ![u] = pod]
        [] u \notin MirrorPods /\ mirror # NoUID -> [translationByUID EXCEPT ![mirror] = u]
        [] OTHER -> translationByUID

\* AddPod, UpdatePod
UpdatePod(u, pod) ==
  /\ podByUID' = [podByUID EXCEPT ![u] = pod]
  /\ IF u \in MirrorPods
     THEN /\ mirrorPodByFullName' = [mirrorPodByFullName EXCEPT ![Fullname[u]] = u]
          /\ UNCHANGED podByFullName
     ELSE /\ podByFullName' = [podByFullName EXCEPT ![Fullname[u]] = u]
          /\ UNCHANGED mirrorPodByFullName
  /\ translationByUID' = Translate(u)

\* Names are removed whatever UID they lead to.
DeletePod(u) ==
  /\ podByUID' = [podByUID EXCEPT ![u] = NoPod]
  /\ IF u \in MirrorPods
     THEN /\ mirrorPodByFullName' = [mirrorPodByFullName EXCEPT ![Fullname[u]] = NoUID]
          /\ translationByUID' = [translationByUID EXCEPT ![u] = NoUID]
          /\ UNCHANGED podByFullName
     ELSE /\ podByFullName' = [podByFullName EXCEPT ![Fullname[u]] = NoUID]
          /\ UNCHANGED <<mirrorPodByFullName, translationByUID>>

-----------------------------------------------------------------------------
(* Properties *)

\* The maps agree: a pod is stored by UID exactly when its full name leads to
\* it.  A name that led to another pod, or nowhere, would hide it from every
\* lookup by name; a stale name would bring a removed pod back.
IndexesAgree ==
  \A u \in UIDs :
    podByUID[u] # NoPod <=>
      u = IF u \in MirrorPods THEN mirrorPodByFullName[Fullname[u]]
          ELSE podByFullName[Fullname[u]]

\* A mirror pod that is stored together with a pod of its name is translated to
\* exactly that pod, whichever of the two came first or was replaced.
TranslationIsCurrent ==
  \A f \in Fullnames :
    LET m == mirrorPodByFullName[f] IN
    m # NoUID /\ podByFullName[f] # NoUID => translationByUID[m] = podByFullName[f]

=============================================================================
