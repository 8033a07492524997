------------------------------ MODULE PodConfig ------------------------------
(***************************************************************************)
(* The pod configuration (pkg/kubelet/config): each source sends its whole *)
(* list of pods as a SET; the Mux hands it to podStorage.Merge, which      *)
(* finds out what changed and sends it to the main loop as REMOVE, ADD,    *)
(* UPDATE, DELETE and RECONCILE; the main loop's handlers bring the pod    *)
(* manager up to date (pkg/mycore/pod_handler.go).                         *)
(*                                                                         *)
(* A source is seen through the lists it sends: a reflector may skip       *)
(* states of its server, never reorder them.  This program wires in the    *)
(* API server; a second source stands for any other user of Channel.       *)
(***************************************************************************)
EXTENDS Integers, Sequences, FiniteSets, SequencesExt

CONSTANTS
  UIDs, MirrorPods, Fullnames, Fullname, NoUID, NoPod,
  Sources,     \* the names of the sources
  Source,      \* the source of each UID's pod
  ChannelCap,  \* capacity of the updates channel (50 in the code)
  MaxChanges   \* bound: changes of the sources' pods

ASSUME PodConfigAssumption ==
  /\ MirrorPods \subseteq UIDs
  /\ Fullname \in [UIDs -> Fullnames]
  /\ Source \in [UIDs -> Sources]
  /\ NoUID \notin UIDs
  /\ ChannelCap \in Nat \ {0}

VARIABLES
  podByUID, podByFullName, mirrorPodByFullName, translationByUID,
  truth,    \* the pods each source has now, by UID
  changes,  \* changes of truth so far
  sent,     \* the last list each source has sent
  inbox,    \* the SET each source is sending to its unbuffered Mux channel
  stored,   \* podStorage.pods
  seen,     \* podStorage.sourcesSeen
  pending,  \* what the Merge that holds updateLock has still to send
  updates,  \* the updates channel
  current,  \* the update in the main loop's hands
  merged,   \* changes of each pod that Merge has found
  handled   \* changes of each pod that the main loop has handled

managerVars == <<podByUID, podByFullName, mirrorPodByFullName, translationByUID>>
vars == <<managerVars, truth, changes, sent, inbox, stored, seen, pending, updates,
          current, merged, handled>>

Manager == INSTANCE PodManager

\* What Merge compares: the spec (with labels, annotations and the grace period),
\* the deletion timestamp, the status.
Pods == [spec: {0, 1}, deleting: BOOLEAN, status: {0, 1}]

ASSUME NoPodAssumption == NoPod \notin Pods

NewPod == [spec |-> 0, deleting |-> FALSE, status |-> 0]

NoUpdate == [op |-> "none", pods |-> {}]

Init ==
  /\ Manager!ManagerInit
  /\ truth = [u \in UIDs |-> NoPod]
  /\ changes = 0
  /\ sent = [s \in Sources |-> <<>>]
  /\ inbox = [s \in Sources |-> <<>>]
  /\ stored = [u \in UIDs |-> NoPod]
  /\ seen = {}
  /\ pending = <<>>
  /\ updates = <<>>
  /\ current = NoUpdate
  /\ merged = [u \in UIDs |-> 0]
  /\ handled = [u \in UIDs |-> 0]

-----------------------------------------------------------------------------
(* The sources *)

\* The API server never has two pods of one name; a list of manifests may.
Unique(u) ==
  \A v \in UIDs : v # u /\ Source[v] = "api" /\ Fullname[v] = Fullname[u] => truth[v] = NoPod

Change(u, pod) ==
  /\ changes < MaxChanges
  /\ changes' = changes + 1
  /\ truth' = [truth EXCEPT ![u] = pod]
  /\ UNCHANGED <<managerVars, sent, inbox, stored, seen, pending, updates, current, merged,
                 handled>>

Created(u) ==
  /\ truth[u] = NoPod
  /\ Source[u] = "api" => Unique(u)
  /\ Change(u, NewPod)

Modified(u) ==
  /\ truth[u] # NoPod
  /\ \/ Change(u, [truth[u] EXCEPT !.spec = 1 - @])
     \/ Change(u, [truth[u] EXCEPT !.status = 1 - @])
     \/ ~truth[u].deleting /\ Change(u, [truth[u] EXCEPT !.deleting = TRUE])

Removed(u) == truth[u] # NoPod /\ Change(u, NoPod)

PodsOf(s) == {u \in UIDs : Source[u] = s /\ truth[u] # NoPod}

\* A SET: the source's pods, in the order of its list.
List(s) ==
  LET order == SetToSeq(PodsOf(s))
  IN  [i \in DOMAIN order |-> [uid |-> order[i], pod |-> truth[order[i]]]]

\* A reflector or reader whose last SET has been taken sends the list it has
\* now, if it is another one than before (the first in any case).
SendSet(s) ==
  /\ inbox[s] = <<>>
  /\ sent[s] # <<List(s)>>
  /\ inbox' = [inbox EXCEPT ![s] = <<List(s)>>]
  /\ sent' = [sent EXCEPT ![s] = <<List(s)>>]
  /\ UNCHANGED <<managerVars, truth, changes, stored, seen, pending, updates, current,
                 merged, handled>>

-----------------------------------------------------------------------------
(* Merge *)

\* filterInvalidPods: of the pods of one name the first in the list is kept.
FilterInvalidPods(list) ==
  {list[i].uid : i \in {j \in DOMAIN list :
     \A k \in 1..(j - 1) : Fullname[list[k].uid] # Fullname[list[j].uid]}}

PodsDifferSemantically(existing, ref) ==
  existing.spec # ref.spec \/ existing.deleting # ref.deleting

Carried_Existing(existing, ref) == IF existing = NoPod THEN ref ELSE existing

\* The pod that a message carries: checkAndUpdatePod overwrites the stored pod
\* by what the source sent, and a removed pod goes as it was stored.
Carried(existing, ref) == IF ref = NoPod THEN existing ELSE ref

\* A message without pods is not sent.
NonEmpty(m) == IF m.pods = {} THEN <<>> ELSE <<m>>

Deliveries_AddsFirst(removes, adds, upds, deletes, reconciles, firstSet) ==
  NonEmpty(adds) \o NonEmpty(removes) \o NonEmpty(upds) \o NonEmpty(deletes)
  \o NonEmpty(reconciles)

Deliveries_AddsHideUpdates(removes, adds, upds, deletes, reconciles, firstSet) ==
  NonEmpty(removes)
  \o (IF adds.pods = {} THEN NonEmpty(upds) ELSE <<adds>>)
  \o NonEmpty(deletes) \o NonEmpty(reconciles)

\* The messages of one Merge in the order in which it sends them.
Deliveries(removes, adds, upds, deletes, reconciles, firstSet) ==
  NonEmpty(removes) \o NonEmpty(adds) \o NonEmpty(upds) \o NonEmpty(deletes)
  \o (IF firstSet /\ adds.pods \cup upds.pods \cup deletes.pods = {} THEN <<adds>> ELSE <<>>)
  \o NonEmpty(reconciles)

\* The listener of source s takes the SET and merges it under podLock; it then
\* holds updateLock until everything is sent.
Merge(s) ==
  LET list == inbox[s][1]
      filtered == FilterInvalidPods(list)
      ref == [u \in UIDs |-> IF u \in filtered
                             THEN list[CHOOSE i \in DOMAIN list : list[i].uid = u].pod
                             ELSE NoPod]
      known == {u \in UIDs : Source[u] = s /\ stored[u] # NoPod}
      differ == {u \in filtered \cap known : PodsDifferSemantically(stored[u], ref[u])}
      removed == known \ filtered
      added == filtered \ known
      deleted == {u \in differ : ref[u].deleting}
      reconciled == {u \in (filtered \cap known) \ differ : stored[u].status # ref[u].status}
      changed == removed \cup added \cup differ
      message(op, us) ==
        [op |-> op,
         pods |-> {[uid |-> u, ver |-> merged[u] + 1, pod |-> Carried(stored[u], ref[u])] :
                     u \in us}]
  IN
  /\ inbox[s] # <<>>
  /\ pending = <<>>
  /\ inbox' = [inbox EXCEPT ![s] = <<>>]
  /\ stored' = [u \in UIDs |-> IF Source[u] = s THEN ref[u] ELSE stored[u]]
  /\ seen' = seen \cup {s}
  /\ merged' = [u \in UIDs |-> IF u \in changed THEN merged[u] + 1 ELSE merged[u]]
  /\ pending' = Deliveries(message("REMOVE", removed), message("ADD", added),
                           message("UPDATE", differ \ deleted), message("DELETE", deleted),
                           message("RECONCILE", reconciled), s \notin seen)
  /\ UNCHANGED <<managerVars, truth, changes, sent, updates, current, handled>>

Send_NoRoom ==
  /\ pending # <<>>
  /\ updates' = Append(updates, Head(pending))
  /\ pending' = Tail(pending)
  /\ UNCHANGED <<managerVars, truth, changes, sent, inbox, stored, seen, current, merged,
                 handled>>

\* Merge sends the next message, when the channel has room.
Send ==
  /\ pending # <<>>
  /\ Len(updates) < ChannelCap
  /\ updates' = Append(updates, Head(pending))
  /\ pending' = Tail(pending)
  /\ UNCHANGED <<managerVars, truth, changes, sent, inbox, stored, seen, current, merged,
                 handled>>

-----------------------------------------------------------------------------
(* The main loop *)

\* Start has no case for RECONCILE.
TakeUpdate ==
  /\ current.pods = {}
  /\ updates # <<>>
  /\ current' = IF Head(updates).op = "RECONCILE" THEN NoUpdate ELSE Head(updates)
  /\ updates' = Tail(updates)
  /\ UNCHANGED <<managerVars, truth, changes, sent, inbox, stored, seen, pending, merged,
                 handled>>

\* HandlerPodAdd, HandlePodUpdate (for UPDATE and DELETE), HandlePodRemove: one
\* pod of the update.
HandlePod(p) ==
  /\ p \in current.pods
  /\ current' = [current EXCEPT !.pods = @ \ {p}]
  /\ IF current.op = "REMOVE" THEN Manager!DeletePod(p.uid)
     ELSE Manager!UpdatePod(p.uid, p.pod)
  /\ handled' = [handled EXCEPT ![p.uid] = p.ver]
  /\ UNCHANGED <<truth, changes, sent, inbox, stored, seen, pending, updates, merged>>

Handle == TakeUpdate \/ \E p \in current.pods : HandlePod(p)

Next ==
  \/ \E u \in UIDs : Created(u) \/ Modified(u) \/ Removed(u)
  \/ \E s \in Sources : SendSet(s) \/ Merge(s)
  \/ Send
  \/ Handle

\* A source that has something new sends it; goroutines are scheduled.
Fairness ==
  /\ \A s \in Sources : WF_vars(SendSet(s)) /\ SF_vars(Merge(s))
  /\ WF_vars(Send) /\ WF_vars(Handle)

Spec == Init /\ [][Next]_vars /\ Fairness

-----------------------------------------------------------------------------
(* Properties *)

\* Type invariant.
ConfigTypeOK ==
  /\ podByUID \in [UIDs -> Pods \cup {NoPod}]
  /\ truth \in [UIDs -> Pods \cup {NoPod}]
  /\ stored \in [UIDs -> Pods \cup {NoPod}]
  /\ \A s \in Sources : Len(inbox[s]) <= 1
  /\ Len(updates) <= ChannelCap
  /\ Len(pending) <= 5
  /\ \A u \in UIDs : handled[u] <= merged[u]

\* PodManager!IndexesAgree: pods replaced under their name, or filtered for a
\* duplicate name, never leave a pod that its name does not lead to.
IndexesAgree == Manager!IndexesAgree

\* PodManager!TranslationIsCurrent, whatever the order in which a static pod
\* and its mirror pod come from their two sources.
TranslationIsCurrent == Manager!TranslationIsCurrent

\* The refinement: Merge and the channel carry every change of every pod to the
\* main loop, in order, once, and eventually.
Abstract == INSTANCE Follow WITH leader <- merged, follower <- handled
ImplementsFollow == Abstract!FollowSpec

\* A pod whose changes have all been handled is in the pod manager as it is in
\* the configuration, but for its status, since RECONCILE is ignored.
Same(p, q) == IF p = NoPod \/ q = NoPod THEN p = q ELSE ~PodsDifferSemantically(p, q)
CaughtUpAgrees ==
  \A u \in UIDs : handled[u] = merged[u] => Same(podByUID[u], stored[u])

\* When the sources stop changing, the pod manager ends up with their pods (one
\* of them for each name).
Converged ==
  /\ \A u \in UIDs : podByUID[u] # NoPod => Same(podByUID[u], truth[u])
  /\ \A s \in Sources :
       {Fullname[u] : u \in PodsOf(s)} =
       {Fullname[u] : u \in {v \in UIDs : Source[v] = s /\ podByUID[v] # NoPod}}
EventuallyConverged == <>[]Converged

=============================================================================
