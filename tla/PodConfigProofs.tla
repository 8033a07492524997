--------------------------- MODULE PodConfigProofs ---------------------------
(***************************************************************************)
(* What PodConfig guarantees for every set of pods and sources and any     *)
(* capacity of the channel: the changes between Merge and the pod manager, *)
(* seen as one queue, and what the pod manager's maps make of them.        *)
(***************************************************************************)
EXTENDS PodConfig, FiniteSetTheorems, TLAPS

-----------------------------------------------------------------------------
(* The inductive invariant *)

\* What a message carries: the pod's UID, the number of its change, the pod.
Entry == [uid: UIDs, ver: Nat, pod: Pods]
Message ==
  [op: {"none", "REMOVE", "ADD", "UPDATE", "DELETE", "RECONCILE"}, pods: SUBSET Entry]

\* A list that source s may send.
Lists(s) == Seq([uid: {u \in UIDs : Source[u] = s}, pod: Pods])

\* Names lead to pods of that name and kind.
IndexOK ==
  /\ podByFullName \in [Fullnames -> UIDs \cup {NoUID}]
  /\ mirrorPodByFullName \in [Fullnames -> UIDs \cup {NoUID}]
  /\ translationByUID \in [MirrorPods -> UIDs \cup {NoUID}]
  /\ \A f \in Fullnames :
       /\ podByFullName[f] # NoUID =>
            podByFullName[f] \notin MirrorPods /\ Fullname[podByFullName[f]] = f
       /\ mirrorPodByFullName[f] # NoUID =>
            mirrorPodByFullName[f] \in MirrorPods /\ Fullname[mirrorPodByFullName[f]] = f

SourcesOK ==
  /\ truth \in [UIDs -> Pods \cup {NoPod}]
  /\ IsFiniteSet({u \in UIDs : truth[u] # NoPod})
  /\ inbox \in [Sources -> Seq(UNION {Lists(s) : s \in Sources})]
  /\ \A s \in Sources : Len(inbox[s]) <= 1 /\ (inbox[s] # <<>> => inbox[s][1] \in Lists(s))

ChannelOK ==
  /\ current \in Message /\ current.op # "RECONCILE"
  /\ updates \in Seq(Message) /\ Len(updates) <= ChannelCap
  /\ pending \in Seq(Message) /\ Len(pending) <= 5

CountsOK ==
  /\ merged \in [UIDs -> Nat]
  /\ handled \in [UIDs -> Nat]
  /\ \A u \in UIDs : handled[u] <= merged[u]

StoresOK ==
  /\ podByUID \in [UIDs -> Pods \cup {NoPod}]
  /\ stored \in [UIDs -> Pods \cup {NoPod}]

TypeInv == IndexOK /\ SourcesOK /\ ChannelOK /\ CountsOK /\ StoresOK

\* Everything between Merge and the pod manager, the oldest message first: the
\* one in the main loop's hands, the channel, and what Merge has still to send.
Size == 1 + Len(updates) + Len(pending)
Flight ==
  [i \in 1..Size |->
     IF i = 1 THEN current
     ELSE IF i <= 1 + Len(updates) THEN updates[i - 1]
     ELSE pending[i - 1 - Len(updates)]]

\* The changes in each message, and the messages that remove pods.
Events == [i \in 1..Size |-> IF Flight[i].op = "RECONCILE" THEN {} ELSE Flight[i].pods]
Removals == {i \in 1..Size : Flight[i].op = "REMOVE"}

\* Pods that the pod manager keeps under one key of one map.
Rivals(u, v) ==
  u # v /\ Fullname[u] = Fullname[v] /\ (u \in MirrorPods <=> v \in MirrorPods)

\* Of each pod, exactly the changes not yet handled are under way, in order.
Ordered ==
  /\ \A i \in 1..Size : \A p \in Events[i] :
       handled[p.uid] < p.ver /\ p.ver <= merged[p.uid]
  /\ \A i, j \in 1..Size : \A p \in Events[i], q \in Events[j] :
       p.uid = q.uid /\ i < j => p.ver < q.ver
  /\ \A i \in 1..Size : \A p, q \in Events[i] : p.uid = q.uid => p = q
Complete ==
  \A u \in UIDs, n \in Nat :
    handled[u] < n /\ n <= merged[u] =>
      \E i \in 1..Size : \E p \in Events[i] : p.uid = u /\ p.ver = n

\* The last change under way of a pod leaves it as it is stored.
LastIsStored ==
  \A i \in 1..Size : \A p \in Events[i] :
    p.ver = merged[p.uid] =>
      IF i \in Removals THEN stored[p.uid] = NoPod
      ELSE stored[p.uid] # NoPod /\ Same(p.pod, stored[p.uid])

\* The configuration has one pod per key.
OneStored ==
  \A u, v \in UIDs : Rivals(u, v) => stored[u] = NoPod \/ stored[v] = NoPod

\* When a change of a pod is handled, its rivals have been removed: a rival that
\* is there, or will be put there before it, is removed before it.
RemovedBefore(v, j, i) ==
  \E k \in 1..Size : j < k /\ k < i /\ k \in Removals /\ \E q \in Events[k] : q.uid = v
RivalsGo ==
  \A i \in 1..Size : \A p \in Events[i] : \A v \in UIDs :
    Rivals(p.uid, v) =>
      /\ podByUID[v] # NoPod => RemovedBefore(v, 0, i)
      /\ \A j \in 1..Size : \A q \in Events[j] :
           q.uid = v => /\ j # i
                        /\ j < i /\ j \notin Removals => RemovedBefore(v, j, i)

ConfigInv ==
  /\ TypeInv
  /\ Ordered /\ Complete /\ LastIsStored /\ CaughtUpAgrees
  /\ TranslationIsCurrent

\* What needs the names of the pods.
NameInv == OneStored /\ RivalsGo /\ IndexesAgree

\* Pods of one key come from one source, as in a program with one source: Merge
\* compares names within a source only.
OneSource == \A u, v \in UIDs : Rivals(u, v) => Source[u] = Source[v]

-----------------------------------------------------------------------------
(* Types: the sources *)

\* SetToSeq lists the elements of a finite set, all of them.
LEMMA ListOfSet ==
  ASSUME NEW S, IsFiniteSet(S)
  PROVE  /\ Cardinality(S) \in Nat
         /\ SetToSeq(S) \in [1..Cardinality(S) -> S]
         /\ \A x \in S : \E i \in 1..Cardinality(S) : SetToSeq(S)[i] = x
<1>1. Cardinality(S) \in Nat /\ ExistsBijection(1..Cardinality(S), S)
  BY FS_CardinalityType
<1>2. PICK f \in [1..Cardinality(S) -> S] : IsInjective(f)
  BY <1>1 DEF ExistsBijection, Bijection, Injection
<1>3. SetToSeq(S) \in [1..Cardinality(S) -> S] /\ IsInjective(SetToSeq(S))
  BY <1>1, <1>2 DEF SetToSeq
<1>4. SetToSeq(S) \in Injection(1..Cardinality(S), S)
  BY <1>3 DEF Injection
<1>5. Cardinality(1..Cardinality(S)) = Cardinality(S)
  <2>1. Cardinality(1..Cardinality(S)) =
          IF 1 > Cardinality(S) THEN 0 ELSE Cardinality(S) - 1 + 1
    BY <1>1, FS_Interval
  <2>2. QED
    BY <1>1, <2>1
<1>6. SetToSeq(S) \in Surjection(1..Cardinality(S), S)
  BY <1>4, <1>5, FS_Injection
<1>7. QED
  BY <1>1, <1>3, <1>6 DEF Surjection

\* What a source sends is a list of its own pods as they are.
LEMMA ListType ==
  ASSUME SourcesOK, NEW s \in Sources
  PROVE  /\ List(s) \in Lists(s)
         /\ \A i \in DOMAIN List(s) :
              List(s)[i].uid \in PodsOf(s) /\ List(s)[i].pod = truth[List(s)[i].uid]
         /\ \A u \in PodsOf(s) : \E i \in DOMAIN List(s) : List(s)[i].uid = u
<1>1. IsFiniteSet(PodsOf(s))
  <2>1. PodsOf(s) \subseteq {u \in UIDs : truth[u] # NoPod}
    BY DEF PodsOf
  <2>2. QED
    BY <2>1, FS_Subset DEF SourcesOK
<1> DEFINE order == SetToSeq(PodsOf(s))
<1>2. PICK n \in Nat : /\ order \in [1..n -> PodsOf(s)]
                       /\ \A u \in PodsOf(s) : \E i \in 1..n : order[i] = u
  BY <1>1, ListOfSet
<1>3. List(s) = [i \in 1..n |-> [uid |-> order[i], pod |-> truth[order[i]]]]
  BY <1>2 DEF List
<1> HIDE DEF order
<1>4. \A i \in 1..n :
        order[i] \in UIDs /\ Source[order[i]] = s /\ truth[order[i]] \in Pods
  BY <1>2 DEF PodsOf, SourcesOK
<1>5. List(s) \in Lists(s)
  BY <1>3, <1>4 DEF Lists
<1>6. DOMAIN List(s) = 1..n
  BY <1>3
<1>7. \A i \in 1..n : List(s)[i].uid = order[i] /\ List(s)[i].pod = truth[order[i]]
  BY <1>3
<1>8. QED
  BY <1>2, <1>5, <1>6, <1>7

\* One more pod, or one less, leaves finitely many.
LEMMA ChangeType ==
  ASSUME TypeInv, NEW u \in UIDs, NEW pod \in Pods \cup {NoPod}, Change(u, pod)
  PROVE  TypeInv'
<1>1. IsFiniteSet({v \in UIDs : truth'[v] # NoPod})
  <2>1. {v \in UIDs : truth'[v] # NoPod} \subseteq {v \in UIDs : truth[v] # NoPod} \cup {u}
    BY DEF Change, TypeInv, SourcesOK
  <2>2. IsFiniteSet({v \in UIDs : truth[v] # NoPod} \cup {u})
    BY FS_AddElement DEF TypeInv, SourcesOK
  <2>3. QED
    BY <2>1, <2>2, FS_Subset
<1>2. truth' \in [UIDs -> Pods \cup {NoPod}]
  BY DEF Change, TypeInv, SourcesOK
<1>3. QED
  BY <1>1, <1>2 DEF Change, TypeInv, IndexOK, SourcesOK, ChannelOK, CountsOK, StoresOK,
       managerVars

\* The changes of a source are changes of one pod.
LEMMA SourceStepType ==
  ASSUME TypeInv, NEW u \in UIDs, Created(u) \/ Modified(u) \/ Removed(u)
  PROVE  TypeInv' /\ \E pod \in Pods \cup {NoPod} : Change(u, pod)
<1>1. ASSUME truth[u] # NoPod
      PROVE  /\ [truth[u] EXCEPT !.spec = 1 - @] \in Pods
             /\ [truth[u] EXCEPT !.status = 1 - @] \in Pods
             /\ [truth[u] EXCEPT !.deleting = TRUE] \in Pods
  <2>1. truth[u] \in Pods
    BY <1>1 DEF TypeInv, SourcesOK
  <2>2. 1 - truth[u].spec \in {0, 1} /\ 1 - truth[u].status \in {0, 1}
    BY <2>1 DEF Pods
  <2>3. QED
    BY <2>1, <2>2, Zenon DEF Pods
<1>2. NewPod \in Pods
  BY DEF NewPod, Pods
<1>3. \E pod \in Pods \cup {NoPod} : Change(u, pod)
  BY <1>1, <1>2 DEF Created, Modified, Removed
<1>4. QED
  BY <1>3, ChangeType

\* A source sends a list, and only one at a time.
LEMMA SendSetType ==
  ASSUME TypeInv, NEW s \in Sources, SendSet(s)
  PROVE  TypeInv'
<1>1. List(s) \in Lists(s)
  BY ListType DEF TypeInv
<1>2. SourcesOK'
  <2>1. /\ inbox' = [inbox EXCEPT ![s] = <<List(s)>>]
        /\ UNCHANGED truth
    BY DEF SendSet
  <2>2. inbox' \in [Sources -> Seq(UNION {Lists(t) : t \in Sources})]
    BY <1>1, <2>1 DEF TypeInv, SourcesOK
  <2>3. ASSUME NEW t \in Sources
        PROVE  Len(inbox'[t]) <= 1 /\ (inbox'[t] # <<>> => inbox'[t][1] \in Lists(t))
    <3>1. CASE t = s
      <4>1. inbox'[t] = <<List(s)>>
        BY <2>1, <3>1 DEF TypeInv, SourcesOK
      <4>2. QED
        BY <1>1, <3>1, <4>1
    <3>2. CASE t # s
      <4>1. inbox'[t] = inbox[t]
        BY <2>1, <3>2 DEF TypeInv, SourcesOK
      <4>2. QED
        BY <4>1 DEF TypeInv, SourcesOK
    <3>3. QED
      BY <3>1, <3>2
  <2>4. \A t \in Sources : Lists(t)' = Lists(t)
    BY DEF Lists
  <2>5. QED
    BY <2>1, <2>2, <2>3, <2>4 DEF TypeInv, SourcesOK, Lists
<1>3. QED
  BY <1>2 DEF SendSet, TypeInv, IndexOK, ChannelOK, CountsOK, StoresOK, managerVars

-----------------------------------------------------------------------------
(* The changes under way, as one queue *)

\* The queue has at least the message in hand.
LEMMA SizeType == ChannelOK => Size \in Nat /\ Size >= 1
BY DEF ChannelOK, Size

\* A message in the queue is a message, and so are its changes.
LEMMA EventsType ==
  ASSUME ChannelOK
  PROVE  /\ \A i \in 1..Size : Flight[i] \in Message
         /\ \A i \in 1..Size : Events[i] \subseteq Entry
         /\ Removals \subseteq 1..Size
<1>1. \A i \in 1..Size : Flight[i] \in Message
  BY DEF ChannelOK, Flight, Size
<1>2. ASSUME NEW i \in 1..Size
      PROVE  Events[i] \subseteq Entry
  <2>1. Flight[i].pods \subseteq Entry
    BY <1>1 DEF Message
  <2>2. QED
    BY <2>1 DEF Events
<1>3. QED
  BY <1>1, <1>2 DEF Removals

\* Sending moves a message from Merge's hands to the channel, nothing else.
LEMMA SendQueue ==
  ASSUME ChannelOK, Send
  PROVE  ChannelOK' /\ Size' = Size /\ Events' = Events /\ Removals' = Removals
<1>1. /\ pending # <<>> /\ updates' = Append(updates, Head(pending))
      /\ pending' = Tail(pending) /\ current' = current
      /\ Len(updates) < ChannelCap
  BY DEF Send
<1>2. /\ Len(updates') = Len(updates) + 1
      /\ Len(pending') = Len(pending) - 1
      /\ updates' \in Seq(Message) /\ pending' \in Seq(Message)
      /\ \A i \in 1..Len(updates) : updates'[i] = updates[i]
      /\ updates'[Len(updates) + 1] = pending[1]
      /\ \A i \in 1..(Len(pending) - 1) : pending'[i] = pending[i + 1]
  BY <1>1 DEF ChannelOK
<1>3. Size' = Size
  BY <1>2 DEF Size, ChannelOK
<1>4. Flight' = Flight
  <2>1. \A i \in 1..Size : Flight'[i] = Flight[i]
    BY <1>1, <1>2, <1>3 DEF Flight, Size, ChannelOK
  <2>2. QED
    BY <1>3, <2>1 DEF Flight
<1>5. ChannelOK'
  BY <1>1, <1>2, PodConfigAssumption DEF ChannelOK
<1>6. QED
  BY <1>3, <1>4, <1>5 DEF Events, Removals

\* Taking the next message drops the first, which is used up; a RECONCILE
\* carries no change.
LEMMA TakeQueue ==
  ASSUME ChannelOK, TakeUpdate
  PROVE  /\ ChannelOK' /\ Size' = Size - 1
         /\ Events[1] = {}
         /\ \A i \in 1..Size' :
              Events'[i] = Events[i + 1] /\ (i \in Removals' <=> i + 1 \in Removals)
<1>1. /\ current.pods = {} /\ updates # <<>>
      /\ current' = IF Head(updates).op = "RECONCILE" THEN NoUpdate ELSE Head(updates)
      /\ updates' = Tail(updates) /\ pending' = pending
  BY DEF TakeUpdate
<1>2. /\ Len(updates') = Len(updates) - 1
      /\ updates' \in Seq(Message)
      /\ Head(updates) = updates[1] /\ updates[1] \in Message
      /\ \A i \in 1..(Len(updates) - 1) : updates'[i] = updates[i + 1]
  BY <1>1 DEF ChannelOK
<1>3. Size' = Size - 1 /\ Size' >= 1 /\ Size \in Nat
  BY <1>1, <1>2 DEF Size, ChannelOK
<1>4. ASSUME NEW i \in 1..Size', i # 1
      PROVE  Flight'[i] = Flight[i + 1]
  BY <1>1, <1>2, <1>3, <1>4 DEF Flight, Size, ChannelOK
<1>5. Flight'[1] = current' /\ Flight[2] = updates[1] /\ Flight[1] = current
  BY <1>1, <1>2, <1>3 DEF Flight, Size, ChannelOK
<1>6. ChannelOK'
  <2>1. NoUpdate \in Message
    BY DEF NoUpdate, Message
  <2>2. current' \in Message /\ current'.op # "RECONCILE"
    BY <1>1, <1>2, <2>1 DEF NoUpdate
  <2>3. QED
    BY <1>1, <1>2, <2>2, PodConfigAssumption DEF ChannelOK
<1>7. ASSUME NEW i \in 1..Size'
      PROVE  Events'[i] = Events[i + 1] /\ (i \in Removals' <=> i + 1 \in Removals)
  <2>1. i \in 1..Size' /\ i + 1 \in 1..Size
    BY <1>3
  <2>2. CASE i # 1
    BY <1>4, <2>1, <2>2 DEF Events, Removals
  <2>3. CASE i = 1 /\ updates[1].op = "RECONCILE"
    <3>1. /\ Flight'[1].op = "none" /\ Flight'[1].pods = {}
          /\ Flight[2].op = "RECONCILE"
      BY <1>1, <1>2, <1>5, <2>3 DEF NoUpdate
    <3>2. Events'[1] = {} /\ Events[2] = {}
      BY <2>1, <2>3, <3>1 DEF Events
    <3>3. 1 \notin Removals' /\ 2 \notin Removals
      BY <3>1 DEF Removals
    <3>4. QED
      BY <2>3, <3>2, <3>3
  <2>4. CASE i = 1 /\ updates[1].op # "RECONCILE"
    BY <1>1, <1>2, <1>5, <2>1, <2>4 DEF Events, Removals
  <2>5. QED
    BY <2>2, <2>3, <2>4
<1>8. Events[1] = {}
  BY <1>1, <1>3, <1>5 DEF Events
<1>9. QED
  BY <1>3, <1>6, <1>7, <1>8

\* Handling a pod takes its change from the first message.
LEMMA HandleQueue ==
  ASSUME ChannelOK, NEW p, HandlePod(p)
  PROVE  /\ ChannelOK' /\ Size' = Size
         /\ p \in Events[1]
         /\ Events'[1] = Events[1] \ {p}
         /\ \A i \in 2..Size : Events'[i] = Events[i]
         /\ Removals' = Removals
         /\ current.op = "REMOVE" <=> 1 \in Removals
<1>1. /\ p \in current.pods /\ current' = [current EXCEPT !.pods = @ \ {p}]
      /\ updates' = updates /\ pending' = pending
  BY DEF HandlePod
<1>2. current' \in Message /\ current'.op = current.op /\ current'.pods = current.pods \ {p}
  BY <1>1 DEF ChannelOK, Message
<1>3. Size' = Size /\ Size \in Nat /\ Size >= 1
  BY <1>1, SizeType DEF Size
<1>4. /\ Flight[1] = current /\ Flight'[1] = current'
      /\ \A i \in 2..Size : Flight'[i] = Flight[i]
  BY <1>1, <1>3 DEF Flight, Size
<1>5. ChannelOK'
  BY <1>1, <1>2 DEF ChannelOK
<1>6. \A i \in 1..Size : Flight'[i].op = Flight[i].op
  BY <1>2, <1>3, <1>4
<1>7. Removals' = Removals
  BY <1>3, <1>6 DEF Removals
<1>8. current.op # "RECONCILE"
  BY DEF ChannelOK
<1>9. p \in Events[1] /\ Events'[1] = Events[1] \ {p}
  <2>1. 1 \in 1..Size /\ 1 \in 1..Size'
    BY <1>3
  <2>2. Events[1] = current.pods /\ Events'[1] = current'.pods
    BY <1>2, <1>4, <1>8, <2>1 DEF Events
  <2>3. QED
    BY <1>1, <1>2, <2>2
<1>10. \A i \in 2..Size : Events'[i] = Events[i]
  BY <1>3, <1>4 DEF Events
<1>11. current.op = "REMOVE" <=> 1 \in Removals
  BY <1>3, <1>4 DEF Removals
<1>12. QED
  BY <1>3, <1>5, <1>7, <1>9, <1>10, <1>11

-----------------------------------------------------------------------------
(* The messages of one Merge *)

\* Sequence s sends the messages of M: each one that has pods once, and r only
\* as the first.
Sends(s, M, r) ==
  /\ s \in Seq(M)
  /\ \A m \in M : m.pods # {} => \E i \in 1..Len(s) : s[i] = m
  /\ \A i, j \in 1..Len(s) : s[i] = s[j] /\ s[i].pods # {} => i = j
  /\ \A i \in 1..Len(s) : s[i] = r => i = 1

\* One more message, skipped when it has no pods.
LEMMA SendsNext ==
  ASSUME NEW M, NEW r \in M, NEW s, Sends(s, M, r), NEW m, m \notin M
  PROVE  /\ Sends(s \o NonEmpty(m), M \cup {m}, r)
         /\ Len(s \o NonEmpty(m)) = IF m.pods = {} THEN Len(s) ELSE Len(s) + 1
<1>1. s \in Seq(M) /\ s \in Seq(M \cup {m})
  BY DEF Sends
<1>2. CASE m.pods = {}
  <2>1. s \o NonEmpty(m) = s
    BY <1>1, <1>2 DEF NonEmpty
  <2>2. QED
    BY <1>1, <1>2, <2>1 DEF Sends
<1>3. CASE m.pods # {}
  <2> DEFINE t == s \o <<m>>
  <2>1. s \o NonEmpty(m) = t
    BY <1>3 DEF NonEmpty
  <2>2. /\ t \in Seq(M \cup {m}) /\ Len(t) = Len(s) + 1 /\ Len(s) \in Nat
        /\ t[Len(s) + 1] = m
        /\ \A i \in 1..Len(s) : t[i] = s[i] /\ s[i] \in M
    BY <1>1
  <2> HIDE DEF t
  <2>3. \A x \in M \cup {m} : x.pods # {} => \E i \in 1..Len(t) : t[i] = x
    BY <2>2 DEF Sends
  <2>4. \A i, j \in 1..Len(t) : t[i] = t[j] /\ t[i].pods # {} => i = j
    BY <2>2 DEF Sends
  <2>5. \A i \in 1..Len(t) : t[i] = r => i = 1
    BY <2>2 DEF Sends
  <2>6. QED
    BY <1>3, <2>1, <2>2, <2>3, <2>4, <2>5 DEF Sends
<1>4. QED
  BY <1>2, <1>3

\* An empty message tells the main loop that a source is ready.
LEMMA SendsEmpty ==
  ASSUME NEW M, NEW r \in M, NEW s, Sends(s, M, r), NEW m \in M, m # r, m.pods = {}
  PROVE  Sends(s \o <<m>>, M, r) /\ Len(s \o <<m>>) = Len(s) + 1
<1> DEFINE t == s \o <<m>>
<1>1. /\ t \in Seq(M) /\ Len(t) = Len(s) + 1 /\ Len(s) \in Nat
      /\ t[Len(s) + 1] = m
      /\ \A i \in 1..Len(s) : t[i] = s[i]
  BY DEF Sends
<1> HIDE DEF t
<1>2. \A x \in M : x.pods # {} => \E i \in 1..Len(t) : t[i] = x
  BY <1>1 DEF Sends
<1>3. \A i, j \in 1..Len(t) : t[i] = t[j] /\ t[i].pods # {} => i = j
  BY <1>1 DEF Sends
<1>4. \A i \in 1..Len(t) : t[i] = r => i = 1
  BY <1>1 DEF Sends
<1>5. Sends(t, M, r)
  BY <1>1, <1>2, <1>3, <1>4 DEF Sends
<1>6. QED
  BY <1>1, <1>5 DEF t

\* Merge sends every message that has pods, the removals first, at most five.
LEMMA DeliveriesSend ==
  ASSUME NEW r, NEW a, NEW u, NEW d, NEW c, NEW firstSet \in BOOLEAN,
         a # r, u \notin {r, a}, d \notin {r, a, u}, c \notin {r, a, u, d}
  PROVE  /\ Sends(Deliveries(r, a, u, d, c, firstSet), {r, a, u, d, c}, r)
         /\ Len(Deliveries(r, a, u, d, c, firstSet)) <= 5
<1> DEFINE s1 == NonEmpty(r)
           s2 == s1 \o NonEmpty(a)
           s3 == s2 \o NonEmpty(u)
           s4 == s3 \o NonEmpty(d)
           s5 == s4 \o (IF firstSet /\ a.pods \cup u.pods \cup d.pods = {} THEN <<a>> ELSE <<>>)
           s6 == s5 \o NonEmpty(c)
           M2 == {r} \cup {a}
           M3 == M2 \cup {u}
           M4 == M3 \cup {d}
           M6 == M4 \cup {c}
<1>0. /\ r \in {r} /\ a \notin {r}
      /\ r \in M2 /\ u \notin M2
      /\ r \in M3 /\ d \notin M3
      /\ r \in M4 /\ a \in M4 /\ c \notin M4
      /\ M6 = {r, a, u, d, c}
  OBVIOUS
<1>1. Sends(s1, {r}, r) /\ Len(s1) \in Nat /\ Len(s1) <= 1
  <2>1. CASE r.pods = {}
    <3>1. s1 = <<>>
      BY <2>1 DEF NonEmpty
    <3>2. QED
      BY <2>1, <3>1 DEF Sends
  <2>2. CASE r.pods # {}
    <3>1. s1 = <<r>>
      BY <2>2 DEF NonEmpty
    <3>2. Len(s1) = 1 /\ s1[1] = r /\ s1 \in Seq({r})
      BY <3>1
    <3>3. QED
      BY <3>2 DEF Sends
  <2>3. QED
    BY <2>1, <2>2
<1> HIDE DEF s1
<1>2. Sends(s2, M2, r) /\ Len(s2) = IF a.pods = {} THEN Len(s1) ELSE Len(s1) + 1
  BY <1>0, <1>1, SendsNext, Zenon
<1> HIDE DEF s2, M2
<1>3. Sends(s3, M3, r) /\ Len(s3) = IF u.pods = {} THEN Len(s2) ELSE Len(s2) + 1
  BY <1>0, <1>2, SendsNext, Zenon
<1> HIDE DEF s3, M3
<1>4. Sends(s4, M4, r) /\ Len(s4) = IF d.pods = {} THEN Len(s3) ELSE Len(s3) + 1
  BY <1>0, <1>3, SendsNext, Zenon
<1> HIDE DEF s4, M4
<1>5. Sends(s5, M4, r) /\ Len(s5) \in Nat /\ Len(s5) <= 4
  <2>1. CASE firstSet /\ a.pods \cup u.pods \cup d.pods = {}
    <3>1. a.pods = {} /\ u.pods = {} /\ d.pods = {} /\ s5 = s4 \o <<a>>
      BY <2>1
    <3> HIDE DEF s5
    <3>2. Sends(s4 \o <<a>>, M4, r) /\ Len(s4 \o <<a>>) = Len(s4) + 1
      <4>1. r \in M4 /\ a \in M4 /\ a.pods = {} /\ a # r /\ Sends(s4, M4, r)
        BY <1>0, <1>4, <3>1
      <4>2. QED
        BY <4>1, SendsEmpty
    <3>3. QED
      BY <1>1, <1>2, <1>3, <1>4, <3>1, <3>2
  <2>2. CASE ~(firstSet /\ a.pods \cup u.pods \cup d.pods = {})
    <3>1. s4 \in Seq(M4)
      BY <1>4 DEF Sends
    <3>2. s5 = s4 \o <<>>
      BY <2>2
    <3>3. s5 = s4
      BY <3>1, <3>2
    <3> HIDE DEF s5
    <3>4. QED
      BY <1>1, <1>2, <1>3, <1>4, <3>3
  <2>3. QED
    BY <2>1, <2>2
<1> HIDE DEF s5
<1>6. Sends(s6, M6, r) /\ Len(s6) = IF c.pods = {} THEN Len(s5) ELSE Len(s5) + 1
  BY <1>0, <1>5, SendsNext, Zenon
<1> HIDE DEF M6
<1>7. Deliveries(r, a, u, d, c, firstSet) = s6
  BY DEF Deliveries, s1, s2, s3, s4, s5
<1>8. Len(s6) <= 5
  BY <1>5, <1>6
<1>9. QED
  BY <1>0, <1>6, <1>7, <1>8, Zenon

-----------------------------------------------------------------------------
(* What one Merge finds: the sets that Merge builds for the list of source s *)

Filtered(s) == FilterInvalidPods(inbox[s][1])
RefOf(list) ==
  [u \in UIDs |-> IF u \in FilterInvalidPods(list)
                  THEN list[CHOOSE i \in DOMAIN list : list[i].uid = u].pod
                  ELSE NoPod]
Ref(s) == RefOf(inbox[s][1])
Known(s) == {u \in UIDs : Source[u] = s /\ stored[u] # NoPod}
Differ(s) == {u \in Filtered(s) \cap Known(s) : PodsDifferSemantically(stored[u], Ref(s)[u])}
Gone(s) == Known(s) \ Filtered(s)
Fresh(s) == Filtered(s) \ Known(s)
Deleted(s) == {u \in Differ(s) : Ref(s)[u].deleting}
Reconciled(s) ==
  {u \in (Filtered(s) \cap Known(s)) \ Differ(s) : stored[u].status # Ref(s)[u].status}
Changed(s) == Gone(s) \cup Fresh(s) \cup Differ(s)
EntryOf(s, u) == [uid |-> u, ver |-> merged[u] + 1, pod |-> Carried(stored[u], Ref(s)[u])]
MessageOf(s, op, us) == [op |-> op, pods |-> {EntryOf(s, u) : u \in us}]

\* Merge, in terms of these sets.
LEMMA MergeDef ==
  ASSUME NEW s \in Sources, Merge(s)
  PROVE  /\ inbox[s] # <<>> /\ pending = <<>>
         /\ inbox' = [inbox EXCEPT ![s] = <<>>]
         /\ stored' = [u \in UIDs |-> IF Source[u] = s THEN Ref(s)[u] ELSE stored[u]]
         /\ merged' = [u \in UIDs |-> IF u \in Changed(s) THEN merged[u] + 1 ELSE merged[u]]
         /\ pending' = Deliveries(MessageOf(s, "REMOVE", Gone(s)),
                                  MessageOf(s, "ADD", Fresh(s)),
                                  MessageOf(s, "UPDATE", Differ(s) \ Deleted(s)),
                                  MessageOf(s, "DELETE", Deleted(s)),
                                  MessageOf(s, "RECONCILE", Reconciled(s)), s \notin seen)
         /\ UNCHANGED <<managerVars, truth, changes, sent, updates, current, handled>>
BY Zenon DEF Merge, Filtered, Ref, RefOf, Known, Differ, Gone, Fresh, Deleted, Reconciled,
             Changed, EntryOf, MessageOf

\* filterInvalidPods keeps pods of the list, one of each name.
LEMMA FilteredList ==
  ASSUME NEW s \in Sources, NEW list \in Lists(s)
  PROVE  /\ FilterInvalidPods(list) \subseteq {u \in UIDs : Source[u] = s}
         /\ \A u, v \in FilterInvalidPods(list) : Fullname[u] = Fullname[v] => u = v
         /\ \A i \in DOMAIN list : \E u \in FilterInvalidPods(list) :
              Fullname[u] = Fullname[list[i].uid]
         /\ \A u \in FilterInvalidPods(list) :
              \E i \in DOMAIN list : list[i].uid = u /\ RefOf(list)[u] = list[i].pod
         /\ \A u \in FilterInvalidPods(list) : RefOf(list)[u] \in Pods
         /\ \A u \in UIDs \ FilterInvalidPods(list) : RefOf(list)[u] = NoPod
<1> DEFINE kept == FilterInvalidPods(list)
<1>1. \A i \in DOMAIN list :
        /\ i \in Nat /\ i >= 1 /\ \A k \in 1..i : k \in DOMAIN list
        /\ list[i].uid \in UIDs /\ Source[list[i].uid] = s /\ list[i].pod \in Pods
  <2> DEFINE Item == [uid: {u \in UIDs : Source[u] = s}, pod: Pods]
  <2>1. list \in Seq(Item)
    BY DEF Lists
  <2>2. \A item \in Item : item.uid \in UIDs /\ Source[item.uid] = s /\ item.pod \in Pods
    OBVIOUS
  <2> HIDE DEF Item
  <2>3. \A i \in DOMAIN list :
          i \in Nat /\ i >= 1 /\ (\A k \in 1..i : k \in DOMAIN list) /\ list[i] \in Item
    BY <2>1
  <2>4. QED
    BY <2>2, <2>3
<1>2. kept = {list[i].uid : i \in {j \in DOMAIN list :
                \A k \in 1..(j - 1) : Fullname[list[k].uid] # Fullname[list[j].uid]}}
  BY DEF FilterInvalidPods
<1> HIDE DEF kept
<1>3. \A u \in kept : \E i \in DOMAIN list : list[i].uid = u
  BY <1>2
<1>4. kept \subseteq {u \in UIDs : Source[u] = s}
  BY <1>1, <1>3
<1>5. ASSUME NEW u \in kept, NEW v \in kept, Fullname[u] = Fullname[v]
      PROVE  u = v
  <2>1. PICK i \in DOMAIN list :
          list[i].uid = u /\ \A k \in 1..(i - 1) : Fullname[list[k].uid] # Fullname[u]
    BY <1>2
  <2>2. PICK j \in DOMAIN list :
          list[j].uid = v /\ \A k \in 1..(j - 1) : Fullname[list[k].uid] # Fullname[v]
    BY <1>2
  <2>3. i = j
    BY <1>1, <1>5, <2>1, <2>2
  <2>4. QED
    BY <2>1, <2>2, <2>3
<1>6. ASSUME NEW i \in DOMAIN list
      PROVE  \E u \in kept : Fullname[u] = Fullname[list[i].uid]
  <2> DEFINE T == {j \in DOMAIN list : Fullname[list[j].uid] = Fullname[list[i].uid]}
  <2>1. T \subseteq Nat /\ T # {}
    BY <1>1
  <2>2. PICK j \in T : \A k \in T : <<k, j>> \notin OpToRel(<, Nat)
    BY <2>1, NatLessThanWellFounded, WFMin
  <2>3. \A k \in T : ~(k < j)
    BY <2>1, <2>2 DEF OpToRel
  <2>4. \A k \in 1..(j - 1) : k \in DOMAIN list /\ k < j
    BY <1>1
  <2>5. \A k \in 1..(j - 1) : Fullname[list[k].uid] # Fullname[list[j].uid]
    BY <2>3, <2>4
  <2>6. list[j].uid \in kept
    BY <1>2, <2>5
  <2>7. QED
    BY <2>6
<1>7. ASSUME NEW u \in kept
      PROVE  \E i \in DOMAIN list : list[i].uid = u /\ RefOf(list)[u] = list[i].pod
  <2>1. RefOf(list)[u] = list[CHOOSE i \in DOMAIN list : list[i].uid = u].pod
    BY <1>4 DEF RefOf, kept
  <2>2. QED
    BY <1>3, <2>1
<1>8. \A u \in kept : RefOf(list)[u] \in Pods
  BY <1>1, <1>7
<1>9. \A u \in UIDs \ kept : RefOf(list)[u] = NoPod
  BY DEF RefOf, kept
<1>10. QED
  BY <1>4, <1>5, <1>6, <1>7, <1>8, <1>9 DEF kept

\* In particular those of the list that Merge takes.
LEMMA FilteredOne ==
  ASSUME TypeInv, NEW s \in Sources, inbox[s] # <<>>
  PROVE  /\ Filtered(s) \subseteq {u \in UIDs : Source[u] = s}
         /\ \A u, v \in Filtered(s) : Fullname[u] = Fullname[v] => u = v
         /\ \A u \in Filtered(s) : Ref(s)[u] \in Pods
         /\ \A u \in UIDs \ Filtered(s) : Ref(s)[u] = NoPod
<1>1. inbox[s][1] \in Lists(s)
  BY DEF TypeInv, SourcesOK
<1>2. QED
  BY <1>1, FilteredList DEF Filtered, Ref

\* Same is reflexive and transitive on pods.
LEMMA SameSemantics ==
  /\ \A p \in Pods \cup {NoPod} : Same(p, p)
  /\ \A p, q, r \in Pods \cup {NoPod} : Same(p, q) /\ Same(q, r) => Same(p, r)
BY NoPodAssumption DEF Same, PodsDifferSemantically, Pods

\* The stored pods before and after.
LEMMA MergeStored ==
  ASSUME TypeInv, NEW s \in Sources, Merge(s)
  PROVE  /\ Gone(s) \subseteq Changed(s) /\ Changed(s) \subseteq UIDs
         /\ stored' \in [UIDs -> Pods \cup {NoPod}]
         /\ \A u \in Gone(s) : stored[u] # NoPod /\ stored'[u] = NoPod
         /\ \A u \in Changed(s) \ Gone(s) : stored'[u] \in Pods /\ stored'[u] = Ref(s)[u]
         /\ \A u \in UIDs \ Changed(s) : Same(stored[u], stored'[u])
<1>1. /\ inbox[s] # <<>>
      /\ stored' = [u \in UIDs |-> IF Source[u] = s THEN Ref(s)[u] ELSE stored[u]]
  BY MergeDef
<1>2. /\ Filtered(s) \subseteq {u \in UIDs : Source[u] = s}
      /\ \A u, v \in Filtered(s) : Fullname[u] = Fullname[v] => u = v
      /\ \A u \in Filtered(s) : Ref(s)[u] \in Pods
      /\ \A u \in UIDs \ Filtered(s) : Ref(s)[u] = NoPod
  BY <1>1, FilteredOne
<1>3. Gone(s) \subseteq Changed(s) /\ Changed(s) \subseteq UIDs
  BY <1>2 DEF Gone, Changed, Known, Fresh, Differ
<1>4. stored' \in [UIDs -> Pods \cup {NoPod}]
  BY <1>1, <1>2 DEF TypeInv, StoresOK
<1>5. \A u \in Gone(s) : stored[u] # NoPod /\ stored'[u] = NoPod
  BY <1>1, <1>2 DEF Gone, Known
<1>6. \A u \in Changed(s) \ Gone(s) : stored'[u] \in Pods /\ stored'[u] = Ref(s)[u]
  BY <1>1, <1>2 DEF Gone, Known, Changed, Fresh, Differ
<1>7. ASSUME NEW u \in UIDs \ Changed(s)
      PROVE  Same(stored[u], stored'[u])
  <2>1. stored[u] \in Pods \cup {NoPod}
    BY DEF TypeInv, StoresOK
  <2>2. CASE Source[u] # s
    BY <1>1, <2>1, <2>2, SameSemantics
  <2>3. CASE Source[u] = s /\ stored[u] = NoPod
    BY <1>1, <1>2, <2>3 DEF Changed, Gone, Fresh, Differ, Known, Same
  <2>4. CASE Source[u] = s /\ stored[u] # NoPod
    <3>1. u \in Known(s) /\ u \in Filtered(s) /\ u \notin Differ(s)
      BY <2>4 DEF Changed, Gone, Known
    <3>2. ~PodsDifferSemantically(stored[u], Ref(s)[u])
      BY <3>1 DEF Differ
    <3>3. stored'[u] = Ref(s)[u] /\ Ref(s)[u] # NoPod
      BY <1>1, <1>2, <2>4, <3>1, NoPodAssumption
    <3>4. QED
      BY <2>4, <3>2, <3>3 DEF Same
  <2>5. QED
    BY <2>2, <2>3, <2>4
<1>8. QED
  BY <1>3, <1>4, <1>5, <1>6, <1>7

\* Of the pods of one key Merge stores one.
LEMMA MergeOneStored ==
  ASSUME TypeInv, OneSource, OneStored, NEW s \in Sources, Merge(s)
  PROVE  OneStored'
<1>1. /\ inbox[s] # <<>>
      /\ stored' = [u \in UIDs |-> IF Source[u] = s THEN Ref(s)[u] ELSE stored[u]]
  BY MergeDef
<1>2. /\ \A u, v \in Filtered(s) : Fullname[u] = Fullname[v] => u = v
      /\ \A u \in UIDs \ Filtered(s) : Ref(s)[u] = NoPod
  BY <1>1, FilteredOne
<1>3. ASSUME NEW u \in UIDs, NEW v \in UIDs, Rivals(u, v)
      PROVE  stored'[u] = NoPod \/ stored'[v] = NoPod
  <2>1. Source[u] = Source[v] /\ Fullname[u] = Fullname[v] /\ u # v
    BY <1>3, Zenon DEF OneSource, Rivals
  <2>2. CASE Source[u] = s
    BY <1>1, <1>2, <2>1, <2>2
  <2>3. CASE Source[u] # s
    BY <1>1, <1>3, <2>1, <2>3 DEF OneStored
  <2>4. QED
    BY <2>2, <2>3
<1>4. QED
  BY <1>3 DEF OneStored, Rivals

\* The messages are distinct by their operation.
LEMMA MergeMessages ==
  ASSUME TypeInv, NEW s \in Sources, Merge(s)
  PROVE  LET r == MessageOf(s, "REMOVE", Gone(s))
             a == MessageOf(s, "ADD", Fresh(s))
             u == MessageOf(s, "UPDATE", Differ(s) \ Deleted(s))
             d == MessageOf(s, "DELETE", Deleted(s))
             c == MessageOf(s, "RECONCILE", Reconciled(s))
         IN  Sends(pending', {r, a, u, d, c}, r) /\ Len(pending') <= 5
<1> DEFINE r == MessageOf(s, "REMOVE", Gone(s))
           a == MessageOf(s, "ADD", Fresh(s))
           u == MessageOf(s, "UPDATE", Differ(s) \ Deleted(s))
           d == MessageOf(s, "DELETE", Deleted(s))
           c == MessageOf(s, "RECONCILE", Reconciled(s))
<1>1. /\ r.op = "REMOVE" /\ a.op = "ADD" /\ u.op = "UPDATE" /\ d.op = "DELETE"
      /\ c.op = "RECONCILE"
  BY DEF MessageOf
<1>2. pending' = Deliveries(r, a, u, d, c, s \notin seen)
  BY MergeDef
<1> HIDE DEF r, a, u, d, c
<1>3. a # r /\ u \notin {r, a} /\ d \notin {r, a, u} /\ c \notin {r, a, u, d}
  BY <1>1
<1>4. Sends(pending', {r, a, u, d, c}, r) /\ Len(pending') <= 5
  BY <1>2, <1>3, DeliveriesSend
<1>5. QED
  BY <1>4 DEF r, a, u, d, c

\* What Merge adds to the queue, behind everything that is there: one change of
\* every changed pod, the removals in the first message.
NewEvents(s) ==
  /\ \A i \in (Size + 1)..Size' : \A p \in Events'[i] :
       /\ p \in Entry /\ p.uid \in Changed(s) /\ p.ver = merged[p.uid] + 1
       /\ i \in Removals' <=> p.uid \in Gone(s)
       /\ i \notin Removals' => p.pod = stored'[p.uid]
  /\ \A u \in Changed(s) : \E i \in (Size + 1)..Size' : \E p \in Events'[i] : p.uid = u
  /\ \A i, j \in (Size + 1)..Size' : \A p \in Events'[i], q \in Events'[j] :
       p.uid = q.uid => i = j /\ p = q
  /\ \A i \in (Size + 1)..Size' : i \in Removals' => i = Size + 1

\* Merge leaves what is under way alone and adds its own changes.
LEMMA MergeQueue ==
  ASSUME TypeInv, NEW s \in Sources, Merge(s)
  PROVE  /\ ChannelOK' /\ Size' >= Size
         /\ \A i \in 1..Size : Events'[i] = Events[i] /\ (i \in Removals' <=> i \in Removals)
         /\ NewEvents(s)
<1> DEFINE r == MessageOf(s, "REMOVE", Gone(s))
           a == MessageOf(s, "ADD", Fresh(s))
           u == MessageOf(s, "UPDATE", Differ(s) \ Deleted(s))
           d == MessageOf(s, "DELETE", Deleted(s))
           c == MessageOf(s, "RECONCILE", Reconciled(s))
<1>1. /\ pending = <<>> /\ updates' = updates /\ current' = current
      /\ Sends(pending', {r, a, u, d, c}, r) /\ Len(pending') <= 5
  BY MergeDef, MergeMessages
<1>2. /\ r.op = "REMOVE" /\ a.op = "ADD" /\ u.op = "UPDATE" /\ d.op = "DELETE"
      /\ c.op = "RECONCILE"
      /\ r.pods = {EntryOf(s, x) : x \in Gone(s)}
      /\ a.pods = {EntryOf(s, x) : x \in Fresh(s)}
      /\ u.pods = {EntryOf(s, x) : x \in Differ(s) \ Deleted(s)}
      /\ d.pods = {EntryOf(s, x) : x \in Deleted(s)}
      /\ c.pods = {EntryOf(s, x) : x \in Reconciled(s)}
  BY DEF MessageOf
<1>3. /\ Filtered(s) \subseteq {x \in UIDs : Source[x] = s}
      /\ \A x \in Filtered(s) : Ref(s)[x] \in Pods
      /\ \A x \in UIDs \ Filtered(s) : Ref(s)[x] = NoPod
  BY MergeDef, FilteredOne
<1>4. ASSUME NEW x \in Filtered(s) \cup Known(s)
      PROVE  /\ EntryOf(s, x) \in Entry
             /\ EntryOf(s, x).uid = x /\ EntryOf(s, x).ver = merged[x] + 1
             /\ x \in Filtered(s) => EntryOf(s, x).pod = Ref(s)[x]
  <2>1. x \in UIDs /\ merged[x] + 1 \in Nat
    BY <1>3 DEF Known, TypeInv, CountsOK
  <2>2. Carried(stored[x], Ref(s)[x]) \in Pods
    BY <1>3, <2>1 DEF Carried, Known, TypeInv, StoresOK
  <2>3. x \in Filtered(s) => Carried(stored[x], Ref(s)[x]) = Ref(s)[x]
    BY <1>3, NoPodAssumption DEF Carried
  <2>4. QED
    BY <2>1, <2>2, <2>3 DEF EntryOf, Entry
<1>5. /\ Gone(s) \subseteq Known(s) /\ Fresh(s) \subseteq Filtered(s)
      /\ Deleted(s) \subseteq Differ(s) /\ Differ(s) \subseteq Filtered(s) \cap Known(s)
      /\ Reconciled(s) \subseteq Filtered(s)
      /\ Gone(s) \cap Filtered(s) = {} /\ Fresh(s) \cap Known(s) = {}
      /\ Changed(s) = Gone(s) \cup Fresh(s) \cup Differ(s)
  BY DEF Gone, Fresh, Deleted, Differ, Reconciled, Changed
<1> HIDE DEF r, a, u, d, c
<1>6. {r, a, u, d, c} \subseteq Message
  <2>1. /\ r.pods \subseteq Entry /\ a.pods \subseteq Entry /\ u.pods \subseteq Entry
        /\ d.pods \subseteq Entry /\ c.pods \subseteq Entry
    BY <1>2, <1>4, <1>5
  <2>2. QED
    BY <1>2, <2>1 DEF MessageOf, Message, r, a, u, d, c
<1>7. /\ pending' \in Seq({r, a, u, d, c}) /\ pending' \in Seq(Message)
      /\ Len(pending') \in Nat
  BY <1>1, <1>6 DEF Sends
<1>8. ChannelOK'
  BY <1>1, <1>7 DEF TypeInv, ChannelOK
<1>9. /\ Size = 1 + Len(updates) /\ Size' = Size + Len(pending') /\ Size \in Nat
  BY <1>1, <1>7 DEF Size, TypeInv, ChannelOK
<1>10. /\ \A i \in 1..Size : Flight'[i] = Flight[i]
       /\ \A i \in (Size + 1)..Size' :
            i - Size \in 1..Len(pending') /\ Flight'[i] = pending'[i - Size]
       /\ \A k \in 1..Len(pending') :
            Size + k \in (Size + 1)..Size' /\ Flight'[Size + k] = pending'[k]
  BY <1>1, <1>7, <1>9 DEF Flight, Size, TypeInv, ChannelOK
<1>11. \A i \in 1..Size : Events'[i] = Events[i] /\ (i \in Removals' <=> i \in Removals)
  BY <1>7, <1>9, <1>10 DEF Events, Removals
<1>12. ASSUME NEW i \in (Size + 1)..Size'
       PROVE  LET m == pending'[i - Size]
              IN  /\ m \in {r, a, u, d, c}
                  /\ Events'[i] = IF m = c THEN {} ELSE m.pods
                  /\ i \in Removals' <=> m = r
  <2>1. /\ Flight'[i] = pending'[i - Size] /\ pending'[i - Size] \in {r, a, u, d, c}
        /\ i \in 1..Size'
    BY <1>7, <1>9, <1>10
  <2>2. Events'[i] = IF Flight'[i].op = "RECONCILE" THEN {} ELSE Flight'[i].pods
    BY <2>1 DEF Events
  <2>3. i \in Removals' <=> Flight'[i].op = "REMOVE"
    BY <2>1 DEF Removals
  <2>4. QED
    BY <1>2, <2>1, <2>2, <2>3
<1>13. ASSUME NEW i \in (Size + 1)..Size', NEW p \in Events'[i]
       PROVE  \E x \in Changed(s) :
                /\ p = EntryOf(s, x) /\ x \in Filtered(s) \cup Known(s)
                /\ i \in Removals' <=> x \in Gone(s)
                /\ pending'[i - Size] =
                     IF x \in Gone(s) THEN r ELSE IF x \in Fresh(s) THEN a
                     ELSE IF x \in Deleted(s) THEN d ELSE u
  <2> DEFINE m == pending'[i - Size]
  <2>1. /\ m \in {r, a, u, d} /\ p \in m.pods
        /\ i \in Removals' <=> m = r
    BY <1>12
  <2>2. a # r /\ u # r /\ d # r
    BY <1>2
  <2> HIDE DEF m
  <2>3. CASE m = r
    <3>1. PICK x \in Gone(s) : p = EntryOf(s, x)
      BY <1>2, <2>1, <2>3
    <3>2. QED
      BY <1>5, <2>1, <2>3, <3>1 DEF m
  <2>4. CASE m = a
    <3>1. PICK x \in Fresh(s) : p = EntryOf(s, x)
      BY <1>2, <2>1, <2>4
    <3>2. QED
      BY <1>5, <2>1, <2>2, <2>4, <3>1 DEF m
  <2>5. CASE m = u
    <3>1. PICK x \in Differ(s) \ Deleted(s) : p = EntryOf(s, x)
      BY <1>2, <2>1, <2>5
    <3>2. QED
      BY <1>5, <2>1, <2>2, <2>5, <3>1 DEF m
  <2>6. CASE m = d
    <3>1. PICK x \in Deleted(s) : p = EntryOf(s, x)
      BY <1>2, <2>1, <2>6
    <3>2. QED
      BY <1>5, <2>1, <2>2, <2>6, <3>1 DEF m
  <2>7. QED
    BY <2>1, <2>3, <2>4, <2>5, <2>6 DEF m
<1>14. ASSUME NEW i \in (Size + 1)..Size', NEW p \in Events'[i]
       PROVE  /\ p \in Entry /\ p.uid \in Changed(s) /\ p.ver = merged[p.uid] + 1
              /\ i \in Removals' <=> p.uid \in Gone(s)
              /\ i \notin Removals' => p.pod = stored'[p.uid]
  <2>1. PICK x \in Changed(s) :
          /\ p = EntryOf(s, x) /\ x \in Filtered(s) \cup Known(s)
          /\ i \in Removals' <=> x \in Gone(s)
    BY <1>13
  <2>2. /\ p \in Entry /\ p.uid = x /\ p.ver = merged[x] + 1
        /\ x \in Filtered(s) => p.pod = Ref(s)[x]
    BY <1>4, <2>1
  <2>3. x \notin Gone(s) => x \in Filtered(s) /\ stored'[x] = Ref(s)[x]
    BY <1>5, <2>1, MergeStored
  <2>4. QED
    BY <2>1, <2>2, <2>3
<1>15. ASSUME NEW x \in Changed(s)
       PROVE  \E i \in (Size + 1)..Size' : \E p \in Events'[i] : p.uid = x
  <2>1. x \in Filtered(s) \cup Known(s) /\ EntryOf(s, x).uid = x
    BY <1>4, <1>5
  <2>2. PICK m \in {r, a, u, d} : EntryOf(s, x) \in m.pods
    BY <1>2, <1>5
  <2>3. PICK k \in 1..Len(pending') : pending'[k] = m
    BY <1>1, <2>2 DEF Sends
  <2>4. /\ Size + k \in (Size + 1)..Size' /\ (Size + k) - Size = k /\ m # c
    BY <1>2, <1>9, <1>10, <2>3
  <2>5. EntryOf(s, x) \in Events'[Size + k]
    BY <1>12, <2>2, <2>3, <2>4
  <2>6. QED
    BY <2>1, <2>4, <2>5
<1>16. ASSUME NEW i \in (Size + 1)..Size', NEW j \in (Size + 1)..Size',
              NEW p \in Events'[i], NEW q \in Events'[j], p.uid = q.uid
       PROVE  i = j /\ p = q
  <2>1. PICK x \in Changed(s) :
          /\ p = EntryOf(s, x) /\ x \in Filtered(s) \cup Known(s)
          /\ pending'[i - Size] =
               IF x \in Gone(s) THEN r ELSE IF x \in Fresh(s) THEN a
               ELSE IF x \in Deleted(s) THEN d ELSE u
    BY <1>13
  <2>2. PICK y \in Changed(s) :
          /\ q = EntryOf(s, y) /\ y \in Filtered(s) \cup Known(s)
          /\ pending'[j - Size] =
               IF y \in Gone(s) THEN r ELSE IF y \in Fresh(s) THEN a
               ELSE IF y \in Deleted(s) THEN d ELSE u
    BY <1>13
  <2>3. x = y
    BY <1>4, <1>16, <2>1, <2>2
  <2>4. p = q /\ pending'[i - Size] = pending'[j - Size]
    BY <2>1, <2>2, <2>3
  <2>5. pending'[i - Size].pods # {}
    BY <1>12
  <2>6. i - Size = j - Size
    BY <1>1, <1>10, <2>4, <2>5 DEF Sends
  <2>7. QED
    BY <1>9, <2>4, <2>6
<1>17. \A i \in (Size + 1)..Size' : i \in Removals' => i = Size + 1
  <2>1. ASSUME NEW i \in (Size + 1)..Size', i \in Removals'
        PROVE  i - Size = 1
    BY <1>1, <1>10, <1>12, <2>1 DEF Sends
  <2>2. QED
    BY <1>9, <2>1
<1>18. NewEvents(s)
  BY <1>14, <1>15, <1>16, <1>17 DEF NewEvents
<1>19. QED
  BY <1>7, <1>8, <1>9, <1>11, <1>18

-----------------------------------------------------------------------------
(* Steps that leave the changes under way, the stored pods and the maps alone *)

\* What the invariant says beyond types.
QueueInv == Ordered /\ Complete /\ LastIsStored /\ CaughtUpAgrees /\ TranslationIsCurrent

\* Such a step keeps the invariant.
LEMMA QueueFrame ==
  ASSUME QueueInv, Size' = Size, Events' = Events, Removals' = Removals,
         UNCHANGED <<managerVars, stored, merged, handled>>
  PROVE  QueueInv' /\ (NameInv => NameInv')
<1>1. Ordered' /\ Complete' /\ LastIsStored'
  BY DEF QueueInv, Ordered, Complete, LastIsStored
<1>2. CaughtUpAgrees' /\ TranslationIsCurrent'
  BY DEF QueueInv, CaughtUpAgrees, TranslationIsCurrent, Manager!TranslationIsCurrent,
         managerVars
<1>3. (OneStored => OneStored') /\ (RivalsGo => RivalsGo')
  BY DEF OneStored, RivalsGo, RemovedBefore, managerVars
<1>4. IndexesAgree => IndexesAgree'
  BY DEF IndexesAgree, Manager!IndexesAgree, managerVars
<1>5. QED
  BY <1>1, <1>2, <1>3, <1>4 DEF QueueInv, NameInv

\* The queue depends on the channel's two ends and the message in hand alone.
LEMMA QueueSame ==
  ASSUME UNCHANGED <<current, updates, pending>>
  PROVE  Size' = Size /\ Events' = Events /\ Removals' = Removals
BY DEF Size, Flight, Events, Removals

\* Created, Modified and Removed change what a source has, nothing else.
LEMMA SourceStepInv ==
  ASSUME ConfigInv, NEW u \in UIDs, Created(u) \/ Modified(u) \/ Removed(u)
  PROVE  ConfigInv' /\ (NameInv => NameInv')
<1>1. PICK pod \in Pods \cup {NoPod} : Change(u, pod)
  BY SourceStepType DEF ConfigInv
<1>2. /\ UNCHANGED <<current, updates, pending>>
      /\ UNCHANGED <<managerVars, stored, merged, handled>>
  BY <1>1 DEF Change
<1>3. QueueInv' /\ (NameInv => NameInv')
  BY <1>2, QueueSame, QueueFrame DEF ConfigInv, QueueInv
<1>4. QED
  BY <1>3, SourceStepType DEF ConfigInv, QueueInv

\* Nor does a list on its way to Merge.
LEMMA SendSetInv ==
  ASSUME ConfigInv, NEW s \in Sources, SendSet(s)
  PROVE  ConfigInv' /\ (NameInv => NameInv')
<1>1. /\ UNCHANGED <<current, updates, pending>>
      /\ UNCHANGED <<managerVars, stored, merged, handled>>
  BY DEF SendSet
<1>2. QueueInv' /\ (NameInv => NameInv')
  BY <1>1, QueueSame, QueueFrame DEF ConfigInv, QueueInv
<1>3. QED
  BY <1>2, SendSetType DEF ConfigInv, QueueInv

\* Send moves a message along the queue.
LEMMA SendInv ==
  ASSUME ConfigInv, Send
  PROVE  ConfigInv' /\ (NameInv => NameInv')
<1>1. /\ UNCHANGED <<managerVars, stored, merged, handled>>
      /\ UNCHANGED <<truth, inbox>>
  BY DEF Send
<1>2. ChannelOK' /\ Size' = Size /\ Events' = Events /\ Removals' = Removals
  BY SendQueue DEF ConfigInv, TypeInv
<1>3. QueueInv' /\ (NameInv => NameInv')
  BY <1>1, <1>2, QueueFrame DEF ConfigInv, QueueInv
<1>4. TypeInv'
  BY <1>1, <1>2 DEF ConfigInv, TypeInv, IndexOK, SourcesOK, CountsOK, StoresOK, managerVars,
       Lists
<1>5. QED
  BY <1>3, <1>4 DEF ConfigInv, QueueInv

\* A step that changes nothing keeps the invariant.
LEMMA StutterInv ==
  ASSUME ConfigInv, UNCHANGED vars
  PROVE  ConfigInv' /\ (NameInv => NameInv')
<1>1. /\ UNCHANGED <<managerVars, stored, merged, handled>>
      /\ UNCHANGED <<truth, inbox, current, updates, pending>>
  BY DEF vars
<1>2. QueueInv' /\ (NameInv => NameInv')
  BY <1>1, QueueSame, QueueFrame DEF ConfigInv, QueueInv
<1>3. TypeInv'
  BY <1>1 DEF ConfigInv, TypeInv, IndexOK, SourcesOK, ChannelOK, CountsOK, StoresOK,
       managerVars, Lists
<1>4. QED
  BY <1>2, <1>3 DEF ConfigInv, QueueInv

-----------------------------------------------------------------------------
(* TakeUpdate: every position moves up by one *)

\* The invariant speaks of positions relative to each other.
LEMMA TakeUpdateInv ==
  ASSUME ConfigInv, TakeUpdate
  PROVE  ConfigInv'
<1>1. /\ ChannelOK' /\ Size' = Size - 1 /\ Size \in Nat
      /\ Events[1] = {}
      /\ \A i \in 1..Size' :
           Events'[i] = Events[i + 1] /\ (i \in Removals' <=> i + 1 \in Removals)
  BY TakeQueue, SizeType DEF ConfigInv, TypeInv
<1>2. /\ UNCHANGED <<managerVars, stored, merged, handled>>
      /\ UNCHANGED <<truth, inbox>>
  BY DEF TakeUpdate
<1>3. TypeInv'
  BY <1>1, <1>2 DEF ConfigInv, TypeInv, IndexOK, SourcesOK, CountsOK, StoresOK, managerVars,
       Lists
<1>4. \A i \in 1..Size' : i + 1 \in 1..Size
  BY <1>1
<1>5. Ordered'
  BY <1>1, <1>2, <1>4 DEF ConfigInv, Ordered
<1>6. ASSUME NEW i \in 1..Size, NEW p \in Events[i]
      PROVE  i - 1 \in 1..Size' /\ p \in Events'[i - 1] /\ (i \in Removals => i - 1 \in Removals')
  BY <1>1, <1>6
<1>7. Complete'
  <2>1. SUFFICES ASSUME NEW u \in UIDs, NEW n \in Nat, handled[u] < n, n <= merged[u]
                 PROVE  \E i \in 1..Size' : \E p \in Events'[i] : p.uid = u /\ p.ver = n
    BY <1>2 DEF Complete
  <2>2. PICK i \in 1..Size : \E p \in Events[i] : p.uid = u /\ p.ver = n
    BY <2>1 DEF ConfigInv, Complete
  <2>3. QED
    BY <1>6, <2>2
<1>8. LastIsStored'
  BY <1>1, <1>2, <1>4 DEF ConfigInv, LastIsStored
<1>9. CaughtUpAgrees' /\ TranslationIsCurrent'
  BY <1>2 DEF ConfigInv, CaughtUpAgrees, TranslationIsCurrent, Manager!TranslationIsCurrent,
         managerVars
<1>10. QED
  BY <1>3, <1>5, <1>7, <1>8, <1>9 DEF ConfigInv

\* A removal that is ahead of a pod stays ahead of it.
LEMMA TakeUpdateNames ==
  ASSUME ConfigInv, NameInv, TakeUpdate
  PROVE  NameInv'
<1>1. /\ ChannelOK' /\ Size' = Size - 1 /\ Size \in Nat
      /\ Events[1] = {}
      /\ \A i \in 1..Size' :
           Events'[i] = Events[i + 1] /\ (i \in Removals' <=> i + 1 \in Removals)
  BY TakeQueue, SizeType DEF ConfigInv, TypeInv
<1>2. /\ UNCHANGED <<managerVars, stored, merged, handled>>
      /\ UNCHANGED <<truth, inbox>>
  BY DEF TakeUpdate
<1>3. \A i \in 1..Size' : i + 1 \in 1..Size
  BY <1>1
<1>4. ASSUME NEW i \in 1..Size, NEW p \in Events[i]
      PROVE  i - 1 \in 1..Size' /\ p \in Events'[i - 1] /\ (i \in Removals => i - 1 \in Removals')
  BY <1>1, <1>4
<1>5. ASSUME NEW v \in UIDs, NEW j \in Nat, NEW i \in 1..Size', RemovedBefore(v, j, i + 1)
       PROVE  RemovedBefore(v, j - 1, i)'
  <2>1. PICK k \in 1..Size :
          j < k /\ k < i + 1 /\ k \in Removals /\ \E q \in Events[k] : q.uid = v
    BY <1>5 DEF RemovedBefore
  <2>2. /\ k - 1 \in 1..Size' /\ k - 1 \in Removals' /\ \E q \in Events'[k - 1] : q.uid = v
    BY <1>4, <2>1
  <2>3. j - 1 < k - 1 /\ k - 1 < i
    BY <1>1, <2>1
  <2>4. QED
    BY <2>2, <2>3 DEF RemovedBefore
<1>6. RivalsGo'
  <2>1. SUFFICES ASSUME NEW i \in 1..Size', NEW p \in Events'[i], NEW v \in UIDs,
                        Rivals(p.uid, v)
                 PROVE  /\ podByUID'[v] # NoPod => RemovedBefore(v, 0, i)'
                        /\ \A j \in 1..Size' : \A q \in Events'[j] :
                             q.uid = v => /\ j # i
                                          /\ j < i /\ j \notin Removals' =>
                                               RemovedBefore(v, j, i)'
    BY DEF RivalsGo, RemovedBefore
  <2>2. i + 1 \in 1..Size /\ p \in Events[i + 1]
    BY <1>1, <1>3
  <2>3. /\ podByUID[v] # NoPod => RemovedBefore(v, 0, i + 1)
        /\ \A j \in 1..Size : \A q \in Events[j] :
             q.uid = v => /\ j # i + 1
                          /\ j < i + 1 /\ j \notin Removals => RemovedBefore(v, j, i + 1)
    BY <2>1, <2>2 DEF NameInv, RivalsGo
  <2>4. podByUID'[v] # NoPod => RemovedBefore(v, 0, i)'
    <3>1. SUFFICES ASSUME podByUID'[v] # NoPod PROVE RemovedBefore(v, 0, i)'
      OBVIOUS
    <3>2. RemovedBefore(v, 0, i + 1)
      BY <1>2, <2>3, <3>1 DEF managerVars
    <3>3. PICK k \in 1..Size :
            0 < k /\ k < i + 1 /\ k \in Removals /\ \E q \in Events[k] : q.uid = v
      BY <3>2 DEF RemovedBefore
    <3>4. /\ k - 1 \in 1..Size' /\ k - 1 \in Removals' /\ \E q \in Events'[k - 1] : q.uid = v
      BY <1>4, <3>3
    <3>5. QED
      BY <3>3, <3>4 DEF RemovedBefore
  <2>5. ASSUME NEW j \in 1..Size', NEW q \in Events'[j], q.uid = v
        PROVE  j # i /\ (j < i /\ j \notin Removals' => RemovedBefore(v, j, i)')
    <3>1. j + 1 \in 1..Size /\ q \in Events[j + 1] /\ (j + 1 \in Removals <=> j \in Removals')
      BY <1>1, <1>3
    <3>2. /\ j + 1 # i + 1
          /\ j + 1 < i + 1 /\ j + 1 \notin Removals => RemovedBefore(v, j + 1, i + 1)
      BY <2>3, <2>5, <3>1
    <3>3. j + 1 \in Nat /\ (j + 1) - 1 = j
      BY <3>1
    <3>4. RemovedBefore(v, j + 1, i + 1) => RemovedBefore(v, j, i)'
      BY <1>5, <3>3
    <3>5. QED
      BY <3>1, <3>2, <3>4
  <2>6. QED
    BY <2>4, <2>5
<1>7. OneStored' /\ IndexesAgree'
  BY <1>2 DEF NameInv, OneStored, IndexesAgree, Manager!IndexesAgree, managerVars
<1>8. QED
  BY <1>6, <1>7 DEF NameInv

-----------------------------------------------------------------------------
(* HandlePod: the first change of the queue reaches the pod manager *)

\* The change that the main loop handles is the next one of its pod.
LEMMA HeadIsNext ==
  ASSUME ConfigInv, NEW p \in Events[1]
  PROVE  /\ p \in Entry
         /\ p.ver = handled[p.uid] + 1 /\ p.ver <= merged[p.uid]
<1>1. ChannelOK /\ CountsOK
  BY DEF ConfigInv, TypeInv
<1>2. 1 \in 1..Size /\ Size \in Nat
  BY <1>1, SizeType
<1>3. p \in Entry
  BY <1>1, <1>2, EventsType
<1>4. p.uid \in UIDs /\ p.ver \in Nat /\ handled[p.uid] \in Nat /\ merged[p.uid] \in Nat
  BY <1>1, <1>3 DEF Entry, CountsOK
<1>5. handled[p.uid] < p.ver /\ p.ver <= merged[p.uid]
  BY <1>2 DEF ConfigInv, Ordered
<1>6. PICK i \in 1..Size : \E q \in Events[i] : q.uid = p.uid /\ q.ver = handled[p.uid] + 1
  BY <1>4, <1>5 DEF ConfigInv, Complete
<1>7. PICK q \in Events[i] : q.uid = p.uid /\ q.ver = handled[p.uid] + 1
  BY <1>6
<1>8. i = 1
  <2>1. 1 < i => p.ver < q.ver
    BY <1>2, <1>7 DEF ConfigInv, Ordered
  <2>2. QED
    BY <1>2, <1>4, <1>5, <1>7, <2>1
<1>9. p = q
  BY <1>2, <1>7, <1>8 DEF ConfigInv, Ordered
<1>10. QED
  BY <1>3, <1>5, <1>7, <1>9

\* When it is handled, no rival of its pod is in the pod manager.
LEMMA HeadHasNoRival ==
  ASSUME ConfigInv, NameInv, NEW p \in Events[1], NEW v \in UIDs, Rivals(p.uid, v)
  PROVE  podByUID[v] = NoPod
<1>1. 1 \in 1..Size /\ Size \in Nat
  BY SizeType DEF ConfigInv, TypeInv
<1>2. podByUID[v] # NoPod => RemovedBefore(v, 0, 1)
  BY <1>1 DEF NameInv, RivalsGo
<1>3. QED
  BY <1>1, <1>2 DEF RemovedBefore

\* The maps after AddPod, UpdatePod and DeletePod.
LEMMA ManagerType ==
  ASSUME IndexOK, StoresOK, NEW u \in UIDs, NEW pod \in Pods,
         Manager!UpdatePod(u, pod) \/ Manager!DeletePod(u)
  PROVE  IndexOK' /\ podByUID' \in [UIDs -> Pods \cup {NoPod}]
<1>1. u \in UIDs /\ Fullname[u] \in Fullnames /\ NoUID \notin UIDs
  BY PodConfigAssumption
<1>2. CASE Manager!UpdatePod(u, pod)
  <2>1. CASE u \in MirrorPods
    BY <1>1, <1>2, <2>1 DEF Manager!UpdatePod, Manager!Translate, IndexOK, StoresOK
  <2>2. CASE u \notin MirrorPods
    BY <1>1, <1>2, <2>2 DEF Manager!UpdatePod, Manager!Translate, IndexOK, StoresOK
  <2>3. QED
    BY <2>1, <2>2
<1>3. CASE Manager!DeletePod(u)
  <2>1. CASE u \in MirrorPods
    BY <1>1, <1>3, <2>1 DEF Manager!DeletePod, IndexOK, StoresOK
  <2>2. CASE u \notin MirrorPods
    BY <1>1, <1>3, <2>2 DEF Manager!DeletePod, IndexOK, StoresOK
  <2>3. QED
    BY <2>1, <2>2
<1>4. QED
  BY <1>2, <1>3

\* Every operation of the pod manager keeps the translation current, in
\* whatever order pods and mirror pods come.
LEMMA ManagerTranslates ==
  ASSUME IndexOK, TranslationIsCurrent, NEW u \in UIDs, NEW pod,
         Manager!UpdatePod(u, pod) \/ Manager!DeletePod(u)
  PROVE  TranslationIsCurrent'
<1>1. u \in UIDs /\ Fullname[u] \in Fullnames /\ NoUID \notin UIDs
  BY PodConfigAssumption
<1>2. SUFFICES ASSUME NEW f \in Fullnames,
                      mirrorPodByFullName'[f] # NoUID, podByFullName'[f] # NoUID
               PROVE  translationByUID'[mirrorPodByFullName'[f]] = podByFullName'[f]
  BY DEF TranslationIsCurrent, Manager!TranslationIsCurrent
<1>3. mirrorPodByFullName[f] # NoUID /\ podByFullName[f] # NoUID =>
        translationByUID[mirrorPodByFullName[f]] = podByFullName[f]
  BY DEF TranslationIsCurrent, Manager!TranslationIsCurrent
<1>4. CASE Manager!UpdatePod(u, pod)
  <2>1. CASE u \in MirrorPods
    BY <1>1, <1>2, <1>3, <1>4, <2>1 DEF Manager!UpdatePod, Manager!Translate, IndexOK
  <2>2. CASE u \notin MirrorPods
    BY <1>1, <1>2, <1>3, <1>4, <2>2 DEF Manager!UpdatePod, Manager!Translate, IndexOK
  <2>3. QED
    BY <2>1, <2>2
<1>5. CASE Manager!DeletePod(u)
  BY <1>1, <1>2, <1>3, <1>5 DEF Manager!DeletePod, IndexOK
<1>6. QED
  BY <1>4, <1>5

\* They keep the indexes in agreement only for a pod that has no rival.
LEMMA ManagerAgrees ==
  ASSUME IndexOK, StoresOK, IndexesAgree, NEW u \in UIDs, NEW pod \in Pods,
         Manager!UpdatePod(u, pod) \/ Manager!DeletePod(u),
         \A v \in UIDs : Rivals(u, v) => podByUID[v] = NoPod
  PROVE  IndexesAgree'
<1> DEFINE Index(v) == IF v \in MirrorPods THEN mirrorPodByFullName[Fullname[v]]
                       ELSE podByFullName[Fullname[v]]
<1>1. /\ NoUID \notin UIDs /\ Fullname \in [UIDs -> Fullnames] /\ MirrorPods \subseteq UIDs
      /\ pod # NoPod
  BY PodConfigAssumption, NoPodAssumption
<1>2. SUFFICES ASSUME NEW v \in UIDs
               PROVE  podByUID'[v] # NoPod <=>
                        v = IF v \in MirrorPods THEN mirrorPodByFullName'[Fullname[v]]
                            ELSE podByFullName'[Fullname[v]]
  BY DEF IndexesAgree, Manager!IndexesAgree
<1>3. podByUID[v] # NoPod <=> v = Index(v)
  BY DEF IndexesAgree, Manager!IndexesAgree
<1>4. CASE Manager!UpdatePod(u, pod)
  <2>1. CASE v = u
    BY <1>1, <1>4, <2>1 DEF Manager!UpdatePod, IndexOK, StoresOK
  <2>2. CASE Rivals(u, v)
    BY <1>1, <1>3, <1>4, <2>2 DEF Manager!UpdatePod, IndexOK, StoresOK, Rivals
  <2>3. CASE v # u /\ ~Rivals(u, v)
    BY <1>1, <1>3, <1>4, <2>3 DEF Manager!UpdatePod, IndexOK, StoresOK, Rivals
  <2>4. QED
    BY <2>1, <2>2, <2>3
<1>5. CASE Manager!DeletePod(u)
  <2>1. CASE v = u
    BY <1>1, <1>5, <2>1 DEF Manager!DeletePod, IndexOK, StoresOK
  <2>2. CASE Rivals(u, v)
    BY <1>1, <1>3, <1>5, <2>2 DEF Manager!DeletePod, IndexOK, StoresOK, Rivals
  <2>3. CASE v # u /\ ~Rivals(u, v)
    BY <1>1, <1>3, <1>5, <2>3 DEF Manager!DeletePod, IndexOK, StoresOK, Rivals
  <2>4. QED
    BY <2>1, <2>2, <2>3
<1>6. QED
  BY <1>4, <1>5

\* The pod manager is one change further, the queue one shorter.
LEMMA HandlePodInv ==
  ASSUME ConfigInv, NEW p, HandlePod(p)
  PROVE  ConfigInv' /\ p.uid \in UIDs /\ handled' = [handled EXCEPT ![p.uid] = @ + 1]
<1>1. ChannelOK /\ IndexOK /\ StoresOK /\ CountsOK /\ TranslationIsCurrent
  BY DEF ConfigInv, TypeInv
<1>2. /\ ChannelOK' /\ Size' = Size /\ Size \in Nat /\ Size >= 1
      /\ p \in Events[1]
      /\ Events'[1] = Events[1] \ {p}
      /\ \A i \in 2..Size : Events'[i] = Events[i]
      /\ Removals' = Removals
      /\ current.op = "REMOVE" <=> 1 \in Removals
  BY <1>1, HandleQueue, SizeType
<1>3. /\ p \in Entry
      /\ p.ver = handled[p.uid] + 1 /\ p.ver <= merged[p.uid]
  BY <1>2, HeadIsNext
<1>4. p.uid \in UIDs /\ p.ver \in Nat /\ p.pod \in Pods /\ p.pod # NoPod
  BY <1>3, NoPodAssumption DEF Entry
<1>5. /\ IF 1 \in Removals THEN Manager!DeletePod(p.uid) ELSE Manager!UpdatePod(p.uid, p.pod)
      /\ handled' = [handled EXCEPT ![p.uid] = p.ver]
      /\ UNCHANGED <<truth, inbox, stored, merged>>
  BY <1>2 DEF HandlePod
<1>6. podByUID' = [podByUID EXCEPT ![p.uid] = IF 1 \in Removals THEN NoPod ELSE p.pod]
  BY <1>5 DEF Manager!DeletePod, Manager!UpdatePod
<1>7. /\ handled'[p.uid] = p.ver /\ handled' \in [UIDs -> Nat]
      /\ \A u \in UIDs : u # p.uid => handled'[u] = handled[u] /\ podByUID'[u] = podByUID[u]
      /\ podByUID'[p.uid] = IF 1 \in Removals THEN NoPod ELSE p.pod
  BY <1>1, <1>4, <1>5, <1>6 DEF CountsOK, StoresOK
<1>8. TypeInv'
  <2>1. IndexOK' /\ podByUID' \in [UIDs -> Pods \cup {NoPod}]
    BY <1>1, <1>4, <1>5, ManagerType
  <2>2. CountsOK'
    BY <1>1, <1>3, <1>5, <1>7 DEF CountsOK
  <2>3. SourcesOK' /\ StoresOK'
    BY <1>5, <2>1 DEF ConfigInv, TypeInv, SourcesOK, StoresOK, Lists
  <2>4. QED
    BY <1>2, <2>1, <2>2, <2>3 DEF TypeInv
<1>9. \A i \in 1..Size : Events'[i] \subseteq Events[i] /\ Events'[i] \subseteq Entry
  BY <1>1, <1>2, EventsType
<1>10. ASSUME NEW i \in 1..Size, NEW q \in Events[i], q # p \/ i # 1
       PROVE  q \in Events'[i]
  BY <1>2, <1>10
<1>11. Ordered'
  <2>1. ASSUME NEW i \in 1..Size, NEW q \in Events'[i]
        PROVE  handled'[q.uid] < q.ver /\ q.ver <= merged[q.uid]
    <3>1. q \in Events[i] /\ q \in Entry /\ q.uid \in UIDs
      BY <1>9 DEF Entry
    <3>2. handled[q.uid] < q.ver /\ q.ver <= merged[q.uid]
      BY <3>1 DEF ConfigInv, Ordered
    <3>3. CASE q.uid # p.uid
      BY <1>7, <3>1, <3>2, <3>3
    <3>4. CASE q.uid = p.uid
      <4>1. i # 1
        BY <1>2, <3>1, <3>4 DEF ConfigInv, Ordered
      <4>2. 1 \in 1..Size /\ 1 < i
        BY <1>2, <4>1
      <4>3. p.ver < q.ver
        BY <1>2, <3>1, <3>4, <4>2 DEF ConfigInv, Ordered
      <4>4. QED
        BY <1>7, <3>2, <3>4, <4>3
    <3>5. QED
      BY <3>3, <3>4
  <2>2. \A i, j \in 1..Size : \A q \in Events'[i], r \in Events'[j] :
          q.uid = r.uid /\ i < j => q.ver < r.ver
    BY <1>9 DEF ConfigInv, Ordered
  <2>3. \A i \in 1..Size : \A q, r \in Events'[i] : q.uid = r.uid => q = r
    BY <1>9 DEF ConfigInv, Ordered
  <2>4. QED
    BY <1>2, <1>5, <2>1, <2>2, <2>3 DEF Ordered
<1>12. Complete'
  <2>1. SUFFICES ASSUME NEW u \in UIDs, NEW n \in Nat, handled'[u] < n, n <= merged[u]
                 PROVE  \E i \in 1..Size : \E q \in Events'[i] : q.uid = u /\ q.ver = n
    BY <1>2, <1>5 DEF Complete
  <2>2. handled[u] < n
    BY <1>1, <1>3, <1>7, <2>1 DEF CountsOK
  <2>3. PICK i \in 1..Size : \E q \in Events[i] : q.uid = u /\ q.ver = n
    BY <2>1, <2>2 DEF ConfigInv, Complete
  <2>4. PICK q \in Events[i] : q.uid = u /\ q.ver = n
    BY <2>3
  <2>5. q # p
    BY <1>4, <1>7, <2>1, <2>4
  <2>6. QED
    BY <1>10, <2>4, <2>5
<1>13. LastIsStored'
  BY <1>2, <1>5, <1>9 DEF ConfigInv, LastIsStored
<1>14. CaughtUpAgrees'
  <2>1. SUFFICES ASSUME NEW u \in UIDs, handled'[u] = merged[u]
                 PROVE  Same(podByUID'[u], stored[u])
    BY <1>5 DEF CaughtUpAgrees
  <2>2. CASE u # p.uid
    BY <1>7, <2>1, <2>2 DEF ConfigInv, CaughtUpAgrees
  <2>3. CASE u = p.uid
    <3>1. p.ver = merged[p.uid] /\ 1 \in 1..Size
      BY <1>2, <1>7, <2>1, <2>3
    <3>2. IF 1 \in Removals THEN stored[p.uid] = NoPod
          ELSE stored[p.uid] # NoPod /\ Same(p.pod, stored[p.uid])
      BY <1>2, <3>1 DEF ConfigInv, LastIsStored
    <3>3. QED
      BY <1>7, <2>3, <3>2 DEF Same
  <2>4. QED
    BY <2>2, <2>3
<1>15. TranslationIsCurrent'
  BY <1>1, <1>4, <1>5, ManagerTranslates
<1>16. handled' = [handled EXCEPT ![p.uid] = @ + 1]
  BY <1>3, <1>4, <1>5
<1>17. QED
  BY <1>4, <1>8, <1>11, <1>12, <1>13, <1>14, <1>15, <1>16 DEF ConfigInv

\* A pod handled leaves its rivals out of the pod manager.
LEMMA HandlePodNames ==
  ASSUME ConfigInv, NameInv, NEW p, HandlePod(p)
  PROVE  NameInv'
<1>1. ChannelOK /\ IndexOK /\ StoresOK /\ CountsOK /\ TranslationIsCurrent
  BY DEF ConfigInv, TypeInv
<1>2. /\ ChannelOK' /\ Size' = Size /\ Size \in Nat /\ Size >= 1
      /\ p \in Events[1]
      /\ Events'[1] = Events[1] \ {p}
      /\ \A i \in 2..Size : Events'[i] = Events[i]
      /\ Removals' = Removals
      /\ current.op = "REMOVE" <=> 1 \in Removals
  BY <1>1, HandleQueue, SizeType
<1>3. /\ p \in Entry
      /\ p.ver = handled[p.uid] + 1 /\ p.ver <= merged[p.uid]
  BY <1>2, HeadIsNext
<1>4. p.uid \in UIDs /\ p.ver \in Nat /\ p.pod \in Pods /\ p.pod # NoPod
  BY <1>3, NoPodAssumption DEF Entry
<1>5. /\ IF 1 \in Removals THEN Manager!DeletePod(p.uid) ELSE Manager!UpdatePod(p.uid, p.pod)
      /\ handled' = [handled EXCEPT ![p.uid] = p.ver]
      /\ UNCHANGED <<truth, inbox, stored, merged>>
  BY <1>2 DEF HandlePod
<1>6. podByUID' = [podByUID EXCEPT ![p.uid] = IF 1 \in Removals THEN NoPod ELSE p.pod]
  BY <1>5 DEF Manager!DeletePod, Manager!UpdatePod
<1>7. /\ handled'[p.uid] = p.ver /\ handled' \in [UIDs -> Nat]
      /\ \A u \in UIDs : u # p.uid => handled'[u] = handled[u] /\ podByUID'[u] = podByUID[u]
      /\ podByUID'[p.uid] = IF 1 \in Removals THEN NoPod ELSE p.pod
  BY <1>1, <1>4, <1>5, <1>6 DEF CountsOK, StoresOK
<1>8. \A i \in 1..Size : Events'[i] \subseteq Events[i] /\ Events'[i] \subseteq Entry
  BY <1>1, <1>2, EventsType
<1>9. ASSUME NEW i \in 1..Size, NEW q \in Events[i], q # p \/ i # 1
       PROVE  q \in Events'[i]
  BY <1>2, <1>9
<1>10. ASSUME NEW v \in UIDs, NEW j \in Nat, NEW i \in 1..Size, RemovedBefore(v, j, i),
              j >= 1 \/ v # p.uid
       PROVE  RemovedBefore(v, j, i)'
  <2>1. PICK k \in 1..Size :
          j < k /\ k < i /\ k \in Removals /\ \E q \in Events[k] : q.uid = v
    BY <1>10 DEF RemovedBefore
  <2>2. \E q \in Events'[k] : q.uid = v
    BY <1>9, <1>10, <2>1
  <2>3. QED
    BY <1>2, <2>1, <2>2 DEF RemovedBefore
<1>11. RivalsGo'
  <2>1. SUFFICES ASSUME NEW i \in 1..Size, NEW q \in Events'[i], NEW v \in UIDs,
                        Rivals(q.uid, v)
                 PROVE  /\ podByUID'[v] # NoPod => RemovedBefore(v, 0, i)'
                        /\ \A j \in 1..Size : \A r \in Events'[j] :
                             r.uid = v => /\ j # i
                                          /\ j < i /\ j \notin Removals =>
                                               RemovedBefore(v, j, i)'
    BY <1>2 DEF RivalsGo, RemovedBefore
  <2>2. /\ podByUID[v] # NoPod => RemovedBefore(v, 0, i)
        /\ \A j \in 1..Size : \A r \in Events[j] :
             r.uid = v => /\ j # i
                          /\ j < i /\ j \notin Removals => RemovedBefore(v, j, i)
    BY <1>8, <2>1 DEF NameInv, RivalsGo
  <2>3. ASSUME podByUID'[v] # NoPod
        PROVE  RemovedBefore(v, 0, i)'
    <3>1. CASE v # p.uid
      BY <1>7, <1>10, <2>2, <2>3, <3>1
    <3>2. CASE v = p.uid
      <4>1. 1 \notin Removals
        BY <1>7, <2>3, <3>2
      <4>2. 1 \in 1..Size /\ 1 # i /\ 1 < i
        BY <1>2, <2>2, <3>2
      <4>3. RemovedBefore(v, 1, i)
        BY <1>2, <2>2, <3>2, <4>1, <4>2
      <4>4. RemovedBefore(v, 1, i)'
        BY <1>10, <4>3
      <4>5. QED
        BY <4>4 DEF RemovedBefore
    <3>3. QED
      BY <3>1, <3>2
  <2>4. ASSUME NEW j \in 1..Size, NEW r \in Events'[j], r.uid = v
        PROVE  j # i /\ (j < i /\ j \notin Removals => RemovedBefore(v, j, i)')
    <3>1. j # i /\ (j < i /\ j \notin Removals => RemovedBefore(v, j, i))
      BY <1>8, <2>2, <2>4
    <3>2. j \in Nat /\ j >= 1
      OBVIOUS
    <3>3. QED
      BY <1>10, <3>1, <3>2
  <2>5. QED
    BY <2>3, <2>4
<1>12. OneStored'
  BY <1>5 DEF NameInv, OneStored
<1>13. IndexesAgree'
  <2>1. \A v \in UIDs : Rivals(p.uid, v) => podByUID[v] = NoPod
    BY <1>2, HeadHasNoRival
  <2>2. QED
    BY <1>1, <1>4, <1>5, <2>1, ManagerAgrees DEF NameInv
<1>14. QED
  BY <1>11, <1>12, <1>13 DEF NameInv

-----------------------------------------------------------------------------
(* Merge: changes go to the end of the queue *)

\* A pod that is no longer stored, but is in the pod manager or will be put
\* there, has its removal under way.
LEMMA RemovalUnderWay ==
  ASSUME ConfigInv, NEW v \in UIDs, stored[v] = NoPod
  PROVE  /\ podByUID[v] # NoPod => RemovedBefore(v, 0, Size + 1)
         /\ \A j \in 1..Size : \A q \in Events[j] :
              q.uid = v /\ j \notin Removals => RemovedBefore(v, j, Size + 1)
<1>1. ChannelOK /\ CountsOK /\ Size \in Nat
  BY SizeType DEF ConfigInv, TypeInv
<1>2. handled[v] \in Nat /\ merged[v] \in Nat /\ handled[v] <= merged[v]
  BY <1>1 DEF CountsOK
<1>3. ASSUME handled[v] < merged[v]
      PROVE  \E k \in 1..Size : /\ k \in Removals
                                /\ \E q \in Events[k] : q.uid = v /\ q.ver = merged[v]
  <2>1. PICK k \in 1..Size : \E q \in Events[k] : q.uid = v /\ q.ver = merged[v]
    BY <1>2, <1>3 DEF ConfigInv, Complete
  <2>2. k \in Removals
    BY <2>1 DEF ConfigInv, LastIsStored
  <2>3. QED
    BY <2>1, <2>2
<1>4. ASSUME podByUID[v] # NoPod
      PROVE  RemovedBefore(v, 0, Size + 1)
  <2>1. handled[v] # merged[v]
    BY <1>4 DEF ConfigInv, CaughtUpAgrees, Same
  <2>2. QED
    BY <1>1, <1>2, <1>3, <2>1 DEF RemovedBefore
<1>5. ASSUME NEW j \in 1..Size, NEW q \in Events[j], q.uid = v, j \notin Removals
      PROVE  RemovedBefore(v, j, Size + 1)
  <2>1. q.ver \in Nat /\ handled[v] < q.ver /\ q.ver <= merged[v]
    BY <1>1, <1>5, EventsType DEF ConfigInv, Ordered, Entry
  <2>2. q.ver # merged[v]
    BY <1>5 DEF ConfigInv, LastIsStored
  <2>3. PICK k \in 1..Size :
          k \in Removals /\ \E x \in Events[k] : x.uid = v /\ x.ver = merged[v]
    BY <1>2, <1>3, <2>1
  <2>4. PICK x \in Events[k] : x.uid = v /\ x.ver = merged[v]
    BY <2>3
  <2>5. k < j => x.ver < q.ver
    BY <1>5, <2>4 DEF ConfigInv, Ordered
  <2>6. j < k
    BY <1>2, <1>5, <2>1, <2>3, <2>4, <2>5
  <2>7. QED
    BY <1>1, <2>3, <2>4, <2>6 DEF RemovedBefore
<1>6. QED
  BY <1>4, <1>5

\* A pod that Merge has changed finds its rivals removed, or their removals
\* ahead of it: those of earlier Merges, or this Merge's own first message.
LEMMA MergeNames ==
  ASSUME OneSource, ConfigInv, NameInv, NEW s \in Sources, Merge(s)
  PROVE  NameInv'
<1>1. /\ Size' >= Size /\ Size \in Nat /\ Size' \in Nat
      /\ \A i \in 1..Size : Events'[i] = Events[i] /\ (i \in Removals' <=> i \in Removals)
      /\ NewEvents(s)
  <2>1. TypeInv /\ ChannelOK
    BY DEF ConfigInv, TypeInv
  <2>2. /\ ChannelOK' /\ Size' >= Size /\ NewEvents(s)
        /\ \A i \in 1..Size : Events'[i] = Events[i] /\ (i \in Removals' <=> i \in Removals)
    BY <2>1, MergeQueue
  <2>3. Size \in Nat /\ Size' \in Nat
    BY <2>1, <2>2, SizeType DEF ChannelOK, Size
  <2>4. QED
    BY <2>2, <2>3
<1>2. /\ OneStored /\ OneStored'
      /\ Gone(s) \subseteq Changed(s) /\ Changed(s) \subseteq UIDs
      /\ \A u \in Gone(s) : stored[u] # NoPod /\ stored'[u] = NoPod
      /\ \A u \in Changed(s) \ Gone(s) : stored'[u] # NoPod
      /\ \A u \in UIDs \ Changed(s) : Same(stored[u], stored'[u])
  BY MergeStored, MergeOneStored, NoPodAssumption DEF ConfigInv, NameInv
<1>3. podByUID' = podByUID /\ UNCHANGED managerVars
  BY MergeDef DEF managerVars
<1>4. ASSUME NEW v \in UIDs, NEW j \in Nat, NEW i \in 1..(Size + 1), RemovedBefore(v, j, i),
             NEW k \in 1..Size', i <= k
      PROVE  RemovedBefore(v, j, k)'
  BY <1>1, <1>4 DEF RemovedBefore
<1>5. ASSUME NEW i \in (Size + 1)..Size', NEW p \in Events'[i], NEW v \in UIDs, Rivals(p.uid, v),
             stored[v] # NoPod
      PROVE  i \notin Removals' /\ \A j \in 0..Size : RemovedBefore(v, j, i)'
  <2>1. p.uid \in Changed(s) /\ (i \in Removals' <=> p.uid \in Gone(s))
    BY <1>1 DEF NewEvents
  <2>2. p.uid \in UIDs /\ p.uid \notin Gone(s)
    BY <1>2, <1>5, <2>1 DEF OneStored
  <2>3. stored'[p.uid] # NoPod
    BY <1>2, <2>1, <2>2
  <2>4. stored'[v] = NoPod
    BY <1>2, <1>5, <2>2, <2>3 DEF OneStored, Rivals
  <2>5. v \in Gone(s)
    BY <1>2, <1>5, <2>4 DEF Same
  <2>6. PICK k \in (Size + 1)..Size' : \E q \in Events'[k] : q.uid = v
    BY <1>1, <1>2, <2>5 DEF NewEvents
  <2>7. k \in Removals' /\ k = Size + 1
    BY <1>1, <2>5, <2>6 DEF NewEvents
  <2>8. i \notin Removals' /\ k < i
    BY <1>1, <2>1, <2>2, <2>7
  <2>9. QED
    BY <1>1, <2>6, <2>7, <2>8 DEF RemovedBefore
<1>6. RivalsGo'
  <2>1. SUFFICES ASSUME NEW i \in 1..Size', NEW p \in Events'[i], NEW v \in UIDs, Rivals(p.uid, v)
                 PROVE  /\ podByUID[v] # NoPod => RemovedBefore(v, 0, i)'
                        /\ \A j \in 1..Size' : \A q \in Events'[j] :
                             q.uid = v => /\ j # i
                                          /\ j < i /\ j \notin Removals' =>
                                               RemovedBefore(v, j, i)'
    BY <1>3 DEF RivalsGo, RemovedBefore
  <2>2. CASE i <= Size
    <3>1. i \in 1..Size /\ i \in 1..(Size + 1) /\ p \in Events[i]
      BY <1>1, <2>2
    <3>2. /\ podByUID[v] # NoPod => RemovedBefore(v, 0, i)
          /\ \A j \in 1..Size : \A q \in Events[j] :
               q.uid = v => /\ j # i
                            /\ j < i /\ j \notin Removals => RemovedBefore(v, j, i)
      BY <2>1, <3>1 DEF NameInv, RivalsGo
    <3>3. podByUID[v] # NoPod => RemovedBefore(v, 0, i)'
      BY <1>4, <3>1, <3>2
    <3>4. ASSUME NEW j \in 1..Size', NEW q \in Events'[j], q.uid = v
          PROVE  j # i /\ (j < i /\ j \notin Removals' => RemovedBefore(v, j, i)')
      <4>1. CASE j <= Size
        <5>1. j \in 1..Size /\ j \in Nat /\ q \in Events[j] /\ (j \in Removals' <=> j \in Removals)
          BY <1>1, <4>1
        <5>2. j # i /\ (j < i /\ j \notin Removals => RemovedBefore(v, j, i))
          BY <3>2, <3>4, <5>1
        <5>3. RemovedBefore(v, j, i) => RemovedBefore(v, j, i)'
          BY <1>4, <3>1, <5>1
        <5>4. QED
          BY <5>1, <5>2, <5>3
      <4>2. CASE j > Size
        BY <1>1, <2>2, <4>2
      <4>3. QED
        BY <1>1, <4>1, <4>2
    <3>5. QED
      BY <3>3, <3>4
  <2>3. CASE i > Size
    <3>1. /\ i \in (Size + 1)..Size' /\ Size + 1 \in 1..(Size + 1) /\ Size + 1 <= i
          /\ p.uid \in Changed(s) /\ p.uid \in UIDs
          /\ i \in Removals' <=> p.uid \in Gone(s)
      BY <1>1, <1>2, <2>3 DEF NewEvents
    <3>2. ASSUME podByUID[v] # NoPod
          PROVE  RemovedBefore(v, 0, i)'
      <4>1. CASE stored[v] = NoPod
        <5>1. RemovedBefore(v, 0, Size + 1)
          BY <3>2, <4>1, RemovalUnderWay
        <5>2. QED
          BY <1>4, <3>1, <5>1
      <4>2. CASE stored[v] # NoPod
        BY <1>1, <1>5, <2>1, <3>1, <4>2
      <4>3. QED
        BY <4>1, <4>2
    <3>3. ASSUME NEW j \in 1..Size, NEW q \in Events'[j], q.uid = v
          PROVE  j # i /\ (j < i /\ j \notin Removals' => RemovedBefore(v, j, i)')
      <4>1. j \in Nat /\ j \in 0..Size /\ q \in Events[j] /\ (j \in Removals' <=> j \in Removals)
        BY <1>1
      <4>2. j # i
        BY <1>1, <2>3
      <4>3. ASSUME j \notin Removals'
            PROVE  RemovedBefore(v, j, i)'
        <5>1. CASE stored[v] = NoPod
          <6>1. RemovedBefore(v, j, Size + 1)
            BY <3>3, <4>1, <4>3, <5>1, RemovalUnderWay
          <6>2. QED
            BY <1>4, <3>1, <4>1, <6>1
        <5>2. CASE stored[v] # NoPod
          BY <1>5, <2>1, <3>1, <4>1, <5>2
        <5>3. QED
          BY <5>1, <5>2
      <4>4. QED
        BY <4>2, <4>3
    <3>4. ASSUME NEW j \in (Size + 1)..Size', NEW q \in Events'[j], q.uid = v
          PROVE  j # i /\ (j < i /\ j \notin Removals' => RemovedBefore(v, j, i)')
      <4>1. v \in Changed(s) /\ (j \in Removals' <=> v \in Gone(s))
        BY <1>1, <3>4 DEF NewEvents
      <4>2. ~(p.uid \in Gone(s) /\ v \in Gone(s))
        BY <1>2, <2>1, <3>1 DEF OneStored
      <4>3. p.uid \in Gone(s) \/ v \in Gone(s)
        <5>1. stored'[p.uid] = NoPod \/ stored'[v] = NoPod
          BY <1>2, <2>1, <3>1 DEF OneStored, Rivals
        <5>2. QED
          BY <1>2, <3>1, <4>1, <5>1
      <4>4. j # i
        BY <3>1, <4>1, <4>2, <4>3
      <4>5. j \notin Removals' => i = Size + 1
        BY <1>1, <3>1, <4>1, <4>3 DEF NewEvents
      <4>6. QED
        BY <1>1, <4>4, <4>5
    <3>5. QED
      BY <1>1, <3>2, <3>3, <3>4
  <2>4. QED
    BY <1>1, <2>2, <2>3
<1>7. IndexesAgree'
  BY <1>3 DEF NameInv, IndexesAgree, Manager!IndexesAgree, managerVars
<1>8. QED
  BY <1>2, <1>6, <1>7 DEF NameInv

\* The new changes follow the old ones of their pods, and carry what is stored.
LEMMA MergeInv ==
  ASSUME ConfigInv, NEW s \in Sources, Merge(s)
  PROVE  /\ ConfigInv' /\ Changed(s) \subseteq UIDs
         /\ merged' = [u \in UIDs |-> IF u \in Changed(s) THEN merged[u] + 1 ELSE merged[u]]
<1>1. /\ ChannelOK' /\ Size' >= Size /\ Size \in Nat /\ Size' \in Nat
      /\ \A i \in 1..Size : Events'[i] = Events[i] /\ (i \in Removals' <=> i \in Removals)
      /\ NewEvents(s)
  <2>1. TypeInv /\ ChannelOK
    BY DEF ConfigInv, TypeInv
  <2>2. /\ ChannelOK' /\ Size' >= Size /\ NewEvents(s)
        /\ \A i \in 1..Size : Events'[i] = Events[i] /\ (i \in Removals' <=> i \in Removals)
    BY <2>1, MergeQueue
  <2>3. Size \in Nat /\ Size' \in Nat
    BY <2>1, <2>2, SizeType DEF ChannelOK, Size
  <2>4. QED
    BY <2>2, <2>3
<1>2. /\ stored' \in [UIDs -> Pods \cup {NoPod}]
      /\ Gone(s) \subseteq Changed(s) /\ Changed(s) \subseteq UIDs
      /\ \A u \in Gone(s) : stored'[u] = NoPod
      /\ \A u \in Changed(s) \ Gone(s) : stored'[u] \in Pods
      /\ \A u \in UIDs \ Changed(s) : Same(stored[u], stored'[u])
  BY MergeStored DEF ConfigInv
<1>3. /\ inbox' = [inbox EXCEPT ![s] = <<>>]
      /\ merged' = [u \in UIDs |-> IF u \in Changed(s) THEN merged[u] + 1 ELSE merged[u]]
      /\ UNCHANGED <<managerVars, truth, handled>>
  BY MergeDef
<1>4. /\ ChannelOK /\ CountsOK /\ StoresOK
      /\ merged \in [UIDs -> Nat] /\ handled \in [UIDs -> Nat]
      /\ \A u \in UIDs : handled[u] <= merged[u]
  BY DEF ConfigInv, TypeInv, CountsOK
<1>5. /\ \A u \in Changed(s) : merged'[u] = merged[u] + 1
      /\ \A u \in UIDs \ Changed(s) : merged'[u] = merged[u]
      /\ merged' \in [UIDs -> Nat]
  BY <1>2, <1>3, <1>4
<1>6. TypeInv'
  <2>1. SourcesOK'
    <3>1. \A t \in Sources : inbox'[t] = IF t = s THEN <<>> ELSE inbox[t]
      BY <1>3 DEF ConfigInv, TypeInv, SourcesOK
    <3>2. inbox' \in [Sources -> Seq(UNION {Lists(t) : t \in Sources})]
      BY <1>3 DEF ConfigInv, TypeInv, SourcesOK
    <3>3. \A t \in Sources :
            Len(inbox'[t]) <= 1 /\ (inbox'[t] # <<>> => inbox'[t][1] \in Lists(t))
      BY <3>1 DEF ConfigInv, TypeInv, SourcesOK
    <3>4. QED
      BY <1>3, <3>2, <3>3 DEF ConfigInv, TypeInv, SourcesOK, Lists
  <2>2. CountsOK'
    <3>1. \A u \in UIDs : handled[u] <= merged'[u]
      BY <1>4, <1>5
    <3>2. QED
      BY <1>3, <1>4, <1>5, <3>1 DEF CountsOK
  <2>3. IndexOK' /\ StoresOK'
    BY <1>2, <1>3 DEF ConfigInv, TypeInv, IndexOK, StoresOK, managerVars
  <2>4. QED
    BY <1>1, <2>1, <2>2, <2>3 DEF TypeInv
<1>7. ASSUME NEW i \in 1..Size', NEW p \in Events'[i]
      PROVE  \/ /\ i \in 1..Size /\ p \in Events[i] /\ (i \in Removals' <=> i \in Removals)
                /\ p \in Entry /\ handled[p.uid] < p.ver /\ p.ver <= merged[p.uid]
             \/ /\ i \in (Size + 1)..Size' /\ p \in Entry /\ p.uid \in Changed(s)
                /\ p.ver = merged[p.uid] + 1
                /\ i \in Removals' <=> p.uid \in Gone(s)
                /\ i \notin Removals' => p.pod = stored'[p.uid]
  <2>1. CASE i <= Size
    <3>1. i \in 1..Size /\ p \in Events[i] /\ (i \in Removals' <=> i \in Removals)
      BY <1>1, <2>1
    <3>2. p \in Entry
      BY <1>4, <3>1, EventsType
    <3>3. handled[p.uid] < p.ver /\ p.ver <= merged[p.uid]
      BY <3>1 DEF ConfigInv, Ordered
    <3>4. QED
      BY <3>1, <3>2, <3>3
  <2>2. CASE i > Size
    <3>1. i \in (Size + 1)..Size'
      BY <1>1, <2>2
    <3>2. QED
      BY <1>1, <3>1 DEF NewEvents
  <2>3. QED
    BY <1>1, <2>1, <2>2
<1>8. \A p \in Entry : p.uid \in UIDs /\ p.ver \in Nat /\ p.pod \in Pods
  BY DEF Entry
<1>9. Ordered'
  <2>1. ASSUME NEW i \in 1..Size', NEW p \in Events'[i]
        PROVE  handled[p.uid] < p.ver /\ p.ver <= merged'[p.uid]
    BY <1>4, <1>5, <1>7, <1>8
  <2>2. ASSUME NEW i \in 1..Size', NEW j \in 1..Size', NEW p \in Events'[i], NEW q \in Events'[j],
               p.uid = q.uid, i < j
        PROVE  p.ver < q.ver
    <3>1. CASE j <= Size
      <4>1. i \in 1..Size /\ j \in 1..Size /\ p \in Events[i] /\ q \in Events[j]
        BY <1>1, <2>2, <3>1
      <4>2. QED
        BY <2>2, <4>1 DEF ConfigInv, Ordered
    <3>2. CASE j > Size /\ i <= Size
      <4>1. p \in Entry /\ p.ver <= merged[p.uid] /\ q.ver = merged[q.uid] + 1
        BY <1>1, <1>7, <3>2
      <4>2. QED
        BY <1>4, <1>8, <2>2, <4>1
    <3>3. CASE i > Size
      <4>1. i \in (Size + 1)..Size' /\ j \in (Size + 1)..Size'
        BY <1>1, <2>2, <3>3
      <4>2. i = j
        BY <1>1, <2>2, <4>1 DEF NewEvents
      <4>3. QED
        BY <2>2, <4>2
    <3>4. QED
      BY <1>1, <3>1, <3>2, <3>3
  <2>3. ASSUME NEW i \in 1..Size', NEW p \in Events'[i], NEW q \in Events'[i], p.uid = q.uid
        PROVE  p = q
    <3>1. CASE i <= Size
      <4>1. i \in 1..Size /\ p \in Events[i] /\ q \in Events[i]
        BY <1>1, <3>1
      <4>2. QED
        BY <2>3, <4>1 DEF ConfigInv, Ordered
    <3>2. CASE i > Size
      <4>1. i \in (Size + 1)..Size'
        BY <1>1, <3>2
      <4>2. QED
        BY <1>1, <2>3, <4>1 DEF NewEvents
    <3>3. QED
      BY <1>1, <3>1, <3>2
  <2>4. QED
    BY <1>3, <2>1, <2>2, <2>3 DEF Ordered
<1>10. Complete'
  <2>1. SUFFICES ASSUME NEW u \in UIDs, NEW n \in Nat, handled[u] < n, n <= merged'[u]
                 PROVE  \E i \in 1..Size' : \E p \in Events'[i] : p.uid = u /\ p.ver = n
    BY <1>3 DEF Complete
  <2>2. CASE n <= merged[u]
    <3>1. PICK i \in 1..Size : \E p \in Events[i] : p.uid = u /\ p.ver = n
      BY <2>1, <2>2 DEF ConfigInv, Complete
    <3>2. i \in 1..Size' /\ Events'[i] = Events[i]
      BY <1>1, <3>1
    <3>3. QED
      BY <3>1, <3>2
  <2>3. CASE n > merged[u]
    <3>1. u \in Changed(s) /\ n = merged[u] + 1
      BY <1>4, <1>5, <2>1, <2>3
    <3>2. PICK i \in (Size + 1)..Size' : \E p \in Events'[i] : p.uid = u
      BY <1>1, <3>1 DEF NewEvents
    <3>3. i \in 1..Size'
      BY <1>1, <3>2
    <3>4. QED
      BY <1>1, <3>1, <3>2, <3>3 DEF NewEvents
  <2>4. QED
    BY <1>4, <2>2, <2>3
<1>11. LastIsStored'
  <2>1. SUFFICES ASSUME NEW i \in 1..Size', NEW p \in Events'[i], p.ver = merged'[p.uid]
                 PROVE  IF i \in Removals' THEN stored'[p.uid] = NoPod
                        ELSE stored'[p.uid] # NoPod /\ Same(p.pod, stored'[p.uid])
    BY DEF LastIsStored, Same, PodsDifferSemantically
  <2>2. CASE i <= Size
    <3>1. /\ i \in 1..Size /\ p \in Events[i] /\ (i \in Removals' <=> i \in Removals)
          /\ p \in Entry /\ p.ver <= merged[p.uid]
      BY <1>1, <1>7, <2>2
    <3>2. p.uid \in UIDs \ Changed(s) /\ p.ver = merged[p.uid]
      BY <1>4, <1>5, <1>8, <2>1, <3>1
    <3>3. Same(stored[p.uid], stored'[p.uid])
      BY <1>2, <3>2
    <3>4. IF i \in Removals THEN stored[p.uid] = NoPod
          ELSE stored[p.uid] # NoPod /\ Same(p.pod, stored[p.uid])
      BY <3>1, <3>2 DEF ConfigInv, LastIsStored
    <3>5. stored[p.uid] = NoPod <=> stored'[p.uid] = NoPod
      BY <3>3 DEF Same
    <3>6. /\ p.pod \in Pods \cup {NoPod} /\ stored[p.uid] \in Pods \cup {NoPod}
          /\ stored'[p.uid] \in Pods \cup {NoPod}
      BY <1>2, <1>4, <1>8, <3>1 DEF StoresOK
    <3>7. QED
      BY <3>1, <3>3, <3>4, <3>5, <3>6, SameSemantics
  <2>3. CASE i > Size
    <3>1. /\ p.uid \in Changed(s)
          /\ i \in Removals' <=> p.uid \in Gone(s)
          /\ i \notin Removals' => p.pod = stored'[p.uid]
      BY <1>1, <1>7, <2>3
    <3>2. QED
      BY <1>2, <3>1, SameSemantics, NoPodAssumption
  <2>4. QED
    BY <1>1, <2>2, <2>3
<1>12. CaughtUpAgrees'
  <2>1. SUFFICES ASSUME NEW u \in UIDs, handled[u] = merged'[u]
                 PROVE  Same(podByUID[u], stored'[u])
    BY <1>3 DEF CaughtUpAgrees, Same, PodsDifferSemantically, managerVars
  <2>2. u \notin Changed(s) /\ handled[u] = merged[u]
    BY <1>4, <1>5, <2>1
  <2>3. Same(podByUID[u], stored[u]) /\ Same(stored[u], stored'[u])
    BY <1>2, <2>2 DEF ConfigInv, CaughtUpAgrees
  <2>4. /\ podByUID[u] \in Pods \cup {NoPod} /\ stored[u] \in Pods \cup {NoPod}
        /\ stored'[u] \in Pods \cup {NoPod}
    BY <1>2, <1>4 DEF StoresOK
  <2>5. QED
    BY <2>3, <2>4, SameSemantics
<1>13. TranslationIsCurrent'
  BY <1>3 DEF ConfigInv, TranslationIsCurrent, Manager!TranslationIsCurrent, managerVars
<1>14. QED
  BY <1>2, <1>3, <1>6, <1>9, <1>10, <1>11, <1>12, <1>13 DEF ConfigInv

-----------------------------------------------------------------------------
(* The configuration at rest *)

\* The last list of a source is on its way to Merge, or it is what is stored.
SentInv ==
  /\ sent \in [Sources -> Seq(UNION {Lists(s) : s \in Sources})]
  /\ \A s \in Sources :
       IF inbox[s] # <<>> THEN sent[s] = inbox[s]
       ELSE sent[s] # <<>> =>
              \A u \in UIDs : Source[u] = s => stored[u] = RefOf(sent[s][1])[u]

\* Nothing is left to send, to merge or to handle: every step now possible is
\* a change at a source.
AtRest ==
  /\ \A s \in Sources : inbox[s] = <<>> /\ sent[s] = <<List(s)>>
  /\ pending = <<>> /\ updates = <<>> /\ current.pods = {}

\* A list goes from its source to Merge, which stores it for that source alone.
LEMMA SentStep ==
  ASSUME ConfigInv, SentInv, [Next]_vars
  PROVE  SentInv'
<1>1. ASSUME UNCHANGED <<sent, inbox, stored>>
      PROVE  SentInv'
  BY <1>1 DEF SentInv, Lists
<1>2. ASSUME NEW u \in UIDs, Created(u) \/ Modified(u) \/ Removed(u)
      PROVE  SentInv'
  BY <1>1, <1>2 DEF Created, Modified, Removed, Change
<1>3. ASSUME NEW s \in Sources, SendSet(s)
      PROVE  SentInv'
  <2>1. /\ inbox' = [inbox EXCEPT ![s] = <<List(s)>>]
        /\ sent' = [sent EXCEPT ![s] = <<List(s)>>]
        /\ UNCHANGED stored
    BY <1>3 DEF SendSet
  <2>2. SourcesOK /\ inbox \in [Sources -> Seq(UNION {Lists(t) : t \in Sources})]
    BY DEF ConfigInv, TypeInv, SourcesOK
  <2>3. sent' \in [Sources -> Seq(UNION {Lists(t) : t \in Sources})]
    <3>1. List(s) \in Lists(s)
      BY <2>2, ListType
    <3>2. QED
      BY <2>1, <3>1 DEF SentInv
  <2>4. ASSUME NEW t \in Sources
        PROVE  IF inbox'[t] # <<>> THEN sent'[t] = inbox'[t]
               ELSE sent'[t] # <<>> =>
                      \A u \in UIDs : Source[u] = t => stored[u] = RefOf(sent'[t][1])[u]
    <3>1. CASE t = s
      <4>1. inbox'[t] = <<List(s)>> /\ sent'[t] = <<List(s)>>
        BY <2>1, <2>2, <3>1 DEF SentInv
      <4>2. QED
        BY <4>1
    <3>2. CASE t # s
      <4>1. inbox'[t] = inbox[t] /\ sent'[t] = sent[t]
        BY <2>1, <2>2, <3>2 DEF SentInv
      <4>2. QED
        BY <4>1 DEF SentInv
    <3>3. QED
      BY <3>1, <3>2
  <2>5. QED
    BY <2>1, <2>3, <2>4 DEF SentInv, Lists
<1>4. ASSUME NEW s \in Sources, Merge(s)
      PROVE  SentInv'
  <2>1. /\ inbox[s] # <<>> /\ inbox' = [inbox EXCEPT ![s] = <<>>]
        /\ stored' = [u \in UIDs |-> IF Source[u] = s THEN Ref(s)[u] ELSE stored[u]]
        /\ UNCHANGED sent
    BY <1>4, MergeDef
  <2>2. inbox \in [Sources -> Seq(UNION {Lists(t) : t \in Sources})]
    BY DEF ConfigInv, TypeInv, SourcesOK
  <2>3. ASSUME NEW t \in Sources
        PROVE  IF inbox'[t] # <<>> THEN sent[t] = inbox'[t]
               ELSE sent[t] # <<>> =>
                      \A u \in UIDs : Source[u] = t => stored'[u] = RefOf(sent[t][1])[u]
    <3>1. CASE t = s
      <4>1. inbox'[t] = <<>> /\ sent[t] = inbox[t]
        BY <2>1, <2>2, <3>1 DEF SentInv
      <4>2. QED
        BY <2>1, <3>1, <4>1 DEF Ref
    <3>2. CASE t # s
      <4>1. inbox'[t] = inbox[t] /\ \A u \in UIDs : Source[u] = t => stored'[u] = stored[u]
        BY <2>1, <2>2, <3>2
      <4>2. QED
        BY <4>1 DEF SentInv
    <3>3. QED
      BY <3>1, <3>2
  <2>4. QED
    BY <2>1, <2>3 DEF SentInv, Lists
<1>5. CASE Send \/ TakeUpdate \/ UNCHANGED vars
  BY <1>1, <1>5 DEF Send, TakeUpdate, vars
<1>6. ASSUME NEW p, HandlePod(p)
      PROVE  SentInv'
  BY <1>1, <1>6 DEF HandlePod
<1>7. QED
  BY <1>2, <1>3, <1>4, <1>5, <1>6 DEF Next, Handle

\* At rest every change has been handled.
LEMMA RestHandled ==
  ASSUME ConfigInv, AtRest, NEW u \in UIDs
  PROVE  Same(podByUID[u], stored[u])
<1>1. ChannelOK /\ CountsOK
  BY DEF ConfigInv, TypeInv
<1>2. Size = 1 /\ Flight[1] = current
  BY DEF AtRest, Size, Flight
<1>3. \A i \in 1..Size : Events[i] = {}
  BY <1>2 DEF Events, AtRest
<1>4. handled[u] \in Nat /\ merged[u] \in Nat /\ handled[u] <= merged[u]
  BY <1>1 DEF CountsOK
<1>5. ~(handled[u] < merged[u])
  BY <1>3, <1>4 DEF ConfigInv, Complete
<1>6. QED
  BY <1>4, <1>5 DEF ConfigInv, CaughtUpAgrees

\* At rest the pod manager has the sources' pods, but for their statuses, one of
\* each name.
LEMMA RestConverged ==
  ASSUME ConfigInv, SentInv, AtRest
  PROVE  Converged
<1>1. SourcesOK /\ Source \in [UIDs -> Sources] /\ truth \in [UIDs -> Pods \cup {NoPod}]
  BY PodConfigAssumption DEF ConfigInv, TypeInv, SourcesOK
<1>2. ASSUME NEW u \in UIDs
      PROVE  LET kept == FilterInvalidPods(List(Source[u]))
             IN  /\ u \in kept => u \in PodsOf(Source[u]) /\ stored[u] = truth[u]
                 /\ u \notin kept => stored[u] = NoPod
  <2> DEFINE s == Source[u]
             list == List(s)
  <2>1. s \in Sources /\ list \in Lists(s)
    BY <1>1, ListType
  <2>2. inbox[s] = <<>> /\ sent[s] = <<list>>
    BY <2>1 DEF AtRest
  <2>3. /\ \A i \in DOMAIN list : list[i].uid \in PodsOf(s) /\ list[i].pod = truth[list[i].uid]
    BY <1>1, <2>1, ListType
  <2> HIDE DEF list
  <2>4. stored[u] = RefOf(list)[u]
    <3>1. sent[s] # <<>> /\ sent[s][1] = list
      BY <2>2
    <3>2. QED
      BY <2>1, <2>2, <3>1 DEF SentInv
  <2>5. ASSUME u \in FilterInvalidPods(list)
        PROVE  u \in PodsOf(s) /\ stored[u] = truth[u]
    <3>1. PICK i \in DOMAIN list : list[i].uid = u /\ RefOf(list)[u] = list[i].pod
      BY <2>1, <2>5, FilteredList
    <3>2. QED
      BY <2>3, <2>4, <3>1
  <2>6. u \notin FilterInvalidPods(list) => stored[u] = NoPod
    BY <2>1, <2>4, FilteredList
  <2>7. QED
    BY <2>5, <2>6 DEF list
<1>3. ASSUME NEW u \in UIDs
      PROVE  podByUID[u] # NoPod <=> u \in FilterInvalidPods(List(Source[u]))
  <2>1. Same(podByUID[u], stored[u])
    BY RestHandled
  <2>2. podByUID[u] # NoPod <=> stored[u] # NoPod
    BY <2>1 DEF Same
  <2>3. u \in PodsOf(Source[u]) => truth[u] # NoPod
    BY DEF PodsOf
  <2>4. QED
    BY <1>2, <2>2, <2>3
<1>4. \A u \in UIDs : podByUID[u] # NoPod => Same(podByUID[u], truth[u])
  BY <1>2, <1>3, RestHandled
<1>5. ASSUME NEW s \in Sources
      PROVE  {Fullname[u] : u \in PodsOf(s)} =
             {Fullname[u] : u \in {v \in UIDs : Source[v] = s /\ podByUID[v] # NoPod}}
  <2> DEFINE list == List(s)
             kept == FilterInvalidPods(list)
  <2>1. /\ list \in Lists(s)
        /\ \A u \in PodsOf(s) : \E i \in DOMAIN list : list[i].uid = u
    BY <1>1, ListType
  <2>2. /\ kept \subseteq {u \in UIDs : Source[u] = s}
        /\ \A i \in DOMAIN list : \E u \in kept : Fullname[u] = Fullname[list[i].uid]
    BY <2>1, FilteredList
  <2>3. {v \in UIDs : Source[v] = s /\ podByUID[v] # NoPod} = kept
    BY <1>3, <2>2
  <2>4. kept \subseteq PodsOf(s)
    BY <1>2, <2>2
  <2> HIDE DEF list, kept
  <2>5. \A u \in PodsOf(s) : \E v \in kept : Fullname[v] = Fullname[u]
    BY <2>1, <2>2
  <2>6. QED
    BY <2>3, <2>4, <2>5
<1>6. QED
  BY <1>4, <1>5 DEF Converged

-----------------------------------------------------------------------------
(* The theorems *)

\* Nothing is stored and nothing is under way.
LEMMA ConfigInit == Init => ConfigInv /\ NameInv
<1> SUFFICES ASSUME Init PROVE ConfigInv /\ NameInv
  OBVIOUS
<1>1. /\ updates = <<>> /\ pending = <<>> /\ current = NoUpdate
      /\ podByUID = [u \in UIDs |-> NoPod] /\ stored = [u \in UIDs |-> NoPod]
      /\ merged = [u \in UIDs |-> 0] /\ handled = [u \in UIDs |-> 0]
  BY DEF Init, Manager!ManagerInit
<1>2. Size = 1 /\ Flight[1] = NoUpdate
  BY <1>1 DEF Size, Flight
<1>3. \A i \in 1..Size : Events[i] = {}
  BY <1>2 DEF Events, NoUpdate
<1>4. TypeInv
  <2>1. IndexOK
    BY DEF Init, Manager!ManagerInit, IndexOK
  <2>2. SourcesOK
    <3>1. {u \in UIDs : truth[u] # NoPod} = {}
      BY DEF Init
    <3>2. IsFiniteSet({u \in UIDs : truth[u] # NoPod})
      BY <3>1, FS_EmptySet
    <3>3. QED
      BY <3>2 DEF Init, SourcesOK
  <2>3. ChannelOK
    <3>1. NoUpdate \in Message /\ NoUpdate.op # "RECONCILE"
      BY DEF NoUpdate, Message
    <3>2. QED
      BY <1>1, <3>1, PodConfigAssumption DEF ChannelOK
  <2>4. CountsOK /\ StoresOK
    BY <1>1 DEF CountsOK, StoresOK
  <2>5. QED
    BY <2>1, <2>2, <2>3, <2>4 DEF TypeInv
<1>5. Ordered /\ Complete /\ LastIsStored /\ RivalsGo
  BY <1>1, <1>3 DEF Ordered, Complete, LastIsStored, RivalsGo
<1>6. CaughtUpAgrees /\ OneStored
  BY <1>1 DEF CaughtUpAgrees, OneStored, Same
<1>7. IndexesAgree /\ TranslationIsCurrent
  BY PodConfigAssumption DEF Init, Manager!ManagerInit, IndexesAgree, TranslationIsCurrent,
     Manager!IndexesAgree, Manager!TranslationIsCurrent
<1>8. QED
  BY <1>4, <1>5, <1>6, <1>7 DEF ConfigInv, NameInv

\* Every step keeps the invariant.
LEMMA ConfigStep == ConfigInv /\ [Next]_vars => ConfigInv'
<1> SUFFICES ASSUME ConfigInv, [Next]_vars PROVE ConfigInv'
  OBVIOUS
<1>1. ASSUME NEW u \in UIDs, Created(u) \/ Modified(u) \/ Removed(u)
      PROVE  ConfigInv'
  BY <1>1, SourceStepInv
<1>2. ASSUME NEW s \in Sources, SendSet(s) PROVE ConfigInv'
  BY <1>2, SendSetInv
<1>3. ASSUME NEW s \in Sources, Merge(s) PROVE ConfigInv'
  BY <1>3, MergeInv
<1>4. CASE Send
  BY <1>4, SendInv
<1>5. CASE TakeUpdate
  BY <1>5, TakeUpdateInv
<1>6. ASSUME NEW p, HandlePod(p) PROVE ConfigInv'
  BY <1>6, HandlePodInv
<1>7. CASE UNCHANGED vars
  BY <1>7, StutterInv
<1>8. QED
  BY <1>1, <1>2, <1>3, <1>4, <1>5, <1>6, <1>7 DEF Next, Handle

\* With one source per key, every step keeps names apart.
LEMMA NameStep ==
  ASSUME OneSource
  PROVE  ConfigInv /\ NameInv /\ [Next]_vars => NameInv'
<1> SUFFICES ASSUME ConfigInv, NameInv, [Next]_vars PROVE NameInv'
  OBVIOUS
<1>1. ASSUME NEW u \in UIDs, Created(u) \/ Modified(u) \/ Removed(u)
      PROVE  NameInv'
  BY <1>1, SourceStepInv
<1>2. ASSUME NEW s \in Sources, SendSet(s) PROVE NameInv'
  BY <1>2, SendSetInv
<1>3. ASSUME NEW s \in Sources, Merge(s) PROVE NameInv'
  BY <1>3, MergeNames
<1>4. CASE Send
  BY <1>4, SendInv
<1>5. CASE TakeUpdate
  BY <1>5, TakeUpdateNames
<1>6. ASSUME NEW p, HandlePod(p) PROVE NameInv'
  BY <1>6, HandlePodNames
<1>7. CASE UNCHANGED vars
  BY <1>7, StutterInv
<1>8. QED
  BY <1>1, <1>2, <1>3, <1>4, <1>5, <1>6, <1>7 DEF Next, Handle

\* Whatever the sources send and however far the main loop lags, the changes
\* between Merge and the pod manager form one queue: of each pod exactly the
\* changes not yet handled, in order, the last one the stored pod.
THEOREM ConfigInvariance == Spec => []ConfigInv
<1>1. Init => ConfigInv
  BY ConfigInit
<1>2. ConfigInv /\ [Next]_vars => ConfigInv'
  BY ConfigStep
<1>3. QED
  BY <1>1, <1>2, PTL DEF Spec

\* The types of the pod configuration; neither the channel nor Merge's hands
\* overflow.
THEOREM ConfigTypes == Spec => []ConfigTypeOK
<1>1. ConfigInv => ConfigTypeOK
  BY DEF ConfigInv, TypeInv, IndexOK, SourcesOK, ChannelOK, CountsOK, StoresOK, ConfigTypeOK
<1>2. QED
  BY <1>1, ConfigInvariance, PTL

\* No pod reaches the pod manager before the pods that had its name have been
\* removed from it, in one Merge or across several, if one source sends them.
THEOREM RivalsSafe ==
  ASSUME OneSource
  PROVE  Spec => []NameInv
<1>1. Init => NameInv
  BY ConfigInit
<1>2. ConfigInv /\ NameInv /\ [Next]_vars => NameInv'
  BY NameStep
<1>3. QED
  BY <1>1, <1>2, ConfigInvariance, PTL DEF Spec

\* Then a pod is in the pod manager exactly when its name leads to it, although
\* DeletePod removes a name whatever pod it leads to.
THEOREM IndexesSafe ==
  ASSUME OneSource
  PROVE  Spec => []IndexesAgree
<1>1. NameInv => IndexesAgree
  BY DEF NameInv
<1>2. QED
  BY <1>1, RivalsSafe, PTL

\* A mirror pod is translated to the pod of its name, whichever came first.
THEOREM TranslationSafe == Spec => []TranslationIsCurrent
<1>1. ConfigInv => TranslationIsCurrent
  BY DEF ConfigInv
<1>2. QED
  BY <1>1, ConfigInvariance, PTL

\* A pod whose changes have all been handled is in the pod manager as Merge
\* has stored it, but for its status.
THEOREM CaughtUpSafe == Spec => []CaughtUpAgrees
<1>1. ConfigInv => CaughtUpAgrees
  BY DEF ConfigInv
<1>2. QED
  BY <1>1, ConfigInvariance, PTL

\* The refinement's safety part: of every pod the main loop handles each change
\* that Merge has found, one at a time, in order, none twice and none skipped.
THEOREM FollowsSafely == Spec => Abstract!FollowSafety
<1>1. Init => Abstract!FollowInit
  BY DEF Init, Abstract!FollowInit
<1>2. ConfigInv /\ [Next]_vars => [Abstract!FollowNext]_(Abstract!followVars)
  <2> SUFFICES ASSUME ConfigInv, [Next]_vars
               PROVE  Abstract!FollowNext \/ UNCHANGED <<merged, handled>>
    BY DEF Abstract!followVars
  <2>1. ASSUME NEW u \in UIDs, Created(u) \/ Modified(u) \/ Removed(u)
        PROVE  UNCHANGED <<merged, handled>>
    BY <2>1 DEF Created, Modified, Removed, Change
  <2>2. ASSUME NEW s \in Sources, SendSet(s) PROVE UNCHANGED <<merged, handled>>
    BY <2>2 DEF SendSet
  <2>3. ASSUME NEW s \in Sources, Merge(s) PROVE Abstract!FollowNext
    <3>1. /\ Changed(s) \in SUBSET UIDs
          /\ merged' = [u \in UIDs |-> IF u \in Changed(s) THEN merged[u] + 1 ELSE merged[u]]
      BY <2>3, MergeInv
    <3>2. UNCHANGED handled
      BY <2>3, MergeDef
    <3>3. QED
      BY <3>1, <3>2 DEF Abstract!FollowNext, Abstract!Lead
  <2>4. CASE Send \/ TakeUpdate \/ UNCHANGED vars
    BY <2>4 DEF Send, TakeUpdate, vars
  <2>5. ASSUME NEW p, HandlePod(p) PROVE Abstract!FollowNext
    <3>1. p.uid \in UIDs /\ handled' = [handled EXCEPT ![p.uid] = @ + 1]
      BY <2>5, HandlePodInv
    <3>2. UNCHANGED merged
      BY <2>5 DEF HandlePod
    <3>3. p \in Events[1]
      BY <2>5, HandleQueue DEF ConfigInv, TypeInv
    <3>4. p.ver = handled[p.uid] + 1 /\ p.ver <= merged[p.uid]
      BY <3>3, HeadIsNext
    <3>5. handled[p.uid] < merged[p.uid]
      BY <3>1, <3>4 DEF ConfigInv, TypeInv, CountsOK
    <3>6. QED
      BY <3>1, <3>2, <3>5 DEF Abstract!FollowNext, Abstract!Take
  <2>6. QED
    BY <2>1, <2>2, <2>3, <2>4, <2>5 DEF Next, Handle
<1>3. QED
  BY <1>1, <1>2, ConfigInvariance, PTL DEF Spec, Abstract!FollowSafety

\* Whenever nothing is left to send, to merge or to handle, the pod manager has
\* the sources' pods, one of each name: the safety that EventuallyConverged
\* rests on.
THEOREM RestSafe == Spec => [](AtRest => Converged)
<1>1. Init => SentInv
  BY DEF Init, SentInv
<1>2. ConfigInv /\ SentInv /\ [Next]_vars => SentInv'
  BY SentStep
<1>3. ConfigInv /\ SentInv => (AtRest => Converged)
  BY RestConverged
<1>4. QED
  BY <1>1, <1>2, <1>3, ConfigInvariance, PTL DEF Spec

=============================================================================
