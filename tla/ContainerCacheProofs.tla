------------------------ MODULE ContainerCacheProofs ------------------------
(***************************************************************************)
(* The promises of the container status cache, for any number of pods and  *)
(* of goroutines that wait, and for a clock of any length: calls of Set    *)
(* may carry the time in any order.                                        *)
(***************************************************************************)
EXTENDS ContainerCache, TLAPS

\* The sentinels are told from data and calls by their time.
LEMMA Sentinels ==
  ASSUME MaxTime \in Nat
  PROVE  /\ Times \subseteq Nat /\ 0 \in Times
         /\ NoData \notin Data /\ Idle \notin Calls
BY DEF Times, Data, NoData, Idle, Calls, NoTime

\* What a reader of the cache gets is data, also when there is none.
LEMMA GetIsData ==
  ASSUME MaxTime \in Nat, CacheTypeOK, NEW u \in UIDs
  PROVE  Get(u) \in Data /\ Get(u) # NoData
BY Sentinels DEF Get, CacheTypeOK, Data

\* What notify does, given the new contents of the cache.
LEMMA NotifyEffect ==
  ASSUME MaxTime \in Nat, CacheIInv, NEW us \in SUBSET UIDs, NEW t \in Times,
         pods' \in [UIDs -> Data \cup {NoData}], Notify(us, t)
  PROVE  /\ call' = call
         /\ ch' \in [Callers -> Data \cup {NoData}]
         /\ subscribers' \in [UIDs -> SUBSET Callers]
         /\ \A u \in UIDs : subscribers'[u] \subseteq subscribers[u]
         /\ \A c \in Callers :
              /\ Waiting(c) /\ call[c].uid \in us /\ call[c].time <= t =>
                   ch'[c] # NoData /\ ch'[c] = Get(call[c].uid)'
              /\ ~(Waiting(c) /\ call[c].uid \in us /\ call[c].time <= t) =>
                   /\ ch'[c] = ch[c]
                   /\ \A u \in UIDs : c \in subscribers[u] => c \in subscribers'[u]
         /\ \A u \in us : \A c \in subscribers'[u] : call[c].time > t
<1> USE Sentinels
<1>1. /\ CacheTypeOK /\ NoMissedWakeup /\ NotifyNeverBlocks
  BY DEF CacheIInv
<1>2. ASSUME NEW u \in UIDs, NEW c \in subscribers[u]
      PROVE  /\ c \in Callers /\ call[c] \in Calls /\ call[c].uid = u
             /\ call[c].time \in Nat /\ Waiting(c)
  BY <1>1, <1>2 DEF CacheTypeOK, NotifyNeverBlocks, Waiting, Calls
<1>3. ASSUME NEW c \in Callers, Waiting(c)
      PROVE  /\ call[c] \in Calls /\ call[c].uid \in UIDs /\ call[c].time \in Nat
             /\ c \in subscribers[call[c].uid]
  BY <1>1, <1>3 DEF CacheTypeOK, NoMissedWakeup, Waiting, Calls
<1>4. ASSUME NEW u \in UIDs
      PROVE  Get(u)' \in Data /\ Get(u)' # NoData
  BY DEF Get, Data
<1>5. ASSUME NEW c \in Callers
      PROVE  (\E u \in us : c \in Woken(u, t))
               <=> Waiting(c) /\ call[c].uid \in us /\ call[c].time <= t
  BY <1>2, <1>3 DEF Woken
<1>6. call' = call /\ ch' \in [Callers -> Data \cup {NoData}]
  <2>1. ASSUME NEW c \in Callers, \E u \in us : c \in Woken(u, t)
        PROVE  call[c].uid \in UIDs
    BY <2>1, <1>3, <1>5
  <2>2. call' = call
    BY DEF Notify
  <2>3. ASSUME NEW c \in Callers, \E u \in us : c \in Woken(u, t)
        PROVE  ch'[c] = Get(call[c].uid)' /\ ch'[c] \in Data /\ ch'[c] # NoData
    BY <2>1, <2>2, <2>3, <1>4 DEF Notify
  <2>4. ASSUME NEW c \in Callers, ~\E u \in us : c \in Woken(u, t)
        PROVE  ch'[c] = ch[c]
    BY <2>4 DEF Notify
  <2>5. ch' = [c \in Callers |-> ch'[c]]
    BY DEF Notify
  <2> QED
    BY <2>2, <2>3, <2>4, <2>5, <1>1 DEF CacheTypeOK
<1>7. /\ subscribers' \in [UIDs -> SUBSET Callers]
      /\ \A u \in UIDs : subscribers'[u] \subseteq subscribers[u]
  BY <1>1 DEF Notify, CacheTypeOK
<1>8. ASSUME NEW c \in Callers, Waiting(c), call[c].uid \in us, call[c].time <= t
      PROVE  ch'[c] # NoData /\ ch'[c] = Get(call[c].uid)'
  BY <1>3, <1>4, <1>5, <1>6, <1>8 DEF Notify
<1>9. ASSUME NEW c \in Callers, ~(Waiting(c) /\ call[c].uid \in us /\ call[c].time <= t)
      PROVE  /\ ch'[c] = ch[c]
             /\ \A u \in UIDs : c \in subscribers[u] => c \in subscribers'[u]
  <2>1. \A u \in us : c \notin Woken(u, t)
    BY <1>5, <1>9
  <2> QED
    BY <2>1 DEF Notify
<1>10. ASSUME NEW u \in us, NEW c \in subscribers'[u]
       PROVE  call[c].time > t
  <2>1. u \in UIDs /\ c \in subscribers[u] /\ c \notin Woken(u, t)
    BY <1>10 DEF Notify
  <2>2. call[c].time \in Nat /\ t \in Nat
    BY <2>1, <1>2
  <2> QED
    BY <2>1, <2>2 DEF Woken
<1> QED
  BY <1>6, <1>7, <1>8, <1>9, <1>10

-----------------------------------------------------------------------------
(* The inductive invariant, one lemma for each critical section. *)

LEMMA SubscribeStep ==
  ASSUME MaxTime \in Nat, CacheIInv, NEW c \in Callers, NEW u \in UIDs, NEW t \in Times,
         Subscribe(c, u, t)
  PROVE  CacheIInv'
<1> USE Sentinels
<1>1. CacheTypeOK /\ NoMissedWakeup /\ NotifyNeverBlocks /\ NoStrayAnswer
  BY DEF CacheIInv
<1>2. /\ call[c] = Idle /\ UNCHANGED <<pods, timestamp>>
      /\ call' = [call EXCEPT ![c] = [uid |-> u, time |-> t]]
      /\ [uid |-> u, time |-> t] \in Calls
  BY DEF Subscribe, Calls
<1>3. \A v \in UIDs : c \notin subscribers[v]
  BY <1>1, <1>2 DEF NotifyNeverBlocks
<1>4. CASE GetIfNewerThan(u, t)
  <2>1. ch' = [ch EXCEPT ![c] = Get(u)] /\ UNCHANGED subscribers
    BY <1>4 DEF Subscribe
  <2>2. Get(u) \in Data /\ Get(u) # NoData
    BY <1>1, GetIsData
  <2>3. CacheTypeOK'
    BY <1>1, <1>2, <2>1, <2>2 DEF CacheTypeOK
  <2>4. NoMissedWakeup'
    BY <1>1, <1>2, <2>1, <2>2 DEF CacheTypeOK, NoMissedWakeup, Waiting, GetIfNewerThan
  <2>5. NotifyNeverBlocks'
    BY <1>1, <1>2, <1>3, <2>1 DEF CacheTypeOK, NotifyNeverBlocks
  <2>6. NoStrayAnswer'
    BY <1>1, <1>2, <2>1 DEF CacheTypeOK, NoStrayAnswer
  <2> QED
    BY <2>3, <2>4, <2>5, <2>6 DEF CacheIInv
<1>5. CASE ~GetIfNewerThan(u, t)
  <2>1. subscribers' = [subscribers EXCEPT ![u] = @ \cup {c}] /\ UNCHANGED ch
    BY <1>5 DEF Subscribe
  <2>2. CacheTypeOK'
    BY <1>1, <1>2, <2>1 DEF CacheTypeOK
  <2>3. ASSUME NEW d \in Callers, Waiting(d)'
        PROVE  (/\ d \in subscribers[call[d].uid]
         /\ ~GetIfNewerThan(call[d].uid, call[d].time))'
    <3>1. CASE d = c
      BY <3>1, <1>1, <1>2, <1>5, <2>1 DEF CacheTypeOK, GetIfNewerThan
    <3>2. CASE d # c
      BY <3>2, <2>3, <1>1, <1>2, <2>1 DEF CacheTypeOK, NoMissedWakeup, Waiting, GetIfNewerThan, Calls
    <3> QED
      BY <3>1, <3>2
  <2>4. NoMissedWakeup'
    BY <2>3 DEF NoMissedWakeup
  <2>5. ch[c] = NoData
    BY <1>1, <1>2 DEF NoStrayAnswer
  <2>6. NotifyNeverBlocks'
    BY <1>1, <1>2, <1>3, <2>1, <2>5 DEF CacheTypeOK, NotifyNeverBlocks
  <2>7. NoStrayAnswer'
    BY <1>1, <1>2, <2>1 DEF CacheTypeOK, NoStrayAnswer
  <2> QED
    BY <2>2, <2>4, <2>6, <2>7 DEF CacheIInv
<1> QED
  BY <1>4, <1>5

LEMMA ReceiveStep ==
  ASSUME MaxTime \in Nat, CacheIInv, NEW c \in Callers, Receive(c)
  PROVE  CacheIInv'
<1> USE Sentinels
<1>1. CacheTypeOK /\ NoMissedWakeup /\ NotifyNeverBlocks /\ NoStrayAnswer
  BY DEF CacheIInv
<1>2. /\ ch[c] # NoData /\ UNCHANGED <<pods, timestamp, subscribers>>
      /\ ch' = [ch EXCEPT ![c] = NoData] /\ call' = [call EXCEPT ![c] = Idle]
  BY DEF Receive
<1>3. CacheTypeOK'
  BY <1>1, <1>2 DEF CacheTypeOK
<1>4. NoMissedWakeup'
  BY <1>1, <1>2 DEF CacheTypeOK, NoMissedWakeup, Waiting, GetIfNewerThan
<1>5. NotifyNeverBlocks'
  BY <1>1, <1>2 DEF CacheTypeOK, NotifyNeverBlocks
<1>6. NoStrayAnswer'
  BY <1>1, <1>2 DEF CacheTypeOK, NoStrayAnswer
<1> QED
  BY <1>3, <1>4, <1>5, <1>6 DEF CacheIInv

\* Set and UpdateTime: whoever the new contents would answer has been woken.
LEMMA NotifyStep ==
  ASSUME MaxTime \in Nat, CacheIInv, NEW us \in SUBSET UIDs, NEW t \in Times,
         pods' \in [UIDs -> Data \cup {NoData}], timestamp' \in Times \cup {NoTime},
         \A u \in UIDs : u \notin us => pods'[u] = pods[u],
         \A u \in UIDs, time \in Times :
           GetIfNewerThan(u, time)' => GetIfNewerThan(u, time) \/ (u \in us /\ time <= t),
         Notify(us, t)
  PROVE  CacheIInv'
<1> USE Sentinels
<1>1. CacheTypeOK /\ NoMissedWakeup /\ NotifyNeverBlocks /\ NoStrayAnswer
  BY DEF CacheIInv
<1>2. /\ call' = call
      /\ ch' \in [Callers -> Data \cup {NoData}]
      /\ subscribers' \in [UIDs -> SUBSET Callers]
      /\ \A u \in UIDs : subscribers'[u] \subseteq subscribers[u]
      /\ \A c \in Callers :
           /\ Waiting(c) /\ call[c].uid \in us /\ call[c].time <= t => ch'[c] # NoData
           /\ ~(Waiting(c) /\ call[c].uid \in us /\ call[c].time <= t) =>
                /\ ch'[c] = ch[c]
                /\ \A u \in UIDs : c \in subscribers[u] => c \in subscribers'[u]
      /\ \A u \in us : \A c \in subscribers'[u] : call[c].time > t
  BY NotifyEffect
<1>3. CacheTypeOK'
  BY <1>1, <1>2 DEF CacheTypeOK
<1>4. ASSUME NEW c \in Callers, Waiting(c)'
      PROVE  (/\ c \in subscribers[call[c].uid]
         /\ ~GetIfNewerThan(call[c].uid, call[c].time))'
  <2>1. Waiting(c) /\ ~(call[c].uid \in us /\ call[c].time <= t)
    BY <1>2, <1>4 DEF Waiting
  <2>2. call[c].uid \in UIDs /\ call[c].time \in Times
    BY <2>1, <1>1 DEF CacheTypeOK, Waiting, Calls
  <2>3. c \in subscribers[call[c].uid] /\ ~GetIfNewerThan(call[c].uid, call[c].time)
    BY <2>1, <1>1 DEF NoMissedWakeup
  <2>4. ~GetIfNewerThan(call[c].uid, call[c].time)'
    <3> DEFINE v == call[c].uid  time == call[c].time
    <3>1. v \in UIDs /\ time \in Times /\ ~GetIfNewerThan(v, time) /\ ~(v \in us /\ time <= t)
      BY <2>1, <2>2, <2>3
    <3> QED
      BY <3>1, <1>2 DEF GetIfNewerThan
  <2> QED
    BY <2>1, <2>2, <2>3, <2>4, <1>2
<1>5. NotifyNeverBlocks'
  <2>1. ASSUME NEW u \in UIDs, NEW c \in subscribers'[u]
        PROVE  call'[c] # Idle /\ call'[c].uid = u /\ ch'[c] = NoData
    <3>1. c \in Callers /\ call[c] # Idle /\ call[c].uid = u /\ ch[c] = NoData
      BY <2>1, <1>1, <1>2 DEF NotifyNeverBlocks, CacheTypeOK
    <3>2. ~(u \in us /\ call[c].time <= t)
      <4>1. call[c].time \in Nat /\ t \in Nat
        BY <3>1, <1>1 DEF CacheTypeOK, Calls
      <4> QED
        BY <4>1, <2>1, <1>2
    <3> QED
      BY <3>1, <3>2, <1>2
  <2> QED
    BY <2>1 DEF NotifyNeverBlocks
<1>6. NoStrayAnswer'
  BY <1>1, <1>2 DEF NoStrayAnswer, Waiting
<1> QED
  BY <1>3, <1>4, <1>5, <1>6 DEF CacheIInv, NoMissedWakeup

LEMMA SetStep ==
  ASSUME MaxTime \in Nat, CacheIInv, NEW u \in UIDs, NEW s \in Statuses, NEW t \in Times,
         Set(u, s, t)
  PROVE  CacheIInv'
<1> USE Sentinels
<1>1. CacheTypeOK
  BY DEF CacheIInv
<1>2. /\ pods' = [pods EXCEPT ![u] = [status |-> s, modified |-> t]]
      /\ Notify({u}, t) /\ timestamp' = timestamp
  BY DEF Set
<1>3. [status |-> s, modified |-> t] \in Data
  BY DEF Data
<1>4. /\ pods' \in [UIDs -> Data \cup {NoData}]
      /\ timestamp' \in Times \cup {NoTime}
      /\ \A v \in UIDs : v \notin {u} => pods'[v] = pods[v]
  BY <1>1, <1>2, <1>3 DEF CacheTypeOK
<1>5. ASSUME NEW v \in UIDs, NEW time \in Times, GetIfNewerThan(v, time)'
      PROVE  GetIfNewerThan(v, time) \/ (v \in {u} /\ time <= t)
  BY <1>1, <1>2, <1>5 DEF CacheTypeOK, GetIfNewerThan
<1> QED
  BY <1>2, <1>4, <1>5, NotifyStep

LEMMA UpdateTimeStep ==
  ASSUME MaxTime \in Nat, CacheIInv, NEW t \in Times, UpdateTime(t)
  PROVE  CacheIInv'
<1> USE Sentinels
<1>1. CacheTypeOK
  BY DEF CacheIInv
<1>2. pods' = pods /\ Notify(UIDs, t) /\ timestamp' = t
  BY DEF UpdateTime
<1>3. /\ pods' \in [UIDs -> Data \cup {NoData}]
      /\ timestamp' \in Times \cup {NoTime}
      /\ \A v \in UIDs : v \notin UIDs => pods'[v] = pods[v]
  BY <1>1, <1>2 DEF CacheTypeOK
<1>4. ASSUME NEW v \in UIDs, NEW time \in Times, GetIfNewerThan(v, time)'
      PROVE  GetIfNewerThan(v, time) \/ (v \in UIDs /\ time <= t)
  BY <1>1, <1>2, <1>4 DEF CacheTypeOK, GetIfNewerThan
<1> QED
  BY <1>2, <1>3, <1>4, NotifyStep

LEMMA DeleteStep ==
  ASSUME MaxTime \in Nat, CacheIInv, NEW u \in UIDs, Delete(u)
  PROVE  CacheIInv'
<1>1. CacheTypeOK /\ NoMissedWakeup /\ NotifyNeverBlocks /\ NoStrayAnswer
  BY DEF CacheIInv
<1>2. /\ pods' = [pods EXCEPT ![u] = NoData]
      /\ UNCHANGED <<timestamp, subscribers, call, ch>>
  BY DEF Delete
<1>3. CacheTypeOK'
  BY <1>1, <1>2 DEF CacheTypeOK
<1>4. ASSUME NEW c \in Callers, Waiting(c)'
      PROVE  (/\ c \in subscribers[call[c].uid]
         /\ ~GetIfNewerThan(call[c].uid, call[c].time))'
  <2>1. Waiting(c) /\ call[c].uid \in UIDs
    BY <1>1, <1>2, <1>4 DEF Waiting, CacheTypeOK, Calls
  <2>2. c \in subscribers[call[c].uid] /\ ~GetIfNewerThan(call[c].uid, call[c].time)
    BY <2>1, <1>1 DEF NoMissedWakeup
  <2> QED
    BY <2>1, <2>2, <1>1, <1>2 DEF GetIfNewerThan, CacheTypeOK
<1>5. NotifyNeverBlocks' /\ NoStrayAnswer'
  BY <1>1, <1>2 DEF NotifyNeverBlocks, NoStrayAnswer
<1> QED
  BY <1>3, <1>4, <1>5 DEF CacheIInv, NoMissedWakeup

-----------------------------------------------------------------------------
(* The theorems *)

\* The induction: CacheIInv holds of a new cache, and every call keeps it.
LEMMA CacheInduction ==
  ASSUME MaxTime \in Nat
  PROVE  /\ CacheInit => CacheIInv
         /\ CacheIInv /\ [CacheNext]_cacheVars => CacheIInv'
<1>1. CacheInit => CacheIInv
  BY Sentinels DEF CacheInit, CacheIInv, CacheTypeOK, NoMissedWakeup, NotifyNeverBlocks,
                   NoStrayAnswer, Waiting
<1>2. CacheIInv /\ [CacheNext]_cacheVars => CacheIInv'
  <2> SUFFICES ASSUME CacheIInv, [CacheNext]_cacheVars PROVE CacheIInv'
    OBVIOUS
  <2>1. CASE UNCHANGED cacheVars
    BY <2>1 DEF cacheVars, CacheIInv, CacheTypeOK, NoMissedWakeup, NotifyNeverBlocks,
                NoStrayAnswer, Waiting, GetIfNewerThan
  <2>2. CASE CacheNext
    BY <2>2, SubscribeStep, ReceiveStep, SetStep, DeleteStep, UpdateTimeStep DEF CacheNext
  <2> QED
    BY <2>1, <2>2
<1> QED
  BY <1>1, <1>2

\* CacheIInv holds in every reachable state of the cache, whatever the order of
\* the calls of Set, Delete, UpdateTime and GetNewerThan.
THEOREM CacheInvariance ==
  ASSUME MaxTime \in Nat
  PROVE  CacheSpec => []CacheIInv
BY CacheInduction, PTL DEF CacheSpec

\* The cache's variables keep their types.
THEOREM CacheTypes ==
  ASSUME MaxTime \in Nat
  PROVE  CacheSpec => []CacheTypeOK
<1>1. CacheIInv => CacheTypeOK
  BY DEF CacheIInv
<1> QED
  BY <1>1, CacheInvariance, PTL

\* GetNewerThan misses no wake-up: whoever waits is on record and there is
\* nothing in the cache that it waits for.
THEOREM WakeupSafe ==
  ASSUME MaxTime \in Nat
  PROVE  CacheSpec => []NoMissedWakeup
<1>1. CacheIInv => NoMissedWakeup
  BY DEF CacheIInv
<1> QED
  BY <1>1, CacheInvariance, PTL

\* notify never blocks under the lock and never sends on a closed channel.
THEOREM NotifySafe ==
  ASSUME MaxTime \in Nat
  PROVE  CacheSpec => []NotifyNeverBlocks
<1>1. CacheIInv => NotifyNeverBlocks
  BY DEF CacheIInv
<1> QED
  BY <1>1, CacheInvariance, PTL

\* Every answer of GetNewerThan is the pod's latest status, and old enough only
\* by equality of times.
THEOREM AnswersSafe ==
  ASSUME MaxTime \in Nat
  PROVE  CacheSpec => AnswersAreCurrent
<1> DEFINE Current == \A c \in Callers :
             ch[c] = NoData /\ ch'[c] # NoData =>
               /\ ch'[c] = Get(call[c].uid)'
               /\ \/ ch'[c].modified >= call'[c].time
                  \/ timestamp' >= call'[c].time
<1>1. ASSUME CacheIInv, CacheNext PROVE Current
  <2> USE Sentinels
  <2>1. CacheTypeOK
    BY <1>1 DEF CacheIInv
  <2>2. ASSUME NEW us \in SUBSET UIDs, NEW t \in Times, Notify(us, t),
               pods' \in [UIDs -> Data \cup {NoData}],
               \/ timestamp' = t
               \/ \A u \in us : pods'[u] # NoData /\ pods'[u].modified = t
        PROVE  Current
    <3> SUFFICES ASSUME NEW c \in Callers, ch[c] = NoData, ch'[c] # NoData
                 PROVE  /\ ch'[c] = Get(call[c].uid)'
                        /\ \/ ch'[c].modified >= call'[c].time
                           \/ timestamp' >= call'[c].time
      OBVIOUS
    <3>1. /\ call' = call /\ ch'[c] = Get(call[c].uid)'
          /\ Waiting(c) /\ call[c].uid \in us /\ call[c].time <= t
      BY <1>1, <2>2, NotifyEffect
    <3>2. call[c].time \in Nat /\ t \in Nat
      BY <3>1, <2>1 DEF CacheTypeOK, Waiting, Calls
    <3>3. timestamp' = t \/ Get(call[c].uid)'.modified = t
      BY <3>1, <2>2 DEF Get
    <3> QED
      BY <3>1, <3>2, <3>3
  <2>3. ASSUME NEW c \in Callers, NEW u \in UIDs, NEW t \in Times, Subscribe(c, u, t)
        PROVE  Current
    <3>1. ASSUME NEW d \in Callers, ch[d] = NoData, ch'[d] # NoData
          PROVE  d = c /\ GetIfNewerThan(u, t) /\ ch'[d] = Get(u)
      BY <2>1, <2>3, <3>1 DEF Subscribe, CacheTypeOK
    <3>2. /\ call'[c] = [uid |-> u, time |-> t] /\ UNCHANGED <<pods, timestamp>>
      BY <2>1, <2>3 DEF Subscribe, CacheTypeOK
    <3>3. t \in Nat /\ (timestamp \in Nat \/ timestamp = NoTime)
      BY <2>1 DEF CacheTypeOK
    <3>4. ASSUME GetIfNewerThan(u, t)
          PROVE  Get(u).modified >= t \/ timestamp >= t
      <4>1. CASE timestamp # NoTime /\ timestamp > t
        BY <4>1, <3>3
      <4>2. CASE pods[u] # NoData /\ pods[u].modified > t
        <5>1. Get(u) = pods[u] /\ pods[u] \in Data
          BY <4>2, <2>1 DEF Get, CacheTypeOK
        <5>2. pods[u].modified \in Nat
          BY <5>1 DEF Data
        <5> QED
          BY <4>2, <5>1, <5>2, <3>3
      <4> QED
        BY <3>4, <4>1, <4>2 DEF GetIfNewerThan
    <3>5. Get(call[c].uid)' = Get(u)
      BY <3>2 DEF Get
    <3> QED
      BY <3>1, <3>2, <3>4, <3>5
  <2>4. ASSUME NEW c \in Callers, Receive(c)
        PROVE  Current
    BY <2>1, <2>4 DEF Receive, CacheTypeOK
  <2>5. ASSUME NEW u \in UIDs, NEW s \in Statuses, NEW t \in Times, Set(u, s, t)
        PROVE  Current
    <3>1. /\ pods' = [pods EXCEPT ![u] = [status |-> s, modified |-> t]]
          /\ [status |-> s, modified |-> t] \in Data
          /\ Notify({u}, t)
      BY <2>5 DEF Set, Data
    <3>2. pods' \in [UIDs -> Data \cup {NoData}] /\ pods'[u] # NoData /\ pods'[u].modified = t
      BY <3>1, <2>1 DEF CacheTypeOK
    <3> QED
      BY <3>1, <3>2, <2>2
  <2>6. ASSUME NEW u \in UIDs, Delete(u)
        PROVE  Current
    BY <2>6 DEF Delete
  <2>7. ASSUME NEW t \in Times, UpdateTime(t)
        PROVE  Current
    BY <2>1, <2>2, <2>7 DEF UpdateTime, CacheTypeOK
  <2> QED
    BY <1>1, <2>3, <2>4, <2>5, <2>6, <2>7 DEF CacheNext
<1> QED
  BY <1>1, CacheInvariance, PTL DEF CacheSpec, AnswersAreCurrent

=============================================================================
