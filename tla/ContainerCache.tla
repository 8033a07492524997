---------------------------- MODULE ContainerCache ----------------------------
(***************************************************************************)
(* The container status cache (pkg/kubelet/container/cache.go): the latest *)
(* status of each pod, and goroutines that wait in GetNewerThan for one    *)
(* that is newer than a given time.  Every action is one critical section  *)
(* of cache.lock, or the receive from the caller's own channel.            *)
(***************************************************************************)
EXTENDS Integers

CONSTANTS
  UIDs,      \* pod UIDs
  Callers,   \* the goroutines that call GetNewerThan
  Statuses,  \* pointers to the PodStatus objects Set may store
  Empty,     \* the PodStatus with only an ID that makeDefaultData returns
  MaxTime    \* bound: instants of the clock; 0 is the zero time.Time

NoTime == -1   \* a nil *time.Time

VARIABLES
  pods,         \* the data stored for each UID, or NoData
  timestamp,    \* the global timestamp, nil until UpdateTime
  subscribers,  \* the callers with a subRecord in each UID's list
  call,         \* the arguments of each caller's GetNewerThan, or Idle
  ch            \* what each caller's channel of capacity one holds, or NoData

cacheVars == <<pods, timestamp, subscribers, call, ch>>

-----------------------------------------------------------------------------
Times == 0..MaxTime

Data == [status: Statuses \cup {Empty}, modified: Times]

NoData == [status |-> "none", modified |-> NoTime]

Calls == [uid: UIDs, time: Times]

Idle == [uid |-> "none", time |-> NoTime]

\* NewCache
CacheInit ==
  /\ pods = [u \in UIDs |-> NoData]
  /\ timestamp = NoTime
  /\ subscribers = [u \in UIDs |-> {}]
  /\ call = [c \in Callers |-> Idle]
  /\ ch = [c \in Callers |-> NoData]

\* get, also the body of the non-blocking Get: a cache miss is an empty status.
Get(u) == IF pods[u] = NoData THEN [status |-> Empty, modified |-> 0] ELSE pods[u]

GetIfNewerThan_CachedOnly(u, minTime) == pods[u] # NoData

\* getIfNewerThan returns Get(u) when this holds, and nil otherwise.
GetIfNewerThan(u, minTime) ==
  \/ timestamp # NoTime /\ timestamp > minTime
  \/ pods[u] # NoData /\ pods[u].modified > minTime

Subscribe_WithoutLooking(c, u, minTime) ==
  /\ call[c] = Idle
  /\ call' = [call EXCEPT ![c] = [uid |-> u, time |-> minTime]]
  /\ subscribers' = [subscribers EXCEPT ![u] = @ \cup {c}]
  /\ UNCHANGED <<pods, timestamp, ch>>

\* The first half of GetNewerThan: an answer at once, or a subRecord.
Subscribe(c, u, minTime) ==
  /\ call[c] = Idle
  /\ call' = [call EXCEPT ![c] = [uid |-> u, time |-> minTime]]
  /\ \/ /\ GetIfNewerThan(u, minTime)
        /\ ch' = [ch EXCEPT ![c] = Get(u)]
        /\ UNCHANGED subscribers
     \/ /\ ~GetIfNewerThan(u, minTime)
        /\ subscribers' = [subscribers EXCEPT ![u] = @ \cup {c}]
        /\ UNCHANGED ch
  /\ UNCHANGED <<pods, timestamp>>

\* The second half: the caller takes the answer from its channel.
Receive(c) ==
  /\ ch[c] # NoData
  /\ ch' = [ch EXCEPT ![c] = NoData]
  /\ call' = [call EXCEPT ![c] = Idle]
  /\ UNCHANGED <<pods, timestamp, subscribers>>

\* The records notify answers: those whose time is not after t.
Woken(u, t) == {c \in subscribers[u] : call[c].time <= t}

\* notify, for every UID of us: the woken get the data of their UID as it is
\* now in the cache, and their records are removed.
Notify(us, t) ==
  /\ UNCHANGED call
  /\ ch' = [c \in Callers |-> IF \E u \in us : c \in Woken(u, t)
                              THEN Get(call[c].uid)' ELSE ch[c]]
  /\ subscribers' = [u \in UIDs |-> IF u \in us THEN subscribers[u] \ Woken(u, t)
                                    ELSE subscribers[u]]

\* The caller read its clock, t, before it called Set and waited for the lock.
Set(u, status, t) ==
  /\ pods' = [pods EXCEPT ![u] = [status |-> status, modified |-> t]]
  /\ Notify({u}, t)
  /\ UNCHANGED timestamp

Delete(u) ==
  /\ pods' = [pods EXCEPT ![u] = NoData]
  /\ UNCHANGED <<timestamp, subscribers, call, ch>>

UpdateTime(t) ==
  /\ timestamp' = t
  /\ UNCHANGED pods
  /\ Notify(UIDs, t)

CacheNext ==
  \/ \E c \in Callers, u \in UIDs, t \in Times : Subscribe(c, u, t)
  \/ \E c \in Callers : Receive(c)
  \/ \E u \in UIDs, s \in Statuses, t \in Times : Set(u, s, t)
  \/ \E u \in UIDs : Delete(u)
  \/ \E t \in Times : UpdateTime(t)

CacheSpec == CacheInit /\ [][CacheNext]_cacheVars

-----------------------------------------------------------------------------
(* Properties *)

\* Type invariant.
CacheTypeOK ==
  /\ pods \in [UIDs -> Data \cup {NoData}]
  /\ timestamp \in Times \cup {NoTime}
  /\ subscribers \in [UIDs -> SUBSET Callers]
  /\ call \in [Callers -> Calls \cup {Idle}]
  /\ ch \in [Callers -> Data \cup {NoData}]

\* A goroutine inside GetNewerThan that has no answer yet.
Waiting(c) == call[c] # Idle /\ ch[c] = NoData

\* No wake-up is missed: a goroutine that waits in GetNewerThan has a record
\* that the next notify of its UID will find, and the cache holds nothing that
\* a fresh call with the same time would be given.
NoMissedWakeup ==
  \A c \in Callers :
    Waiting(c) => /\ c \in subscribers[call[c].uid]
                  /\ ~GetIfNewerThan(call[c].uid, call[c].time)

\* notify sends on a subscriber's channel of capacity one, and closes it, while
\* it holds the lock: a record belongs to one list, to a call for that UID, and
\* its channel is still empty, so that the send never blocks and is never
\* repeated on a closed channel.
NotifyNeverBlocks ==
  \A u \in UIDs : \A c \in subscribers[u] :
    call[c] # Idle /\ call[c].uid = u /\ ch[c] = NoData

\* An answer is the pod's latest status at that moment, and not older than the
\* caller asked for, by its own time or by the global one.  It may be as old:
\* notify answers on equality, where getIfNewerThan does not.
AnswersAreCurrent ==
  [][\A c \in Callers :
       ch[c] = NoData /\ ch'[c] # NoData =>
         /\ ch'[c] = Get(call[c].uid)'
         /\ \/ ch'[c].modified >= call'[c].time
            \/ timestamp' >= call'[c].time]_cacheVars

\* The inductive invariant behind them: a channel also outlives no call.
NoStrayAnswer == \A c \in Callers : call[c] = Idle => ch[c] = NoData

CacheIInv == CacheTypeOK /\ NoMissedWakeup /\ NotifyNeverBlocks /\ NoStrayAnswer

=============================================================================
