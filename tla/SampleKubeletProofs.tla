------------------------ MODULE SampleKubeletProofs ------------------------
(***************************************************************************)
(* The kubelet as a composition: its steps are steps of the pod workers    *)
(* and of the container status cache, so that what is proved of these      *)
(* holds for it; and what a worker reports of containers is true and       *)
(* final, for any number of pods and containers.                           *)
(***************************************************************************)
EXTENDS SampleKubelet, FiniteSetTheorems, WellFoundedInduction, TLAPS

\* The two components again, with their theorems.
Workers == INSTANCE PodWorkersProofs WITH
             StaticPods <- {}, Fullnames <- UIDs, Fullname <- [u \in UIDs |-> u],
             Requests <- AllRequests, SyncOutcomes <- {"terminal"}

Store == INSTANCE ContainerCacheProofs WITH
           Callers <- UIDs, Statuses <- {"running", "completed", "empty"}, Empty <- "empty"

-----------------------------------------------------------------------------
(* The pod workers *)

\* The requests of the handlers, and the constants, are as PodWorkers assumes.
LEMMA WorkersAssumed ==
  /\ {} \subseteq UIDs /\ [u \in UIDs |-> u] \in [UIDs -> UIDs] /\ NoUID \notin UIDs
  /\ AllRequests \subseteq Workers!Options
  /\ \A r \in AllRequests : r.runtime => /\ ~r.deletion /\ ~r.terminalPhase
                                         /\ r.deletionGrace = Workers!Nil
  /\ SpecGrace \in Nat \ {0}
  /\ {"terminal"} \subseteq Workers!Outcomes
  /\ MaxCalls \in Nat
<1>1. PW!Options = Workers!Options
  BY DEF PW!Options, Workers!Options, PW!UpdateTypes, Workers!UpdateTypes, PW!Nil, Workers!Nil
<1>2. /\ Update \in Workers!Options /\ ~Update.runtime
      /\ DeleteUpdate \in Workers!Options /\ ~DeleteUpdate.runtime
      /\ Kill(FALSE) \in Workers!Options /\ ~Kill(FALSE).runtime
      /\ Kill(TRUE) \in Workers!Options /\ ~Kill(TRUE).runtime
  BY DEF Update, DeleteUpdate, Kill, Workers!Options, Workers!UpdateTypes, Workers!Nil
<1> QED
  BY <1>1, <1>2, KubeletAssumption DEF AllRequests, Workers!Outcomes

\* UpdatePod as the composition and as the theorems mean it.
LEMMA SameUpdatePod ==
  ASSUME NEW u, NEW r
  PROVE  PW!UpdatePod(u, r) <=> Workers!UpdatePod(u, r)
<1>1. ASSUME NEW c PROVE PW!LookupStatus(u, r, c) = Workers!LookupStatus(u, r, c)
  BY DEF PW!LookupStatus, Workers!LookupStatus, PW!NoStatus, Workers!NoStatus
<1>2. ASSUME NEW s, NEW q PROVE PW!CheckTerminating(s, q) = Workers!CheckTerminating(s, q)
  BY DEF PW!CheckTerminating, Workers!CheckTerminating,
         PW!BecomesTerminating, Workers!BecomesTerminating
<1>3. ASSUME NEW s, NEW q, NEW v PROVE PW!RecordKill(s, q, v) = Workers!RecordKill(s, q, v)
  BY DEF PW!RecordKill, Workers!RecordKill, PW!CalculateEffectiveGracePeriod,
         Workers!CalculateEffectiveGracePeriod, PW!Shorten, Workers!Shorten, PW!Nil, Workers!Nil
<1>4. ASSUME NEW s, NEW q, NEW v PROVE PW!NewWork(s, q, v) = Workers!NewWork(s, q, v)
  BY DEF PW!NewWork, Workers!NewWork, PW!WorkTypeOf, Workers!WorkTypeOf, PW!Nil, Workers!Nil
<1>5. ASSUME NEW s, NEW o PROVE PW!CancelSync(s, o) = Workers!CancelSync(s, o)
  BY DEF PW!CancelSync, Workers!CancelSync
<1>6. PW!UpdatePodIgnored(u, r) <=> Workers!UpdatePodIgnored(u, r)
  BY DEF PW!UpdatePodIgnored, Workers!UpdatePodIgnored
<1>7. ASSUME NEW s PROVE PW!UpdatePodReturns(u, r, s) <=> Workers!UpdatePodReturns(u, r, s)
  BY DEF PW!UpdatePodReturns, Workers!UpdatePodReturns
<1>8. ASSUME NEW s PROVE PW!UpdatePodDispatch(u, r, s) <=> Workers!UpdatePodDispatch(u, r, s)
  BY <1>2, <1>3, <1>4, <1>5
     DEF PW!UpdatePodDispatch, Workers!UpdatePodDispatch, PW!BecomesTerminating,
         Workers!BecomesTerminating, PW!IsWorking, Workers!IsWorking, PW!IsStaticPod,
         Workers!IsStaticPod, PW!NoWorker, Workers!NoWorker, PW!NoWork, Workers!NoWork,
         PW!Nil, Workers!Nil
<1> QED
  BY <1>1, <1>6, <1>7, <1>8 DEF PW!UpdatePod, Workers!UpdatePod

\* The steps of managePodLoop likewise.
LEMMA SameWorkerStep ==
  ASSUME NEW u \in UIDs
  PROVE  /\ PW!Receive(u) => Workers!Receive(u)
         /\ PW!AllowPodStart(u) => Workers!AllowPodStart(u)
         /\ PW!GetNewerThan(u) => Workers!GetNewerThan(u)
         /\ PW!ContextForWorker(u) => Workers!ContextForWorker(u)
         /\ PW!AcknowledgeTerminating(u) => Workers!AcknowledgeTerminating(u)
         /\ PW!CompleteSync(u) => Workers!CompleteSync(u)
         /\ PW!CompleteTerminating(u) => Workers!CompleteTerminating(u)
         /\ PW!CompleteTerminated(u) => Workers!CompleteTerminated(u)
         /\ PW!CompleteWork(u) => Workers!CompleteWork(u)
<1> USE DEF PW!At, Workers!At, PW!Goto, Workers!Goto, PW!Synced, Workers!Synced
<1>1. PW!Receive(u) => Workers!Receive(u)
  BY DEF PW!Receive, Workers!Receive
<1>2. PW!AllowPodStart(u) => Workers!AllowPodStart(u)
  BY DEF PW!AllowPodStart, Workers!AllowPodStart, PW!IsStaticPod, Workers!IsStaticPod
<1>3. PW!GetNewerThan(u) => Workers!GetNewerThan(u)
  BY DEF PW!GetNewerThan, Workers!GetNewerThan
<1>4. PW!ContextForWorker(u) => Workers!ContextForWorker(u)
  BY DEF PW!ContextForWorker, Workers!ContextForWorker, PW!RenewContext, Workers!RenewContext
<1>5. PW!AcknowledgeTerminating(u) => Workers!AcknowledgeTerminating(u)
  BY DEF PW!AcknowledgeTerminating, Workers!AcknowledgeTerminating
<1>6. PW!CompleteSync(u) => Workers!CompleteSync(u)
  BY DEF PW!CompleteSync, Workers!CompleteSync, PW!Nil, Workers!Nil
<1>7. PW!CompleteTerminating(u) => Workers!CompleteTerminating(u)
  BY DEF PW!CompleteTerminating, Workers!CompleteTerminating, PW!StoppedStatus,
         Workers!StoppedStatus, PW!Nil, Workers!Nil
<1>8. PW!CompleteTerminated(u) => Workers!CompleteTerminated(u)
  BY DEF PW!CompleteTerminated, Workers!CompleteTerminated, PW!Finish, Workers!Finish,
         PW!FinishedStatus, Workers!FinishedStatus, PW!CleanupPodUpdates,
         Workers!CleanupPodUpdates, PW!ReleaseFullname, Workers!ReleaseFullname,
         PW!NoChannel, Workers!NoChannel, PW!NoWorker, Workers!NoWorker,
         PW!NoWork, Workers!NoWork, PW!Nil, Workers!Nil
<1>9. PW!CompleteWork(u) => Workers!CompleteWork(u)
  BY DEF PW!CompleteWork, Workers!CompleteWork, PW!IterationDone, Workers!IterationDone,
         PW!HasUndelivered, Workers!HasUndelivered, PW!NoWork, Workers!NoWork, PW!Nil, Workers!Nil
<1> QED
  BY <1>1, <1>2, <1>3, <1>4, <1>5, <1>6, <1>7, <1>8, <1>9

\* A step of the kubelet is a step of the pod workers, or leaves them alone.
LEMMA WorkersNext ==
  ASSUME KubeletTypeOK, MainOK, [Next]_vars
  PROVE  [Workers!Next]_(Workers!vars)
<1> USE DEF workerVars, Workers!vars
<1>1. CASE UNCHANGED vars
  BY <1>1 DEF vars
<1>2. ASSUME NEW u \in UIDs, HandlerPodAdd(u) \/ HandlePodUpdate(u) \/ HandlePodRemove(u)
      PROVE  UNCHANGED workerVars
  BY <1>2 DEF HandlerPodAdd, HandlePodUpdate, HandlePodRemove, TakeEvent
<1>3. CASE MainStep
  <2>1. CASE CallUpdatePod
    <3>1. main.uid \in UIDs /\ main.request \in AllRequests
      BY <2>1 DEF CallUpdatePod, MainOK, KubeletTypeOK, Main
    <3>2. Workers!UpdatePod(main.uid, main.request)
      BY <2>1, SameUpdatePod DEF CallUpdatePod
    <3> QED
      BY <3>1, <3>2 DEF Workers!Next
  <2>2. CASE RunCommand \/ ExitGet \/ ExitMark \/ ExitCode \/ ReadMainClock \/ MainSet
    BY <2>2 DEF RunCommand, ExitGet, ExitMark, ExitCode, ReadMainClock, MainSet
  <2> QED
    BY <1>3, <2>1, <2>2 DEF MainStep
<1>4. ASSUME NEW u \in UIDs, WorkerStep(u)
      PROVE  Workers!Next \/ UNCHANGED workerVars
  <2>1. CASE InsertGet(u) \/ InsertSet(u) \/ WaitForStatus(u) \/ ReadContainer(u) \/ Report(u)
    BY <2>1 DEF InsertGet, InsertSet, WaitForStatus, ReadContainer, Report
  <2>2. CASE GetNewerThan(u) \/ SyncReturns(u) \/ WorkerOnly(u)
    <3>1. Workers!WorkerStep(u)
      BY <2>2, SameWorkerStep DEF GetNewerThan, SyncReturns, WorkerOnly, Workers!WorkerStep
    <3> QED
      BY <3>1 DEF Workers!Next
  <2> QED
    BY <1>4, <2>1, <2>2 DEF WorkerStep
<1> QED
  BY <1>1, <1>2, <1>3, <1>4 DEF Next

\* Hence the invariant of the pod workers is one of the kubelet.
LEMMA WorkersInv ==
  /\ Init => Workers!IInv
  /\ KubeletTypeOK /\ MainOK /\ Workers!IInv /\ [Next]_vars => Workers!IInv'
<1>1. Init => Workers!Init
  BY DEF Init, PW!Init, Workers!Init, PW!NoStatus, Workers!NoStatus, PW!NoChannel,
         Workers!NoChannel, PW!NoWork, Workers!NoWork, PW!NoWorker, Workers!NoWorker,
         PW!Nil, Workers!Nil
<1>2. Workers!Init => Workers!IInv
  BY WorkersAssumed, Workers!InitInv
<1>3. Workers!IInv /\ [Workers!Next]_(Workers!vars) => Workers!IInv'
  BY WorkersAssumed, Workers!StepInv
<1> QED
  BY <1>1, <1>2, <1>3, WorkersNext

-----------------------------------------------------------------------------
(* The container status cache *)

LEMMA SameCache ==
  /\ Cache!CacheInit <=> Store!CacheInit
  /\ Cache!NoData = Store!NoData /\ Cache!Idle = Store!Idle
  /\ \A u : Cache!Get(u) = Store!Get(u)
  /\ \A c, u, t : Cache!Subscribe(c, u, t) <=> Store!Subscribe(c, u, t)
  /\ \A c : Cache!Receive(c) <=> Store!Receive(c)
  /\ \A u, s, t : Cache!Set(u, s, t) <=> Store!Set(u, s, t)
<1>1. Cache!NoData = Store!NoData /\ Cache!Idle = Store!Idle
  BY DEF Cache!NoData, Store!NoData, Cache!Idle, Store!Idle, Cache!NoTime, Store!NoTime
<1>2. Cache!CacheInit <=> Store!CacheInit
  BY <1>1 DEF Cache!CacheInit, Store!CacheInit, Cache!NoTime, Store!NoTime
<1>3. ASSUME NEW u PROVE Cache!Get(u) = Store!Get(u) /\ Cache!Get(u)' = Store!Get(u)'
  BY DEF Cache!Get, Store!Get, Cache!NoData, Store!NoData, Cache!NoTime, Store!NoTime
<1>4. ASSUME NEW c, NEW u, NEW t PROVE Cache!Subscribe(c, u, t) <=> Store!Subscribe(c, u, t)
  BY <1>1, <1>3 DEF Cache!Subscribe, Store!Subscribe, Cache!GetIfNewerThan, Store!GetIfNewerThan,
                    Cache!NoTime, Store!NoTime
<1>5. ASSUME NEW c PROVE Cache!Receive(c) <=> Store!Receive(c)
  BY <1>1 DEF Cache!Receive, Store!Receive
<1>6. ASSUME NEW u, NEW s, NEW t PROVE Cache!Set(u, s, t) <=> Store!Set(u, s, t)
  BY <1>1, <1>3 DEF Cache!Set, Store!Set, Cache!Notify, Store!Notify, Cache!Woken, Store!Woken
<1> QED
  BY <1>1, <1>2, <1>3, <1>4, <1>5, <1>6

\* A step of the kubelet is a step of the cache, or leaves it alone.
LEMMA CacheNext ==
  ASSUME KubeletTypeOK, MainOK, [Next]_vars
  PROVE  [Store!CacheNext]_(Store!cacheVars)
<1> USE DEF cacheVars, Store!cacheVars
<1>1. CASE UNCHANGED vars
  BY <1>1 DEF vars
<1>2. ASSUME NEW u \in UIDs, HandlerPodAdd(u) \/ HandlePodUpdate(u) \/ HandlePodRemove(u)
      PROVE  UNCHANGED cacheVars
  BY <1>2 DEF HandlerPodAdd, HandlePodUpdate, HandlePodRemove, TakeEvent
<1>3. CASE MainStep
  <2>1. CASE MainSet
    <3>1. /\ main.uid \in UIDs /\ main.ptr \in {"running", "completed", "empty"}
          /\ main.time \in Store!Times
      BY <2>1 DEF MainSet, MainOK, KubeletTypeOK, Main, ExitPCs, Times, Store!Times
    <3>2. Store!Set(main.uid, main.ptr, main.time)
      BY <2>1, SameCache DEF MainSet
    <3> QED
      BY <3>1, <3>2 DEF Store!CacheNext
  <2>2. CASE CallUpdatePod \/ RunCommand \/ ExitGet \/ ExitMark \/ ExitCode \/ ReadMainClock
    BY <2>2 DEF CallUpdatePod, RunCommand, ExitGet, ExitMark, ExitCode, ReadMainClock
  <2> QED
    BY <1>3, <2>1, <2>2 DEF MainStep
<1>4. ASSUME NEW u \in UIDs, WorkerStep(u)
      PROVE  Store!CacheNext \/ UNCHANGED cacheVars
  <2>0. local[u].time \in Store!Times /\ local[u].lastSync \in Store!Times
    BY DEF KubeletTypeOK, Local, Times, Store!Times
  <2>1. CASE InsertSet(u)
    <3>1. Store!Set(u, "running", local[u].time)
      BY <2>1, SameCache DEF InsertSet
    <3> QED
      BY <2>0, <3>1 DEF Store!CacheNext
  <2>2. CASE WaitForStatus(u)
    <3>1. Store!Subscribe(u, u, local[u].lastSync)
      BY <2>2, SameCache DEF WaitForStatus
    <3> QED
      BY <2>0, <3>1 DEF Store!CacheNext
  <2>3. CASE GetNewerThan(u)
    <3>1. Store!Receive(u)
      BY <2>3, SameCache DEF GetNewerThan
    <3> QED
      BY <3>1 DEF Store!CacheNext
  <2>4. CASE InsertGet(u) \/ ReadContainer(u) \/ Report(u) \/ SyncReturns(u) \/ WorkerOnly(u)
    BY <2>4 DEF InsertGet, ReadContainer, Report, SyncReturns, WorkerOnly
  <2> QED
    BY <1>4, <2>1, <2>2, <2>3, <2>4 DEF WorkerStep
<1> QED
  BY <1>1, <1>2, <1>3, <1>4 DEF Next

\* Hence the invariant of the cache is one of the kubelet.
LEMMA CacheInv ==
  /\ Init => Store!CacheIInv
  /\ KubeletTypeOK /\ MainOK /\ Store!CacheIInv /\ [Next]_vars => Store!CacheIInv'
<1>1. Init => Store!CacheInit
  BY SameCache DEF Init
<1>2. /\ Store!CacheInit => Store!CacheIInv
      /\ Store!CacheIInv /\ [Store!CacheNext]_(Store!cacheVars) => Store!CacheIInv'
  BY KubeletAssumption, Store!CacheInduction
<1> QED
  BY <1>1, <1>2, CacheNext

-----------------------------------------------------------------------------
(* What the components' steps mean for the kubelet's own variables *)

\* A goroutine has a position and a flag, and there is none without a channel.
LEMMA WorkerShape ==
  ASSUME Workers!IInv
  PROVE  /\ worker \in [UIDs -> Workers!Worker]
         /\ \A u \in UIDs : ~podUpdates[u].made => worker[u].pc = "none"
BY DEF Workers!IInv, Workers!TypeOK, Workers!ChannelOK

\* UpdatePod leaves the goroutines as they are, or makes a new one.
LEMMA UpdatePodMoves ==
  ASSUME Workers!IInv, NEW u \in UIDs, NEW r, PW!UpdatePod(u, r), NEW v \in UIDs
  PROVE  \/ worker'[v] = worker[v]
         \/ worker[v].pc = "none" /\ worker'[v].pc = "range" /\ ~worker'[v].podStarted
<1>1. \/ worker' = worker
      \/ /\ worker' = [worker EXCEPT ![u] = [PW!NoWorker EXCEPT !.pc = "range"]]
         /\ ~podUpdates[u].made
  BY DEF PW!UpdatePod, PW!UpdatePodIgnored, PW!UpdatePodReturns, PW!UpdatePodDispatch
<1>2. [PW!NoWorker EXCEPT !.pc = "range"].pc = "range"
      /\ ~[PW!NoWorker EXCEPT !.pc = "range"].podStarted
  BY DEF PW!NoWorker
<1> QED
  BY <1>1, <1>2, WorkerShape

\* The positions of managePodLoop around its steps.
LEMMA WorkerMoves ==
  ASSUME Workers!IInv, NEW u \in UIDs
  PROVE  LET same == worker'[u].podStarted = worker[u].podStarted
         IN
         /\ (\/ PW!Receive(u) \/ PW!AllowPodStart(u) \/ PW!GetNewerThan(u)
             \/ PW!ContextForWorker(u) \/ PW!AcknowledgeTerminating(u) \/ PW!CompleteSync(u)
             \/ PW!CompleteTerminating(u) \/ PW!CompleteTerminated(u) \/ PW!CompleteWork(u))
              => \A v \in UIDs : v # u => worker'[v] = worker[v]
         /\ PW!Receive(u) =>
              /\ worker[u].pc = "range" /\ same
              /\ worker'[u].pc = IF worker[u].podStarted THEN "status" ELSE "start"
         /\ PW!AllowPodStart(u) => worker[u].pc = "start" /\ worker'[u].pc = "status"
         /\ PW!GetNewerThan(u) => worker[u].pc = "status" /\ worker'[u].pc = "context" /\ same
         /\ PW!ContextForWorker(u) =>
              worker[u].pc = "context" /\ worker'[u].pc \in {"acknowledge", "sync"} /\ same
         /\ PW!AcknowledgeTerminating(u) =>
              worker[u].pc = "acknowledge" /\ worker'[u].pc = "sync" /\ same
         /\ PW!CompleteSync(u) \/ PW!CompleteTerminating(u) =>
              worker[u].pc = "sync" /\ worker'[u].pc = "queueNext" /\ same
         /\ PW!CompleteTerminated(u) =>
              worker[u].pc = "sync" /\ worker'[u].pc = "none" /\ ~worker'[u].podStarted
         /\ PW!CompleteWork(u) => worker'[u].pc = "range" /\ same
<1> USE WorkerShape DEF Workers!Worker, PW!At, PW!Goto
<1>1. PW!Receive(u) =>
        /\ \A v \in UIDs : v # u => worker'[v] = worker[v]
        /\ worker[u].pc = "range" /\ worker'[u].podStarted = worker[u].podStarted
        /\ worker'[u].pc = IF worker[u].podStarted THEN "status" ELSE "start"
  <2> DEFINE w == [worker[u] EXCEPT !.cur = Head(podUpdates[u].buf),
                                    !.pc = IF worker[u].podStarted THEN "status" ELSE "start"]
  <2>1. /\ w.podStarted = worker[u].podStarted
        /\ w.pc = IF worker[u].podStarted THEN "status" ELSE "start"
    OBVIOUS
  <2>2. PW!Receive(u) => worker' = [worker EXCEPT ![u] = w] /\ worker[u].pc = "range"
    BY DEF PW!Receive
  <2> HIDE DEF w
  <2> QED
    BY <2>1, <2>2
<1>2. PW!AllowPodStart(u) =>
        /\ \A v \in UIDs : v # u => worker'[v] = worker[v]
        /\ worker[u].pc = "start" /\ worker'[u].pc = "status"
  BY DEF PW!AllowPodStart, PW!IsStaticPod
<1>3. ASSUME NEW pc, PW!Goto(u, pc)
      PROVE  /\ \A v \in UIDs : v # u => worker'[v] = worker[v]
             /\ worker'[u].pc = pc /\ worker'[u].podStarted = worker[u].podStarted
  BY <1>3
<1>4. PW!GetNewerThan(u) => PW!Goto(u, "context") /\ worker[u].pc = "status"
  BY DEF PW!GetNewerThan
<1>5. PW!ContextForWorker(u) =>
        (PW!Goto(u, "acknowledge") \/ PW!Goto(u, "sync")) /\ worker[u].pc = "context"
  BY DEF PW!ContextForWorker
<1>6. PW!AcknowledgeTerminating(u) =>
        /\ \A v \in UIDs : v # u => worker'[v] = worker[v]
        /\ worker[u].pc = "acknowledge" /\ worker'[u].pc = "sync"
        /\ worker'[u].podStarted = worker[u].podStarted
  BY DEF PW!AcknowledgeTerminating
<1>7. PW!CompleteSync(u) \/ PW!CompleteTerminating(u) =>
        PW!Goto(u, "queueNext") /\ worker[u].pc = "sync"
  BY DEF PW!CompleteSync, PW!CompleteTerminating, PW!Synced
<1>8. PW!CompleteTerminated(u) =>
        /\ \A v \in UIDs : v # u => worker'[v] = worker[v]
        /\ worker[u].pc = "sync" /\ worker'[u].pc = "none" /\ ~worker'[u].podStarted
  BY DEF PW!CompleteTerminated, PW!Synced, PW!Finish, PW!NoWorker
<1>9. PW!CompleteWork(u) => PW!Goto(u, "range")
  BY DEF PW!CompleteWork
<1> HIDE DEF PW!Goto
<1> QED
  BY <1>1, <1>2, <1>3, <1>4, <1>5, <1>6, <1>7, <1>8, <1>9

\* Set stores the object and hands it, at most, to the worker of its pod.
LEMMA SetEffect ==
  ASSUME Store!CacheIInv, \A c \in UIDs : call[c] # Cache!Idle => call[c].uid = c,
         NEW u \in UIDs, NEW s \in {"running", "completed", "empty"}, NEW t \in Times,
         Cache!Set(u, s, t)
  PROVE  /\ call' = call
         /\ pods'[u].status = s
         /\ ch'[u] = ch[u] \/ (ch'[u].status = s /\ call[u] # Cache!Idle)
         /\ \A v \in UIDs : v # u => pods'[v] = pods[v] /\ ch'[v] = ch[v]
<1>1. /\ pods \in [UIDs -> Store!Data \cup {Store!NoData}]
      /\ t \in Store!Times /\ MaxTime \in Nat
  BY KubeletAssumption DEF Store!CacheIInv, Store!CacheTypeOK, Times, Store!Times
<1>2. /\ pods' = [pods EXCEPT ![u] = [status |-> s, modified |-> t]]
      /\ Store!Notify({u}, t)
  BY SameCache DEF Store!Set
<1>3. pods'[u] = [status |-> s, modified |-> t] /\ [status |-> s, modified |-> t] \in Store!Data
  BY <1>1, <1>2 DEF Store!Data
<1>4. pods'[u] # Store!NoData
  BY <1>1, <1>3 DEF Store!NoData, Store!NoTime, Store!Times
<1>5. ASSUME NEW c \in UIDs, c \in subscribers[u]
      PROVE  c = u /\ call[c].uid = u /\ call[c] # Cache!Idle
  BY <1>5, SameCache DEF Store!CacheIInv, Store!NotifyNeverBlocks
<1>6. Store!Get(u)' = pods'[u]
  BY <1>4 DEF Store!Get
<1>7. call' = call
  BY <1>2 DEF Store!Notify
<1>8. ASSUME NEW c \in UIDs, c \in Store!Woken(u, t)
      PROVE  c = u /\ call[u] # Cache!Idle /\ ch'[u].status = s
  <2>1. c = u /\ call[u].uid = u /\ call[u] # Cache!Idle
    BY <1>5, <1>8 DEF Store!Woken
  <2>2. ch'[u] = Store!Get(u)'
    BY <2>1, <1>2, <1>7, <1>8 DEF Store!Notify, Store!Get
  <2> QED
    BY <2>1, <2>2, <1>3, <1>6
<1>9. ASSUME NEW c \in UIDs, c \notin Store!Woken(u, t)
      PROVE  ch'[c] = ch[c]
  BY <1>2, <1>9 DEF Store!Notify
<1> QED
  BY <1>1, <1>2, <1>3, <1>7, <1>8, <1>9

-----------------------------------------------------------------------------
(* Containers and their statuses *)

LEMMA ContainerSet ==
  ASSUME NEW u \in UIDs
  PROVE  /\ Containers(u) = 1..Len(HasCommand[u]) /\ Len(HasCommand[u]) \in Nat
         /\ Cardinality(Containers(u)) = Len(HasCommand[u])
         /\ Commands(u, 1) = {c \in Containers(u) : HasCommand[u][c]}
<1>1. HasCommand[u] \in Seq(BOOLEAN)
  BY KubeletAssumption
<1>2. Containers(u) = 1..Len(HasCommand[u]) /\ Len(HasCommand[u]) \in Nat
  BY <1>1 DEF Containers
<1>3. Cardinality(1..Len(HasCommand[u])) = Len(HasCommand[u])
  BY <1>2, FS_Interval
<1> QED
  BY <1>2, <1>3 DEF Commands

\* The containers a worker has read in this sync, and those it has not.
LEMMA ReadingOrder ==
  ASSUME KubeletTypeOK, NEW u \in UIDs
  PROVE  /\ Len(local[u].seen) \in Nat /\ DOMAIN local[u].seen = 1..Len(local[u].seen)
         /\ \A i \in DOMAIN local[u].seen : local[u].seen[i] \in {Running, Absent} \cup Exits
         /\ AllRead(u) => DOMAIN local[u].seen = Containers(u)
         /\ ~AllRead(u) => /\ Len(local[u].seen) + 1 \in Containers(u)
                           /\ Len(local[u].seen) + 1 <= Cardinality(Containers(u))
<1>1. local[u].seen \in Seq({Running, Absent} \cup Exits)
  BY DEF KubeletTypeOK, Local
<1>2. /\ Len(local[u].seen) \in Nat /\ DOMAIN local[u].seen = 1..Len(local[u].seen)
      /\ \A i \in DOMAIN local[u].seen : local[u].seen[i] \in {Running, Absent} \cup Exits
  BY <1>1
<1>3. Len(local[u].seen) <= Cardinality(Containers(u))
  BY DEF KubeletTypeOK
<1> QED
  BY <1>2, <1>3, ContainerSet DEF AllRead

LEMMA StatusesDiffer ==
  /\ Running # Absent /\ Running.state = "running" /\ Absent.state = "absent"
  /\ Waiting.state = "waiting" /\ Lost.state = "lost"
  /\ \A e \in Exits : e.state = "exited" /\ e # Running /\ e # Absent
  /\ Exited(0) \in Exits /\ Exited(0).code = 0
BY DEF Running, Absent, Waiting, Lost, Exits, Exited

\* Replacing the statuses of one pod.
LEMMA PerContainerUpdate ==
  ASSUME NEW f, NEW S, PerContainer(f, S), NEW u \in UIDs,
         NEW row \in [Containers(u) -> S], NEW g, g = [f EXCEPT ![u] = row]
  PROVE  /\ PerContainer(g, S)
         /\ g[u] = row
         /\ \A v \in UIDs : v # u => g[v] = f[v]
<1>1. /\ f = [v \in UIDs |-> [c \in Containers(v) |-> f[v][c]]]
      /\ \A v \in UIDs : \A c \in Containers(v) : f[v][c] \in S
  BY DEF PerContainer
<1>2. DOMAIN f = UIDs /\ \A v \in UIDs : f[v] = [c \in Containers(v) |-> f[v][c]]
  <2>1. DOMAIN f = UIDs
    BY <1>1
  <2>2. ASSUME NEW v \in UIDs PROVE f[v] = [c \in Containers(v) |-> f[v][c]]
    BY <1>1
  <2> QED
    BY <2>1, <2>2
<1>3. /\ g = [v \in UIDs |-> g[v]] /\ g[u] = row
      /\ \A v \in UIDs : v # u => g[v] = f[v]
  BY <1>2
<1>5. ASSUME NEW v \in UIDs PROVE g[v] = [c \in Containers(v) |-> g[v][c]]
  BY <1>2, <1>3
<1>6. g = [v \in UIDs |-> [c \in Containers(v) |-> g[v][c]]]
  BY <1>3, <1>5
<1>7. PerContainer(g, S)
  BY <1>1, <1>3, <1>6 DEF PerContainer
<1> QED
  BY <1>3, <1>7

\* What a status convertToAPIContainerStatuses makes is.
LEMMA ConvertValue ==
  ASSUME NEW s \in {Running, Absent} \cup Exits,
         NEW r \in {Running, Absent, Waiting, Lost} \cup Exits
  PROVE  /\ Convert(s, r) \in {Running, Absent, Waiting, Lost} \cup Exits
         /\ s # Absent => Convert(s, r) = s
         /\ s = Absent /\ r.state = "exited" => Convert(s, r) = r
         /\ Convert(s, r).state = "exited" => Convert(s, r) \in {s, r}
<1>1. CASE s # Absent
  BY <1>1 DEF Convert
<1>2. CASE s = Absent /\ r = Running
  BY <1>2, StatusesDiffer DEF Convert
<1>3. CASE s = Absent /\ r # Running /\ r.state \in {"exited", "lost"}
  BY <1>3, StatusesDiffer DEF Convert
<1>4. CASE s = Absent /\ r # Running /\ r.state \notin {"exited", "lost"}
  BY <1>4, StatusesDiffer DEF Convert
<1> QED
  BY <1>1, <1>2, <1>3, <1>4

\* OnAdd goes on with the first of the commands that are left, if any.
LEMMA NextCommandValue ==
  ASSUME NEW u \in UIDs, NEW i \in Nat, NEW m
  PROVE  \/ /\ Commands(u, i) = {}
            /\ NextCommand(m, u, i) = [m EXCEPT !.pc = "sleep"]
         \/ \E n \in Commands(u, i) :
              /\ \A d \in Commands(u, i) : n <= d
              /\ NextCommand(m, u, i) = [m EXCEPT !.pc = "command", !.next = n]
<1>1. CASE Commands(u, i) = {}
  BY <1>1 DEF NextCommand
<1>2. CASE Commands(u, i) # {}
  <2>1. Commands(u, i) \in SUBSET Nat
    BY ContainerSet DEF Commands
  <2>2. \E n \in Commands(u, i) : \A d \in Commands(u, i) : n <= d
    <3> DEFINE R == OpToRel(<, Nat)
    <3>1. IsWellFoundedOn(R, Nat)
      BY NatLessThanWellFounded
    <3>2. \A c, d \in Nat : <<d, c>> \in R <=> d < c
      BY DEF OpToRel
    <3> HIDE DEF R
    <3>3. PICK n \in Commands(u, i) : \A d \in Commands(u, i) : ~(<<d, n>> \in R)
      BY <3>1, <1>2, <2>1, WFMin
    <3>4. ASSUME NEW d \in Commands(u, i) PROVE n <= d
      <4>1. n \in Nat /\ d \in Nat
        BY <2>1
      <4>2. ~(d < n)
        BY <4>1, <3>2, <3>3
      <4> QED
        BY <4>1, <4>2
    <3> QED
      BY <3>4
  <2> DEFINE n == CHOOSE c \in Commands(u, i) : \A d \in Commands(u, i) : c <= d
  <2>3. n \in Commands(u, i) /\ \A d \in Commands(u, i) : n <= d
    BY <2>2
  <2>4. NextCommand(m, u, i) = [m EXCEPT !.pc = "command", !.next = n]
    BY <1>2 DEF NextCommand
  <2> HIDE DEF n
  <2> QED
    BY <2>3, <2>4
<1> QED
  BY <1>1, <1>2

-----------------------------------------------------------------------------
(* The inductive invariant: types *)

\* The position and local variables of the main loop.
LEMMA MainTypes ==
  ASSUME KubeletTypeOK, MainOK, Store!CacheIInv, MainStep
  PROVE  main' \in Main
<1>1. main \in Main /\ main.uid \in UIDs
  BY DEF KubeletTypeOK, MainOK, MainStep, CallUpdatePod, RunCommand, ExitGet, ExitMark,
         ExitCode, ReadMainClock, MainSet
<1>2. NoMain \in Main
  BY KubeletAssumption DEF NoMain, Main, AllRequests, Pointers, Times
<1>3. ASSUME NEW m \in Main, NEW i \in Nat
      PROVE  NextCommand(m, main.uid, i) \in Main
  <2>1. Commands(main.uid, i) \subseteq Nat
    BY <1>1, ContainerSet DEF Commands
  <2>2. ASSUME NEW n \in Nat
        PROVE  /\ [m EXCEPT !.pc = "sleep"] \in Main
               /\ [m EXCEPT !.pc = "command", !.next = n] \in Main
    BY DEF Main, OnAddPCs
  <2>3. \/ NextCommand(m, main.uid, i) = [m EXCEPT !.pc = "sleep"]
        \/ \E n \in Commands(main.uid, i) :
             NextCommand(m, main.uid, i) = [m EXCEPT !.pc = "command", !.next = n]
    BY <1>1, NextCommandValue
  <2> QED
    BY <2>1, <2>2, <2>3
<1>4. CASE CallUpdatePod
  BY <1>1, <1>2, <1>3, <1>4 DEF CallUpdatePod
<1>5. CASE RunCommand
  BY <1>1, <1>5 DEF RunCommand, Main, OnAddPCs, ExitPCs
<1>6. CASE ExitGet
  <2>1. Cache!Get(main.uid).status \in Pointers
    <3>1. Store!Get(main.uid) \in Store!Data
      BY <1>1, KubeletAssumption, Store!GetIsData DEF Store!CacheIInv
    <3> QED
      BY <3>1, SameCache DEF Store!Data, Pointers
  <2> QED
    BY <1>1, <1>6, <2>1 DEF ExitGet, Main, OnAddPCs, ExitPCs
<1>7. CASE ExitMark \/ ExitCode
  BY <1>1, <1>7 DEF ExitMark, ExitCode, Main, OnAddPCs, ExitPCs
<1>8. CASE ReadMainClock
  <2>1. PICK t \in 1..MaxTime :
          main' = IF main.pc = "sleep"
                  THEN [main EXCEPT !.pc = "completed", !.ptr = "completed", !.time = t]
                  ELSE [main EXCEPT !.pc = "set", !.time = t]
    BY <1>8 DEF ReadMainClock
  <2>2. t \in Times
    BY KubeletAssumption DEF Times
  <2> QED
    BY <1>1, <2>1, <2>2 DEF Main, OnAddPCs, ExitPCs, Pointers
<1>9. CASE MainSet
  <2>0. 0 \in Times /\ 0 \in ExitCodes \cup {0}
    BY KubeletAssumption DEF Times
  <2> DEFINE m == [main EXCEPT !.code = 0, !.ptr = "none", !.time = 0]
  <2>1. m \in Main
    BY <1>1, <2>0 DEF Main, Pointers
  <2>2. main.next + 1 \in Nat
    BY <1>1 DEF Main
  <2>3. main' = NoMain \/ main' = NextCommand(m, main.uid, main.next + 1)
    BY <1>9 DEF MainSet
  <2> HIDE DEF m
  <2> QED
    BY <1>2, <1>3, <1>9, <2>1, <2>2, <2>3 DEF MainSet
<1> QED
  BY <1>4, <1>5, <1>6, <1>7, <1>8, <1>9 DEF MainStep

\* The clock gives a time that is not zero.
LEMMA ClockTypes ==
  ASSUME now \in [UIDs -> Times], NEW u \in UIDs, NEW t, ReadClock(u, t)
  PROVE  t \in Times /\ now' \in [UIDs -> Times]
BY KubeletAssumption DEF ReadClock, Times

\* The local variables of managePodLoop.
LEMMA LocalTypes ==
  ASSUME KubeletTypeOK, Store!CacheIInv, NEW u \in UIDs, WorkerStep(u)
  PROVE  local' \in [UIDs -> Local] /\ now' \in [UIDs -> Times]
<1>1. local \in [UIDs -> Local] /\ now \in [UIDs -> Times] /\ local[u] \in Local
  BY DEF KubeletTypeOK
<1>2. CASE InsertGet(u)
  <2>1. CASE u \in managed
    <3>1. PICK t \in 1..MaxTime :
            /\ ReadClock(u, t)
            /\ local' = [local EXCEPT ![u].insert = "set", ![u].time = t]
      BY <1>2, <2>1 DEF InsertGet
    <3>2. t \in Times /\ now' \in [UIDs -> Times]
      BY <1>1, <3>1, ClockTypes
    <3>3. [local[u] EXCEPT !.insert = "set", !.time = t] \in Local
      BY <1>1, <3>2 DEF Local
    <3>4. local' = [local EXCEPT ![u] = [local[u] EXCEPT !.insert = "set", !.time = t]]
      BY <3>1
    <3> QED
      BY <1>1, <3>2, <3>3, <3>4
  <2>2. CASE u \notin managed
    <3>1. [local[u] EXCEPT !.insert = "done"] \in Local
      BY <1>1 DEF Local
    <3> QED
      BY <1>1, <1>2, <2>2, <3>1 DEF InsertGet
  <2> QED
    BY <2>1, <2>2
<1>3. CASE InsertSet(u)
  <2>0. 0 \in Times
    BY KubeletAssumption DEF Times
  <2>1. [local[u] EXCEPT !.insert = "done", !.time = 0] \in Local
    BY <1>1, <2>0 DEF Local
  <2>2. local' = [local EXCEPT ![u] = [local[u] EXCEPT !.insert = "done", !.time = 0]]
    BY <1>1, <1>3 DEF InsertSet
  <2> QED
    BY <1>1, <1>3, <2>1, <2>2 DEF InsertSet
<1>4. CASE WaitForStatus(u) \/ WorkerOnly(u)
  BY <1>1, <1>4 DEF WaitForStatus, WorkerOnly
<1>5. CASE GetNewerThan(u)
  <2>1. ch[u].status \in Pointers
    BY DEF Store!CacheIInv, Store!CacheTypeOK, Store!Data, Store!NoData, Pointers
  <2>2. [local[u] EXCEPT !.ptr = ch[u].status] \in Local
    BY <1>1, <2>1 DEF Local
  <2> QED
    BY <1>1, <1>5, <2>2 DEF GetNewerThan
<1>6. CASE ReadContainer(u)
  <2> DEFINE x == Look(u, local[u].ptr, Len(local[u].seen) + 1)
             q == Append(local[u].seen, x)
  <2>1. local[u].seen \in Seq({Running, Absent} \cup Exits)
    BY <1>1 DEF Local
  <2>2. Len(local[u].seen) + 1 \in Containers(u)
    BY <1>6, ReadingOrder DEF ReadContainer
  <2>3. x \in {Running, Absent} \cup Exits
    BY <2>2, StatusesDiffer DEF Look, KubeletTypeOK, PerContainer
  <2> HIDE DEF x
  <2>4. q \in Seq({Running, Absent} \cup Exits)
    BY <2>1, <2>3
  <2>5. local' = [local EXCEPT ![u] = [local[u] EXCEPT !.seen = q]] /\ now' = now
    BY <1>6 DEF ReadContainer, x
  <2> HIDE DEF q
  <2>6. [local[u] EXCEPT !.seen = q] \in Local
    BY <1>1, <2>4 DEF Local
  <2> QED
    BY <1>1, <2>5, <2>6
<1>7. CASE Report(u)
  <2>1. [local[u] EXCEPT !.ptr = "none"] \in Local
    BY <1>1 DEF Local, Pointers
  <2> QED
    BY <1>1, <1>7, <2>1 DEF Report
<1>8. CASE SyncReturns(u)
  <2>1. PICK t \in 1..MaxTime :
          /\ ReadClock(u, t)
          /\ local' = [local EXCEPT ![u].lastSync = t, ![u].seen = <<>>]
    BY <1>8 DEF SyncReturns
  <2>2. t \in Times /\ now' \in [UIDs -> Times]
    BY <1>1, <2>1, ClockTypes
  <2>3. [local[u] EXCEPT !.lastSync = t, !.seen = <<>>] \in Local
    <3>1. ASSUME NEW q \in Seq({Running, Absent} \cup Exits)
          PROVE  [local[u] EXCEPT !.lastSync = t, !.seen = q] \in Local
      BY <1>1, <2>2 DEF Local
    <3>2. <<>> \in Seq({Running, Absent} \cup Exits)
      OBVIOUS
    <3> QED
      BY <3>1, <3>2
  <2>4. local' = [local EXCEPT ![u] = [local[u] EXCEPT !.lastSync = t, !.seen = <<>>]]
    BY <2>1
  <2> QED
    BY <1>1, <2>2, <2>3, <2>4
<1> QED
  BY <1>2, <1>3, <1>4, <1>5, <1>6, <1>7, <1>8 DEF WorkerStep

\* The statuses that are written: into the object, and into the report.
LEMMA HeapWrite ==
  ASSUME KubeletTypeOK, NEW u \in UIDs, u = main.uid, NEW value \in Exits, WriteHeap(u, value)
  PROVE  /\ PerContainer(heap, {Running} \cup Exits)'
         /\ \A c \in Containers(u) :
              heap'[u][c] = IF main.ptr = "running" /\ c = main.next THEN value ELSE heap[u][c]
         /\ \A v \in UIDs : v # u => heap'[v] = heap[v]
<1> DEFINE row == [c \in Containers(u) |-> IF main.ptr = "running" /\ c \in Named(u, main.next)
                                           THEN value ELSE heap[u][c]]
<1>1. PerContainer(heap, {Running} \cup Exits)
  BY DEF KubeletTypeOK
<1>2. row \in [Containers(u) -> {Running} \cup Exits]
  BY <1>1 DEF PerContainer
<1>3. \A c \in Containers(u) :
        row[c] = IF main.ptr = "running" /\ c = main.next THEN value ELSE heap[u][c]
  BY DEF Named
<1>4. heap' = [heap EXCEPT ![u] = row]
  BY DEF WriteHeap
<1> HIDE DEF row
<1>5. /\ PerContainer(heap', {Running} \cup Exits)
      /\ heap'[u] = row
      /\ \A v \in UIDs : v # u => heap'[v] = heap[v]
  <2>1. ASSUME NEW q \in [Containers(u) -> {Running} \cup Exits], heap' = [heap EXCEPT ![u] = q]
        PROVE  PerContainer(heap', {Running} \cup Exits)
    BY <1>1, <2>1, PerContainerUpdate
  <2>2. DOMAIN heap = UIDs
    BY <1>1 DEF PerContainer
  <2> QED
    BY <2>1, <2>2, <1>1, <1>2, <1>4
<1>6. PerContainer(heap, {Running} \cup Exits)'
  BY <1>5 DEF PerContainer, Containers, Exits, Exited, Running
<1> QED
  BY <1>3, <1>5, <1>6

LEMMA HeapReset ==
  ASSUME KubeletTypeOK, NEW u \in UIDs,
         heap' = [heap EXCEPT ![u] = [c \in Containers(u) |-> Running]]
  PROVE  /\ PerContainer(heap, {Running} \cup Exits)'
         /\ \A c \in Containers(u) : heap'[u][c] = Running
         /\ \A v \in UIDs : v # u => heap'[v] = heap[v]
<1>1. PerContainer(heap, {Running} \cup Exits)
  BY DEF KubeletTypeOK
<1>2. [c \in Containers(u) |-> Running] \in [Containers(u) -> {Running} \cup Exits]
  OBVIOUS
<1>3. PerContainer(heap', {Running} \cup Exits)
  BY <1>1, <1>2, PerContainerUpdate
<1>4. DOMAIN heap = UIDs
  BY <1>1 DEF PerContainer
<1>5. PerContainer(heap, {Running} \cup Exits)'
  BY <1>3 DEF PerContainer, Containers, Exits, Exited, Running
<1> QED
  BY <1>4, <1>5

LEMMA EndedWrite ==
  ASSUME KubeletTypeOK, MainOK, RunCommand
  PROVE  \E code \in ExitCodes :
           /\ main' = [main EXCEPT !.pc = "get", !.code = code]
           /\ PerContainer(ended, {Absent} \cup Exits)'
           /\ \A v \in UIDs : \A c \in Containers(v) :
                ended'[v][c] = IF v = main.uid /\ c = main.next THEN Exited(code) ELSE ended[v][c]
<1> DEFINE u == main.uid  n == main.next
<1>1. PICK code \in ExitCodes :
        /\ main' = [main EXCEPT !.pc = "get", !.code = code]
        /\ ended' = [ended EXCEPT ![u][n] = Exited(code)]
  BY DEF RunCommand
<1>2. /\ u \in UIDs /\ n \in Containers(u)
      /\ PerContainer(ended, {Absent} \cup Exits) /\ Exited(code) \in Exits
  BY DEF RunCommand, MainOK, KubeletTypeOK, Commands, Exits
<1>3. ended[u] = [c \in Containers(u) |-> ended[u][c]]
  BY <1>2 DEF PerContainer
<1> DEFINE row == [ended[u] EXCEPT ![n] = Exited(code)]
<1>4. /\ row \in [Containers(u) -> {Absent} \cup Exits]
      /\ \A c \in Containers(u) : row[c] = IF c = n THEN Exited(code) ELSE ended[u][c]
  BY <1>2, <1>3 DEF PerContainer
<1>5. ended' = [ended EXCEPT ![u] = row]
  BY <1>1
<1> HIDE DEF row
<1>6. /\ PerContainer(ended', {Absent} \cup Exits)
      /\ ended'[u] = row
      /\ \A v \in UIDs : v # u => ended'[v] = ended[v]
  <2>1. ASSUME NEW q \in [Containers(u) -> {Absent} \cup Exits], ended' = [ended EXCEPT ![u] = q]
        PROVE  PerContainer(ended', {Absent} \cup Exits)
    BY <1>2, <2>1, PerContainerUpdate
  <2>2. DOMAIN ended = UIDs
    BY <1>2 DEF PerContainer
  <2> QED
    BY <2>1, <2>2, <1>2, <1>4, <1>5
<1>7. PerContainer(ended, {Absent} \cup Exits)'
  BY <1>6 DEF PerContainer, Containers, Exits, Exited, Absent
<1>8. ASSUME NEW v \in UIDs, NEW c \in Containers(v)
      PROVE  ended'[v][c] = IF v = u /\ c = n THEN Exited(code) ELSE ended[v][c]
  BY <1>4, <1>6
<1> QED
  BY <1>1, <1>7, <1>8

LEMMA ReportWrite ==
  ASSUME KubeletTypeOK, NEW u \in UIDs, Report(u)
  PROVE  /\ PerContainer(reported, {Running, Absent, Waiting, Lost} \cup Exits)'
         /\ \A c \in Containers(u) :
              /\ Seen(u, c) = local[u].seen[c]
              /\ reported'[u][c] = Convert(Seen(u, c), reported[u][c])
         /\ \A v \in UIDs : v # u => reported'[v] = reported[v]
<1> DEFINE S == {Running, Absent, Waiting, Lost} \cup Exits
           row == [c \in Containers(u) |-> Convert(local[u].seen[c], reported[u][c])]
<1>1. PerContainer(reported, S)
  BY DEF KubeletTypeOK
<1>2. \A c \in Containers(u) : /\ Seen(u, c) = local[u].seen[c]
                               /\ Seen(u, c) \in {Running, Absent} \cup Exits
  BY ReadingOrder DEF Report, Seen
<1>3. \A c \in Containers(u) : Convert(local[u].seen[c], reported[u][c]) \in S
  BY <1>1, <1>2, ConvertValue DEF PerContainer
<1>4. /\ row \in [Containers(u) -> S]
      /\ \A c \in Containers(u) : row[c] = Convert(Seen(u, c), reported[u][c])
  BY <1>2, <1>3
<1>5. reported' = [reported EXCEPT ![u] = row]
  BY DEF Report
<1> HIDE DEF row, S
<1>6. /\ PerContainer(reported', S)
      /\ reported'[u] = row
      /\ \A v \in UIDs : v # u => reported'[v] = reported[v]
  <2>1. ASSUME NEW q \in [Containers(u) -> S], reported' = [reported EXCEPT ![u] = q]
        PROVE  PerContainer(reported', S)
    BY <1>1, <2>1, PerContainerUpdate
  <2>2. DOMAIN reported = UIDs
    BY <1>1 DEF PerContainer
  <2> QED
    BY <2>1, <2>2, <1>1, <1>4, <1>5
<1>7. PerContainer(reported, S)'
  BY <1>6 DEF PerContainer, S, Containers, Exits, Exited, Running, Absent, Waiting, Lost
<1> QED
  BY <1>2, <1>4, <1>6, <1>7 DEF S

LEMMA StatusesKept ==
  ASSUME KubeletTypeOK
  PROVE  /\ heap' = heap => PerContainer(heap, {Running} \cup Exits)'
         /\ ended' = ended => PerContainer(ended, {Absent} \cup Exits)'
         /\ reported' = reported =>
              PerContainer(reported, {Running, Absent, Waiting, Lost} \cup Exits)'
BY DEF KubeletTypeOK, PerContainer, Containers, Exits, Exited, Running, Absent, Waiting, Lost

\* The number of containers read in a sync is within bounds.
LEMMA SeenBound ==
  ASSUME KubeletTypeOK, NEW u \in UIDs, WorkerStep(u), NEW v \in UIDs
  PROVE  Len(local'[v].seen) <= Cardinality(Containers(v))
<1>1. local \in [UIDs -> Local] /\ \A x \in UIDs : Len(local[x].seen) <= Cardinality(Containers(x))
  BY DEF KubeletTypeOK
<1>2. CASE local'[v].seen = local[v].seen
  BY <1>1, <1>2
<1>3. CASE v # u
  <2>1. local'[v] = local[v]
    BY <1>1, <1>3 DEF WorkerStep, InsertGet, InsertSet, WaitForStatus, GetNewerThan, ReadContainer,
                      Report, SyncReturns, WorkerOnly
  <2> QED
    BY <1>2, <2>1
<1>4. CASE v = u /\ ReadContainer(u)
  <2> DEFINE q == Append(local[u].seen, Look(u, local[u].ptr, Len(local[u].seen) + 1))
  <2>1. Len(q) = Len(local[u].seen) + 1
    <3>1. local[u].seen \in Seq({Running, Absent} \cup Exits)
      BY <1>1 DEF Local
    <3>2. ASSUME NEW T, NEW s \in Seq(T), NEW x PROVE Len(Append(s, x)) = Len(s) + 1
      OBVIOUS
    <3> QED
      BY <3>1, <3>2
  <2>2. local' = [local EXCEPT ![u].seen = q]
    BY <1>4 DEF ReadContainer
  <2> HIDE DEF q
  <2>3. local'[u].seen = q
    BY <1>1, <2>2 DEF Local
  <2> QED
    BY <1>4, <2>1, <2>3, ReadingOrder DEF ReadContainer
<1>5. CASE v = u /\ SyncReturns(u)
  <2>1. local'[u].seen = <<>>
    BY <1>1, <1>5 DEF SyncReturns, Local
  <2>2. Cardinality(Containers(u)) \in Nat /\ Len(<<>>) = 0
    BY ContainerSet
  <2> QED
    BY <1>5, <2>1, <2>2
<1>6. CASE v = u /\ \/ InsertGet(u) \/ InsertSet(u) \/ WaitForStatus(u) \/ GetNewerThan(u)
                    \/ Report(u) \/ WorkerOnly(u)
  <2>1. \/ local' = local
        \/ \E t : local' = [local EXCEPT ![u].insert = "set", ![u].time = t]
        \/ local' = [local EXCEPT ![u].insert = "done"]
        \/ \E x : local' = [local EXCEPT ![u].ptr = x]
    BY <1>6 DEF InsertGet, InsertSet, WaitForStatus, GetNewerThan, Report, WorkerOnly
  <2>2. local'[v].seen = local[v].seen
    BY <1>1, <1>6, <2>1 DEF Local
  <2> QED
    BY <1>2, <2>2
<1> QED
  BY <1>3, <1>4, <1>5, <1>6 DEF WorkerStep

LEMMA TypesStep ==
  ASSUME KubeletTypeOK, MainOK, Store!CacheIInv, Next
  PROVE  KubeletTypeOK'
<1> DEFINE Srcs == {"absent", "added", "deleting", "removed"}
<1>0. /\ source \in [UIDs -> Srcs] /\ main \in Main
      /\ local \in [UIDs -> Local] /\ now \in [UIDs -> Times]
      /\ \A x \in UIDs : Len(local[x].seen) <= Cardinality(Containers(x))
  BY DEF KubeletTypeOK
<1>1. SUFFICES
        /\ source' \in [UIDs -> Srcs] /\ main' \in Main
        /\ local' \in [UIDs -> Local] /\ now' \in [UIDs -> Times]
        /\ \A x \in UIDs : Len(local'[x].seen) <= Cardinality(Containers(x))
        /\ PerContainer(heap, {Running} \cup Exits)'
        /\ PerContainer(ended, {Absent} \cup Exits)'
        /\ PerContainer(reported, {Running, Absent, Waiting, Lost} \cup Exits)'
  BY DEF KubeletTypeOK, Main, Local, Times, OnAddPCs, ExitPCs, Pointers, Exits, Exited, Running,
         Absent, Containers, AllRequests, Update, DeleteUpdate, Kill
<1>2. ASSUME NEW u \in UIDs, HandlerPodAdd(u) \/ HandlePodUpdate(u) \/ HandlePodRemove(u)
      PROVE  source' \in [UIDs -> Srcs] /\ main' \in Main
  <2>1. \E r \in AllRequests, s \in Srcs, m \in BOOLEAN : TakeEvent(u, r, s, m)
    BY <1>2 DEF HandlerPodAdd, HandlePodUpdate, HandlePodRemove, AllRequests
  <2>2. PICK r \in AllRequests, s \in Srcs, m \in BOOLEAN : TakeEvent(u, r, s, m)
    BY <2>1
  <2>3. [main EXCEPT !.pc = "workers", !.uid = u, !.request = r] \in Main
    BY <1>0 DEF Main
  <2> QED
    BY <1>0, <2>2, <2>3 DEF TakeEvent
<1>3. ASSUME NEW u \in UIDs, HandlerPodAdd(u) \/ HandlePodUpdate(u) \/ HandlePodRemove(u)
      PROVE  UNCHANGED <<local, now, heap, ended, reported>>
  BY <1>3 DEF HandlerPodAdd, HandlePodUpdate, HandlePodRemove, TakeEvent
<1>4. CASE MainStep
  <2>1. main' \in Main
    BY <1>4, MainTypes
  <2>2. main.pc # "range" /\ UNCHANGED <<source, local, reported>>
    BY <1>4 DEF MainStep, CallUpdatePod, RunCommand, ExitGet, ExitMark, ExitCode, ReadMainClock, MainSet
  <2>3. main.uid \in UIDs /\ Exited(0) \in Exits /\ Exited(main.code) \in Exits
    BY <1>0, <2>2 DEF MainOK, Main, Exits
  <2>4. now' \in [UIDs -> Times]
    <3>1. now' = now \/ \E t : ReadClock(main.uid, t)
      BY <1>4 DEF MainStep, CallUpdatePod, RunCommand, ExitGet, ExitMark, ExitCode, ReadMainClock, MainSet
    <3> QED
      BY <1>0, <2>3, <3>1, ClockTypes
  <2>5. PerContainer(ended, {Absent} \cup Exits)'
    <3>1. RunCommand \/ ended' = ended
      BY <1>4 DEF MainStep, CallUpdatePod, ExitGet, ExitMark, ExitCode, ReadMainClock, MainSet
    <3> QED
      BY <3>1, EndedWrite, StatusesKept
  <2>6. PerContainer(heap, {Running} \cup Exits)'
    <3>1. \/ heap' = heap
          \/ \E value \in Exits : WriteHeap(main.uid, value)
      BY <1>4, <2>3 DEF MainStep, CallUpdatePod, RunCommand, ExitGet, ExitMark, ExitCode,
                        ReadMainClock, MainSet
    <3> QED
      BY <2>3, <3>1, HeapWrite, StatusesKept
  <2> QED
    BY <1>0, <2>1, <2>2, <2>4, <2>5, <2>6, StatusesKept
<1>5. ASSUME NEW u \in UIDs, WorkerStep(u)
      PROVE  /\ source' \in [UIDs -> Srcs] /\ main' \in Main
             /\ local' \in [UIDs -> Local] /\ now' \in [UIDs -> Times]
             /\ \A x \in UIDs : Len(local'[x].seen) <= Cardinality(Containers(x))
             /\ PerContainer(heap, {Running} \cup Exits)'
             /\ PerContainer(ended, {Absent} \cup Exits)'
             /\ PerContainer(reported, {Running, Absent, Waiting, Lost} \cup Exits)'
  <2>1. UNCHANGED <<source, main, ended>>
    BY <1>5 DEF WorkerStep, InsertGet, InsertSet, WaitForStatus, GetNewerThan, ReadContainer,
                Report, SyncReturns, WorkerOnly
  <2>2. heap' = heap \/ heap' = [heap EXCEPT ![u] = [c \in Containers(u) |-> Running]]
    BY <1>5 DEF WorkerStep, InsertGet, InsertSet, WaitForStatus, GetNewerThan, ReadContainer,
                Report, SyncReturns, WorkerOnly
  <2>3. reported' = reported \/ Report(u)
    BY <1>5 DEF WorkerStep, InsertGet, InsertSet, WaitForStatus, GetNewerThan, ReadContainer,
                SyncReturns, WorkerOnly
  <2>4. local' \in [UIDs -> Local] /\ now' \in [UIDs -> Times]
    BY <1>5, LocalTypes
  <2>5. \A x \in UIDs : Len(local'[x].seen) <= Cardinality(Containers(x))
    BY <1>5, SeenBound
  <2>6. PerContainer(heap, {Running} \cup Exits)'
    BY <2>2, HeapReset, StatusesKept
  <2>7. PerContainer(reported, {Running, Absent, Waiting, Lost} \cup Exits)'
    BY <2>3, ReportWrite, StatusesKept
  <2>8. PerContainer(ended, {Absent} \cup Exits)'
    BY <2>1, StatusesKept
  <2> QED
    BY <1>0, <2>1, <2>4, <2>5, <2>6, <2>7, <2>8
<1>6. CASE \E u \in UIDs : HandlerPodAdd(u) \/ HandlePodUpdate(u) \/ HandlePodRemove(u)
  BY <1>0, <1>2, <1>3, <1>6, StatusesKept
<1> QED
  BY <1>4, <1>5, <1>6 DEF Next

-----------------------------------------------------------------------------
(* The inductive invariant: the main loop *)

\* Who ended stays as he ended: OnAdd runs a command once.
LEMMA EndedStays ==
  ASSUME KubeletTypeOK, MainOK, Next, NEW v \in UIDs, NEW c \in Containers(v),
         ended[v][c] # Absent
  PROVE  ended'[v][c] = ended[v][c]
<1>1. CASE RunCommand
  <2>1. PICK code \in ExitCodes :
          ended'[v][c] = IF v = main.uid /\ c = main.next THEN Exited(code) ELSE ended[v][c]
    BY <1>1, EndedWrite
  <2>2. ~(v = main.uid /\ c = main.next)
    <3>1. /\ main.next \in Commands(main.uid, 1)
          /\ \A d \in Commands(main.uid, 1) : ended[main.uid][d] # Absent <=> d < main.next
      BY <1>1 DEF RunCommand, MainOK
    <3>2. main.next \in Nat
      BY DEF KubeletTypeOK, Main
    <3> QED
      BY <3>1, <3>2
  <2> QED
    BY <2>1, <2>2
<1>2. CASE ended' = ended
  BY <1>2
<1> QED
  BY <1>1, <1>2 DEF Next, MainStep, WorkerStep, HandlerPodAdd, HandlePodUpdate, HandlePodRemove,
     TakeEvent, CallUpdatePod, ExitGet, ExitMark, ExitCode, ReadMainClock, MainSet,
     InsertGet, InsertSet, WaitForStatus, GetNewerThan, ReadContainer, Report, SyncReturns, WorkerOnly

\* What the main loop takes from the channel.
LEMMA Events ==
  ASSUME NEW u \in UIDs, HandlerPodAdd(u) \/ HandlePodUpdate(u) \/ HandlePodRemove(u)
  PROVE  \E r \in AllRequests, src \in {"added", "deleting", "removed"}, m \in BOOLEAN :
           /\ TakeEvent(u, r, src, m)
           /\ r.type = "Create" => source[u] = "absent"
<1>1. /\ Update.type # "Create" /\ DeleteUpdate.type # "Create"
      /\ Kill(TRUE).type # "Create" /\ Kill(FALSE).type # "Create"
  BY DEF Update, DeleteUpdate, Kill
<1>2. CASE HandlerPodAdd(u)
  BY <1>2 DEF HandlerPodAdd, AllRequests
<1>3. CASE HandlePodUpdate(u)
  BY <1>1, <1>3 DEF HandlePodUpdate, AllRequests
<1>4. CASE HandlePodRemove(u)
  <2>1. TakeEvent(u, Kill(TRUE), "removed", FALSE) \/ TakeEvent(u, Kill(FALSE), "removed", FALSE)
    BY <1>4 DEF HandlePodRemove
  <2> QED
    BY <1>1, <2>1 DEF AllRequests
<1> QED
  BY <1>2, <1>3, <1>4

\* The next event: the handler of an ADD finds that nothing has run.
LEMMA MainTakesEvent ==
  ASSUME KubeletIInv, NEW u \in UIDs,
         HandlerPodAdd(u) \/ HandlePodUpdate(u) \/ HandlePodRemove(u)
  PROVE  MainOK'
<1>1. KubeletTypeOK /\ main \in Main /\ source \in [UIDs -> {"absent", "added", "deleting", "removed"}]
  BY DEF KubeletIInv, KubeletTypeOK
<1>2. PICK r \in AllRequests, src \in {"added", "deleting", "removed"}, m \in BOOLEAN :
        /\ TakeEvent(u, r, src, m)
        /\ r.type = "Create" => source[u] = "absent"
  BY Events
<1>3. /\ main'.pc = "workers" /\ main'.uid = u /\ main'.request = r
      /\ source'[u] = src /\ ended' = ended
  BY <1>1, <1>2 DEF TakeEvent, Main
<1>4. source[u] = "absent" => \A c \in Containers(u) : ended[u][c] = Absent
  BY DEF KubeletIInv, PodOK, SourceOK, HandsOK
<1> QED
  BY <1>2, <1>3, <1>4 DEF MainOK, ExitPCs, Containers, Absent

\* OnAdd begins with the first command, or goes on with the next one.
LEMMA MainNextCommand ==
  ASSUME KubeletTypeOK, NEW u \in UIDs, source[u] # "absent", NEW i \in Nat \ {0}, NEW m \in Main,
         m.uid = u, \A c \in Commands(u, 1) : ended[u][c] # Absent <=> c < i,
         main' = NextCommand(m, u, i), UNCHANGED <<source, ended>>
  PROVE  MainOK'
<1>1. \A c \in Commands(u, 1) : c \in Nat /\ (c \in Commands(u, i) <=> c >= i)
  BY ContainerSet DEF Commands
<1>2. \A c \in Commands(u, i) : c \in Commands(u, 1)
  BY ContainerSet DEF Commands
<1>3. CASE Commands(u, i) = {} /\ main' = [m EXCEPT !.pc = "sleep"]
  <2>1. main'.pc = "sleep" /\ main'.uid = u
    BY <1>3 DEF Main
  <2>2. \A c \in Commands(u, 1) : ended'[u][c] # Absent
    BY <1>1, <1>3
  <2> QED
    BY <2>1, <2>2 DEF MainOK, CommandsDone, Commands, Containers, ExitPCs, Absent
<1>4. ASSUME NEW n \in Commands(u, i), \A d \in Commands(u, i) : n <= d,
             main' = [m EXCEPT !.pc = "command", !.next = n]
      PROVE  MainOK'
  <2>1. main'.pc = "command" /\ main'.uid = u /\ main'.next = n
    BY <1>4 DEF Main
  <2>2. n \in Commands(u, 1) /\ n \in Nat /\ n >= i
    BY <1>1, <1>2
  <2>3. \A c \in Commands(u, 1) : ended'[u][c] # Absent <=> c < n
    BY <1>1, <1>4, <2>2
  <2> QED
    BY <2>1, <2>2, <2>3 DEF MainOK, Commands, Containers, ExitPCs, Absent
<1> QED
  BY <1>3, <1>4, NextCommandValue

\* While OnAdd works for a pod, the completed object is not in the cache.
LEMMA NotCompletedYet ==
  ASSUME KubeletIInv, Store!CacheIInv, NEW u \in UIDs, Adding(u)
  PROVE  /\ pods[u].status # "completed" /\ ch[u].status # "completed"
         /\ local[u].ptr # "completed"
         /\ Cache!Get(u).status \in {"running", "empty"}
<1>1. /\ pods[u].status # "completed" /\ ch[u].status # "completed"
      /\ local[u].ptr # "completed"
  BY DEF KubeletIInv, PodOK, SourceOK, HandsOK
<1>2. /\ Store!Get(u) \in Store!Data
      /\ Store!Get(u) = pods[u] \/ Store!Get(u).status = "empty"
  BY KubeletAssumption, Store!GetIsData DEF Store!CacheIInv, Store!Get
<1> QED
  BY <1>1, <1>2, SameCache DEF Store!Data

LEMMA MainStepMain ==
  ASSUME KubeletIInv, Store!CacheIInv, MainStep
  PROVE  MainOK'
<1> DEFINE u == main.uid
<1>1. KubeletTypeOK /\ MainOK /\ main \in Main
  BY DEF KubeletIInv, KubeletTypeOK
<1>2. main.pc # "range" /\ source' = source
  BY DEF MainStep, CallUpdatePod, RunCommand, ExitGet, ExitMark, ExitCode, ReadMainClock, MainSet
<1>3. u \in UIDs /\ source[u] # "absent"
  BY <1>1, <1>2 DEF MainOK
<1>4. NoMain.pc = "range"
  BY DEF NoMain
<1>5. CASE CallUpdatePod
  <2>1. ended' = ended /\ main.pc = "workers"
    BY <1>5 DEF CallUpdatePod
  <2>2. CASE main.request.type = "Create"
    <3>1. \A c \in Commands(u, 1) : c \in Nat /\ c >= 1 /\ ended[u][c] = Absent
      BY <1>1, <1>3, <2>1, <2>2, ContainerSet DEF MainOK, Commands
    <3>2. main' = NextCommand(main, u, 1)
      BY <1>5, <2>2 DEF CallUpdatePod
    <3>3. \A c \in Commands(u, 1) : ended[u][c] # Absent <=> c < 1
      BY <3>1
    <3> QED
      BY <1>1, <1>2, <1>3, <2>1, <3>2, <3>3, MainNextCommand
  <2>3. CASE main.request.type # "Create"
    <3>1. main'.pc = "range"
      BY <1>4, <1>5, <2>3 DEF CallUpdatePod
    <3> QED
      BY <3>1 DEF MainOK, ExitPCs
  <2> QED
    BY <2>2, <2>3
<1>6. CASE RunCommand
  <2>1. PICK code \in ExitCodes :
          /\ main' = [main EXCEPT !.pc = "get", !.code = code]
          /\ \A v \in UIDs : \A c \in Containers(v) :
               ended'[v][c] = IF v = u /\ c = main.next THEN Exited(code) ELSE ended[v][c]
    BY <1>1, <1>6, EndedWrite
  <2>2. main'.pc = "get" /\ main'.uid = u /\ main'.next = main.next /\ main'.code = code
    BY <1>1, <2>1 DEF Main
  <2>3. /\ main.next \in Commands(u, 1) /\ main.next \in Nat
        /\ \A c \in Commands(u, 1) : ended[u][c] # Absent <=> c < main.next
    BY <1>1, <1>6 DEF RunCommand, MainOK, Main
  <2>4. \A c \in Commands(u, 1) : c \in Containers(u) /\ c \in Nat
    BY <1>3, ContainerSet DEF Commands
  <2>5. ended'[u][main.next] = Exited(code) /\ Exited(code) # Absent
    BY <1>3, <2>1, <2>3, <2>4 DEF Exited, Absent
  <2>6. \A c \in Commands(u, 1) : ended'[u][c] # Absent <=> c < main.next \/ c = main.next
    BY <1>3, <2>1, <2>3, <2>4, <2>5
  <2> QED
    BY <1>2, <1>3, <2>2, <2>3, <2>5, <2>6
       DEF MainOK, ExitPCs, Commands, Containers, Absent, Exited
<1>7. ASSUME ended' = ended, main'.uid = u, main'.next = main.next, main'.code = main.code,
             main.pc \in ExitPCs, main'.pc \in ExitPCs \ {"get"}, main'.ptr \in {"running", "empty"}
      PROVE  MainOK'
  <2>1. /\ main.next \in Commands(u, 1) /\ ended[u][main.next] = Exited(main.code)
        /\ \A c \in Commands(u, 1) : ended[u][c] # Absent <=> c < main.next \/ c = main.next
    BY <1>1, <1>7 DEF MainOK, ExitPCs
  <2> QED
    BY <1>2, <1>3, <1>7, <2>1 DEF MainOK, ExitPCs, Commands, Containers, Absent, Exited
<1>8. CASE ExitGet
  <2>1. Adding(u)
    BY <1>8 DEF ExitGet, Adding, OnAddPCs, ExitPCs
  <2>2. Cache!Get(u).status \in {"running", "empty"}
    BY <1>3, <2>1, NotCompletedYet
  <2>3. /\ main.pc = "get" /\ ended' = ended
        /\ main' = [main EXCEPT !.pc = "mark", !.ptr = Cache!Get(u).status]
    BY <1>8 DEF ExitGet
  <2>4. /\ main'.pc = "mark" /\ main'.ptr = Cache!Get(u).status
        /\ main'.uid = u /\ main'.next = main.next /\ main'.code = main.code
    BY <1>1, <2>3 DEF Main
  <2> QED
    BY <1>7, <2>2, <2>3, <2>4 DEF ExitPCs
<1>9. CASE ExitMark \/ ExitCode \/ (ReadMainClock /\ main.pc = "stamp")
  <2>1. /\ main.pc \in {"mark", "code", "stamp"} /\ ended' = ended
        /\ main'.pc \in {"code", "stamp", "set"} /\ main'.ptr = main.ptr
        /\ main'.uid = u /\ main'.next = main.next /\ main'.code = main.code
    BY <1>1, <1>9 DEF ExitMark, ExitCode, ReadMainClock, Main
  <2>2. main.ptr \in {"running", "empty"}
    BY <1>1, <2>1 DEF MainOK, ExitPCs
  <2> QED
    BY <1>7, <2>1, <2>2 DEF ExitPCs
<1>10. CASE ReadMainClock /\ main.pc = "sleep"
  <2>1. /\ main'.pc = "completed" /\ main'.ptr = "completed" /\ main'.uid = u /\ ended' = ended
    BY <1>1, <1>10 DEF ReadMainClock, Main
  <2>2. CommandsDone(u)
    BY <1>1, <1>10 DEF MainOK
  <2> QED
    BY <1>2, <1>3, <2>1, <2>2 DEF MainOK, CommandsDone, ExitPCs, Commands, Containers, Absent
<1>11. CASE MainSet /\ main.pc = "completed"
  <2>1. main'.pc = "range"
    BY <1>4, <1>11 DEF MainSet
  <2> QED
    BY <2>1 DEF MainOK, ExitPCs
<1>12. CASE MainSet /\ main.pc = "set"
  <2> DEFINE m == [main EXCEPT !.code = 0, !.ptr = "none", !.time = 0]
  <2>0. 0 \in Times /\ 0 \in ExitCodes \cup {0}
    BY KubeletAssumption DEF Times
  <2>1. m \in Main /\ m.uid = u /\ main.next \in Nat
    BY <1>1, <2>0 DEF Main, Pointers
  <2>2. main' = NextCommand(m, u, main.next + 1) /\ ended' = ended
    BY <1>12 DEF MainSet
  <2>3. \A c \in Commands(u, 1) : c \in Nat
    BY <1>3, ContainerSet DEF Commands
  <2>4. \A c \in Commands(u, 1) : ended[u][c] # Absent <=> c < main.next + 1
    BY <1>1, <1>12, <2>1, <2>3 DEF MainOK, ExitPCs
  <2> HIDE DEF m
  <2> QED
    BY <1>1, <1>2, <1>3, <2>1, <2>2, <2>4, MainNextCommand
<1> QED
  BY <1>5, <1>6, <1>8, <1>9, <1>10, <1>11, <1>12 DEF MainStep, ReadMainClock, MainSet

LEMMA MainStays ==
  ASSUME KubeletIInv, UNCHANGED <<main, source, ended>>
  PROVE  MainOK'
BY DEF KubeletIInv, MainOK, CommandsDone, Commands, Containers, ExitPCs, Absent, Exited

LEMMA MainInv ==
  ASSUME KubeletIInv, Store!CacheIInv, Next
  PROVE  MainOK'
<1>1. ASSUME NEW u \in UIDs, WorkerStep(u) PROVE UNCHANGED <<main, source, ended>>
  BY <1>1 DEF WorkerStep, InsertGet, InsertSet, WaitForStatus, GetNewerThan, ReadContainer,
              Report, SyncReturns, WorkerOnly
<1> QED
  BY <1>1, MainTakesEvent, MainStepMain, MainStays DEF Next

-----------------------------------------------------------------------------
(* The inductive invariant: the pods *)

\* The handler of a pod's ADD goes on, or begins when the pod is new.
LEMMA AddingBegins ==
  ASSUME KubeletIInv, Next, NEW v \in UIDs
  PROVE  /\ Adding(v)' => Adding(v) \/ source[v] = "absent"
         /\ source'[v] = "absent" => source[v] = "absent"
<1>1. main \in Main /\ source \in [UIDs -> {"absent", "added", "deleting", "removed"}]
  BY DEF KubeletIInv, KubeletTypeOK
<1>2. ASSUME NEW u \in UIDs, HandlerPodAdd(u) \/ HandlePodUpdate(u) \/ HandlePodRemove(u)
      PROVE  /\ Adding(v)' => source[v] = "absent"
             /\ source'[v] = "absent" => source[v] = "absent"
  <2>1. PICK r \in AllRequests, src \in {"added", "deleting", "removed"}, m \in BOOLEAN :
          /\ TakeEvent(u, r, src, m)
          /\ r.type = "Create" => source[u] = "absent"
    BY <1>2, Events
  <2>2. main'.pc = "workers" /\ main'.uid = u /\ main'.request = r
    BY <1>1, <2>1 DEF TakeEvent, Main
  <2>3. source'[v] = IF v = u THEN src ELSE source[v]
    BY <1>1, <2>1 DEF TakeEvent
  <2> QED
    BY <2>1, <2>2, <2>3 DEF Adding, OnAddPCs, ExitPCs
<1>3. CASE MainStep
  <2>1. source' = source /\ main.pc \notin {"range"}
    BY <1>3 DEF MainStep, CallUpdatePod, RunCommand, ExitGet, ExitMark, ExitCode, ReadMainClock, MainSet
  <2>2. CASE CallUpdatePod /\ main.request.type # "Create"
    BY <2>2 DEF CallUpdatePod, NoMain, Adding, OnAddPCs, ExitPCs
  <2>3. CASE CallUpdatePod /\ main.request.type = "Create"
    <3>1. main'.uid = main.uid
      BY <1>1, <2>3 DEF CallUpdatePod, NextCommand, Main
    <3> QED
      BY <2>3, <3>1 DEF CallUpdatePod, Adding
  <2>4. CASE RunCommand \/ ExitGet \/ ExitMark \/ ExitCode \/ ReadMainClock
    <3>1. main'.uid = main.uid /\ main.pc \in OnAddPCs
      BY <1>1, <2>4 DEF RunCommand, ExitGet, ExitMark, ExitCode, ReadMainClock, Main, OnAddPCs, ExitPCs
    <3> QED
      BY <2>1, <3>1 DEF Adding
  <2>5. CASE MainSet
    <3>1. main' = NoMain \/ main'.uid = main.uid
      BY <1>1, <2>5 DEF MainSet, NextCommand, Main
    <3>2. main.pc \in OnAddPCs
      BY <2>5 DEF MainSet, OnAddPCs, ExitPCs
    <3> QED
      BY <2>1, <3>1, <3>2 DEF Adding, NoMain, OnAddPCs, ExitPCs
  <2> QED
    BY <1>3, <2>1, <2>2, <2>3, <2>4, <2>5 DEF MainStep
<1>4. ASSUME NEW u \in UIDs, WorkerStep(u) PROVE main' = main /\ source' = source
  BY <1>4 DEF WorkerStep, InsertGet, InsertSet, WaitForStatus, GetNewerThan, ReadContainer,
              Report, SyncReturns, WorkerOnly
<1> QED
  BY <1>2, <1>3, <1>4 DEF Next, Adding, OnAddPCs, ExitPCs

\* Who stores which object: OnAdd at its end the completed one, and nothing
\* takes it out of the cache again.
LEMMA StoredObject ==
  ASSUME KubeletIInv, Store!CacheIInv, Next, NEW v \in UIDs
  PROVE  /\ pods'[v].status = "completed" /\ pods[v].status # "completed" =>
              MainSet /\ main.pc = "completed" /\ main.uid = v
         /\ pods[v].status = "completed" /\ local[v].insert = "done" =>
              pods'[v].status = "completed"
<1>1. KubeletTypeOK /\ MainOK /\ main \in Main /\ local \in [UIDs -> Local]
  BY DEF KubeletIInv, KubeletTypeOK
<1>2. \A c \in UIDs : call[c] # Cache!Idle => call[c].uid = c
  BY DEF KubeletIInv, PodOK, HandsOK
<1>3. CASE MainSet
  <2>1. /\ main.pc \in {"set", "completed"} /\ main.uid \in UIDs /\ main.time \in Times
        /\ main.pc = "set" => main.ptr \in {"running", "empty"}
        /\ main.pc = "completed" => main.ptr = "completed"
    BY <1>1, <1>3 DEF MainSet, MainOK, ExitPCs, Main
  <2>2. Adding(main.uid)
    BY <2>1 DEF Adding, OnAddPCs, ExitPCs
  <2>3. pods[main.uid].status # "completed"
    BY <2>1, <2>2, NotCompletedYet
  <2>4. /\ pods'[main.uid].status = main.ptr
        /\ \A x \in UIDs : x # main.uid => pods'[x] = pods[x]
    BY <1>2, <1>3, <2>1, SetEffect DEF MainSet
  <2> QED
    BY <1>3, <2>1, <2>3, <2>4
<1>4. ASSUME NEW u \in UIDs, InsertSet(u)
      PROVE  /\ pods'[v].status = "completed" => pods[v].status = "completed"
             /\ local[v].insert = "done" => pods'[v] = pods[v]
  <2>1. /\ pods'[u].status = "running"
        /\ \A x \in UIDs : x # u => pods'[x] = pods[x]
    BY <1>1, <1>2, <1>4, SetEffect DEF InsertSet, Local
  <2> QED
    BY <1>4, <2>1 DEF InsertSet
<1>5. CASE pods' = pods
  BY <1>5
<1> QED
  BY <1>3, <1>4, <1>5 DEF Next, MainStep, WorkerStep, HandlerPodAdd, HandlePodUpdate,
     HandlePodRemove, TakeEvent, CallUpdatePod, RunCommand, ExitGet, ExitMark, ExitCode,
     ReadMainClock, InsertGet, WaitForStatus, GetNewerThan, ReadContainer, Report, SyncReturns,
     WorkerOnly, cacheVars, Cache!Subscribe, Cache!Receive

LEMMA SourceStep ==
  ASSUME KubeletIInv, Store!CacheIInv, Next, NEW v \in UIDs
  PROVE  SourceOK(v)'
<1>1. KubeletTypeOK /\ MainOK /\ SourceOK(v)
  BY DEF KubeletIInv, PodOK
<1>2. ASSUME source'[v] = "absent", NEW c \in Containers(v)
      PROVE  ended'[v][c] = Absent
  <2>1. source[v] = "absent" /\ ended[v][c] = Absent
    BY <1>1, <1>2, AddingBegins DEF SourceOK
  <2>2. CASE RunCommand
    <3>1. main.uid # v
      BY <1>1, <2>1, <2>2 DEF RunCommand, MainOK
    <3> QED
      BY <1>1, <2>1, <2>2, <3>1, EndedWrite
  <2>3. CASE ended' = ended
    BY <2>1, <2>3
  <2> QED
    BY <2>2, <2>3 DEF Next, MainStep, WorkerStep, HandlerPodAdd, HandlePodUpdate, HandlePodRemove,
       TakeEvent, CallUpdatePod, ExitGet, ExitMark, ExitCode, ReadMainClock, MainSet,
       InsertGet, InsertSet, WaitForStatus, GetNewerThan, ReadContainer, Report, SyncReturns, WorkerOnly
<1>3. CommandsDone(v) => \A c \in Commands(v, 1) : ended'[v][c] # Absent
  BY <1>1, EndedStays DEF CommandsDone, Commands
<1>4. ASSUME pods'[v].status = "completed"
      PROVE  ~Adding(v)' /\ source'[v] # "absent" /\ CommandsDone(v)
  <2>1. CASE pods[v].status = "completed"
    BY <1>1, <2>1, AddingBegins DEF SourceOK
  <2>2. CASE MainSet /\ main.pc = "completed" /\ main.uid = v
    <3>1. CommandsDone(v) /\ source[v] # "absent"
      BY <1>1, <2>2 DEF MainOK
    <3>2. ~Adding(v)'
      BY <2>2 DEF MainSet, NoMain, Adding, OnAddPCs, ExitPCs
    <3> QED
      BY <3>1, <3>2, AddingBegins
  <2> QED
    BY <1>4, <2>1, <2>2, StoredObject
<1> QED
  BY <1>2, <1>3, <1>4 DEF SourceOK, CommandsDone, Commands, Containers, Absent


LEMMA IdleIsEmpty ==
  ASSUME Store!CacheIInv, NEW v \in UIDs, call[v] = Cache!Idle
  PROVE  ch[v].status = "none"
BY SameCache DEF Store!CacheIInv, Store!NoStrayAnswer, Store!NoData

\* A worker's step changes nothing of other pods.
LEMMA OtherPods ==
  ASSUME KubeletIInv, Workers!IInv, Store!CacheIInv, NEW u \in UIDs, WorkerStep(u),
         NEW v \in UIDs, v # u
  PROVE  /\ worker'[v] = worker[v] /\ local'[v] = local[v]
         /\ pods'[v] = pods[v] /\ ch'[v] = ch[v] /\ call'[v] = call[v]
         /\ heap'[v] = heap[v] /\ reported'[v] = reported[v]
<1>1. KubeletTypeOK /\ local \in [UIDs -> Local]
  BY DEF KubeletIInv, KubeletTypeOK
<1>2. \A c \in UIDs : call[c] # Cache!Idle => call[c].uid = c
  BY DEF KubeletIInv, PodOK, HandsOK
<1>3. worker'[v] = worker[v]
  <2>1. worker' = worker
        \/ PW!Receive(u) \/ PW!AllowPodStart(u) \/ PW!GetNewerThan(u)
        \/ PW!ContextForWorker(u) \/ PW!AcknowledgeTerminating(u) \/ PW!CompleteSync(u)
        \/ PW!CompleteTerminating(u) \/ PW!CompleteTerminated(u) \/ PW!CompleteWork(u)
    BY DEF WorkerStep, InsertGet, InsertSet, WaitForStatus, GetNewerThan, ReadContainer,
           Report, SyncReturns, WorkerOnly, workerVars
  <2>2. CASE worker' # worker
    <3>1. \/ PW!Receive(u) \/ PW!AllowPodStart(u) \/ PW!GetNewerThan(u)
          \/ PW!ContextForWorker(u) \/ PW!AcknowledgeTerminating(u) \/ PW!CompleteSync(u)
          \/ PW!CompleteTerminating(u) \/ PW!CompleteTerminated(u) \/ PW!CompleteWork(u)
      BY <2>1, <2>2
    <3>2. \A x \in UIDs : x # u => worker'[x] = worker[x]
      BY <3>1, WorkerMoves
    <3> QED
      BY <3>2
  <2> QED
    BY <2>2
<1>4. local'[v] = local[v]
  <2>1. local' = local \/ \E x : local' = [local EXCEPT ![u] = x]
    BY DEF WorkerStep, InsertGet, InsertSet, WaitForStatus, GetNewerThan, ReadContainer,
           Report, SyncReturns, WorkerOnly
  <2> QED
    BY <1>1, <2>1
<1>5. pods'[v] = pods[v] /\ ch'[v] = ch[v] /\ call'[v] = call[v]
  <2>1. CASE InsertSet(u)
    BY <1>1, <1>2, <2>1, SetEffect DEF InsertSet, Local
  <2>2. CASE WaitForStatus(u) \/ GetNewerThan(u)
    <3>1. /\ pods' = pods
          /\ ch' = ch \/ \E x : ch' = [ch EXCEPT ![u] = x]
          /\ \E x : call' = [call EXCEPT ![u] = x]
      BY <2>2 DEF WaitForStatus, GetNewerThan, Cache!Subscribe, Cache!Receive
    <3>2. ch = [x \in UIDs |-> ch[x]] /\ call = [x \in UIDs |-> call[x]]
      BY DEF Store!CacheIInv, Store!CacheTypeOK
    <3> QED
      BY <3>1, <3>2
  <2>3. CASE InsertGet(u) \/ ReadContainer(u) \/ Report(u) \/ SyncReturns(u) \/ WorkerOnly(u)
    BY <2>3 DEF InsertGet, ReadContainer, Report, SyncReturns, WorkerOnly, cacheVars
  <2> QED
    BY <2>1, <2>2, <2>3 DEF WorkerStep
<1>6. heap'[v] = heap[v]
  <2>1. heap' = heap \/ heap' = [heap EXCEPT ![u] = [c \in Containers(u) |-> Running]]
    BY DEF WorkerStep, InsertGet, InsertSet, WaitForStatus, GetNewerThan, ReadContainer,
           Report, SyncReturns, WorkerOnly
  <2> QED
    BY <1>1, <2>1, HeapReset
<1>7. reported'[v] = reported[v]
  <2>1. reported' = reported \/ Report(u)
    BY DEF WorkerStep, InsertGet, InsertSet, WaitForStatus, GetNewerThan, ReadContainer,
           SyncReturns, WorkerOnly
  <2> QED
    BY <1>1, <2>1, ReportWrite
<1> QED
  BY <1>3, <1>4, <1>5, <1>6, <1>7

\* What the main loop does to a worker: it may start one, and hand it the
\* object it stores.
LEMMA MainOnPods ==
  ASSUME KubeletIInv, Workers!IInv, Store!CacheIInv, NEW v \in UIDs,
         \/ \E u \in UIDs : HandlerPodAdd(u) \/ HandlePodUpdate(u) \/ HandlePodRemove(u)
         \/ MainStep
  PROVE  /\ local' = local /\ call' = call /\ reported' = reported
         /\ \/ worker'[v] = worker[v]
            \/ worker[v].pc = "none" /\ worker'[v].pc = "range" /\ ~worker'[v].podStarted
         /\ \/ pods'[v] = pods[v] /\ ch'[v] = ch[v]
            \/ /\ MainSet /\ main.uid = v /\ pods[v].status # "completed"
               /\ pods'[v].status = main.ptr
               /\ ch'[v] = ch[v] \/ ch'[v].status = main.ptr
               /\ main.ptr = "completed" <=> main.pc = "completed"
<1>1. KubeletTypeOK /\ MainOK /\ main \in Main
  BY DEF KubeletIInv, KubeletTypeOK
<1>2. \A c \in UIDs : call[c] # Cache!Idle => call[c].uid = c
  BY DEF KubeletIInv, PodOK, HandsOK
<1>3. ASSUME NEW u \in UIDs, HandlerPodAdd(u) \/ HandlePodUpdate(u) \/ HandlePodRemove(u)
      PROVE  UNCHANGED <<local, call, reported, worker, pods, ch>>
  BY <1>3 DEF HandlerPodAdd, HandlePodUpdate, HandlePodRemove, TakeEvent, workerVars, cacheVars
<1>4. CASE CallUpdatePod
  <2>1. main.uid \in UIDs
    BY <1>1, <1>4 DEF CallUpdatePod, MainOK
  <2> QED
    BY <1>4, <2>1, UpdatePodMoves DEF CallUpdatePod, cacheVars
<1>5. CASE RunCommand \/ ExitGet \/ ExitMark \/ ExitCode \/ ReadMainClock
  BY <1>5 DEF RunCommand, ExitGet, ExitMark, ExitCode, ReadMainClock, workerVars, cacheVars
<1>6. CASE MainSet
  <2>1. /\ main.pc \in {"set", "completed"} /\ main.uid \in UIDs /\ main.time \in Times
        /\ main.pc = "set" => main.ptr \in {"running", "empty"}
        /\ main.pc = "completed" => main.ptr = "completed"
    BY <1>1, <1>6 DEF MainSet, MainOK, ExitPCs, Main
  <2>2. Adding(main.uid)
    BY <2>1 DEF Adding, OnAddPCs, ExitPCs
  <2>3. pods[main.uid].status # "completed"
    BY <2>1, <2>2, NotCompletedYet
  <2>4. /\ call' = call
        /\ pods'[main.uid].status = main.ptr
        /\ ch'[main.uid] = ch[main.uid] \/ ch'[main.uid].status = main.ptr
        /\ \A x \in UIDs : x # main.uid => pods'[x] = pods[x] /\ ch'[x] = ch[x]
    BY <1>2, <1>6, <2>1, SetEffect DEF MainSet
  <2>5. UNCHANGED <<worker, local, reported>>
    BY <1>6 DEF MainSet, workerVars
  <2> QED
    BY <1>6, <2>1, <2>3, <2>4, <2>5
<1> QED
  BY <1>3, <1>4, <1>5, <1>6 DEF MainStep


LEMMA HandsKept ==
  ASSUME KubeletIInv, NEW v \in UIDs,
         \/ worker'[v] = worker[v]
         \/ worker[v].pc = "none" /\ worker'[v].pc = "range" /\ ~worker'[v].podStarted,
         local'[v] = local[v], call'[v] = call[v], reported'[v] = reported[v],
         pods[v].status = "completed" => pods'[v].status = "completed",
         ch'[v] = ch[v] \/ pods'[v].status = ch'[v].status
  PROVE  HandsOK(v)'
<1>1. HandsOK(v)
  BY DEF KubeletIInv, PodOK
<1> QED
  BY <1>1, SameCache DEF HandsOK, Containers, Absent, Cache!Idle, Cache!NoTime

\* managePodLoop and its local variables, step by step.
LEMMA HandsOwn ==
  ASSUME KubeletIInv, Workers!IInv, Store!CacheIInv, NEW u \in UIDs, WorkerStep(u)
  PROVE  HandsOK(u)'
<1> DEFINE w == worker[u]  l == local[u]
<1>1. KubeletTypeOK /\ HandsOK(u) /\ local \in [UIDs -> Local] /\ l \in Local
  BY DEF KubeletIInv, KubeletTypeOK, PodOK
<1>2. \A c \in UIDs : call[c] # Cache!Idle => call[c].uid = c
  BY DEF KubeletIInv, PodOK, HandsOK
<1>3. ch = [x \in UIDs |-> ch[x]] /\ call = [x \in UIDs |-> call[x]]
  BY DEF Store!CacheIInv, Store!CacheTypeOK
<1>4. call[u] = Cache!Idle => ch[u].status = "none"
  BY IdleIsEmpty
<1>5. CASE InsertGet(u)
  <2>1. /\ l.insert = "todo" /\ UNCHANGED <<worker, pods, ch, call, reported>>
        /\ local'[u].ptr = l.ptr /\ local'[u].seen = l.seen
    BY <1>1, <1>5 DEF InsertGet, InsertDue, Local, workerVars, cacheVars
  <2> QED
    BY <1>1, <2>1 DEF HandsOK, Containers, Absent, Cache!Idle, Cache!NoTime
<1>6. CASE InsertSet(u)
  <2>1. /\ l.insert = "set" /\ UNCHANGED <<worker, reported>>
        /\ local'[u].ptr = l.ptr /\ local'[u].insert = "done"
    BY <1>1, <1>6 DEF InsertSet, Local, workerVars
  <2>2. call' = call /\ (ch'[u] = ch[u] \/ call[u] # Cache!Idle)
    BY <1>1, <1>2, <1>6, SetEffect DEF InsertSet, Local
  <2>3. l.ptr = "none" /\ call[u] = Cache!Idle
    BY <1>1, <2>1 DEF HandsOK
  <2> QED
    BY <1>1, <1>4, <2>1, <2>2, <2>3 DEF HandsOK, Cache!Idle, Cache!NoTime
<1>7. CASE WaitForStatus(u)
  <2>1. /\ w.pc = "status" /\ call[u] = Cache!Idle
        /\ UNCHANGED <<worker, local, pods, reported>>
        /\ ch'[u] = ch[u] \/ ch'[u] = Cache!Get(u)
        /\ call'[u].uid = u
    BY <1>3, <1>7 DEF WaitForStatus, Cache!Subscribe, PW!At, workerVars
  <2>2. Cache!Get(u).status = "completed" => pods[u].status = "completed"
    BY DEF Cache!Get
  <2> QED
    BY <1>1, <1>4, <2>1, <2>2 DEF HandsOK, Containers, Absent, Cache!Idle, Cache!NoTime
<1>8. CASE GetNewerThan(u)
  <2>1. PW!GetNewerThan(u) /\ pods' = pods /\ reported' = reported
        /\ call'[u] = Cache!Idle /\ ch'[u].status = "none"
    BY <1>3, <1>8 DEF GetNewerThan, Cache!Receive, Cache!NoData
  <2>2. /\ local'[u].ptr = ch[u].status /\ local'[u].insert = l.insert
    BY <1>1, <1>8 DEF GetNewerThan, Local
  <2>3. w.pc = "status" /\ worker'[u].pc = "context"
    BY <2>1, WorkerMoves
  <2>4. l.insert = "done"
    BY <1>1, <2>3 DEF HandsOK
  <2> QED
    BY <1>1, <2>1, <2>2, <2>3, <2>4 DEF HandsOK, Cache!Idle, Cache!NoTime
<1>9. CASE ReadContainer(u) \/ Report(u)
  <2>1. /\ w.pc = "sync" /\ UNCHANGED <<worker, pods, ch, call>>
        /\ local'[u].ptr \in {l.ptr, "none"} /\ local'[u].insert = l.insert
    BY <1>1, <1>9 DEF ReadContainer, Report, PW!At, Local, workerVars, cacheVars
  <2>2. l.insert = "done"
    BY <1>1, <2>1 DEF HandsOK
  <2> QED
    BY <1>1, <2>1, <2>2 DEF HandsOK, Cache!Idle, Cache!NoTime
<1>10. CASE SyncReturns(u)
  <2>1. /\ PW!CompleteSync(u) \/ PW!CompleteTerminating(u) \/ PW!CompleteTerminated(u)
        /\ w.pc = "sync" /\ l.ptr = "none" /\ UNCHANGED <<pods, ch, call>>
    BY <1>10 DEF SyncReturns, PW!At, cacheVars
  <2>2. local'[u].ptr = l.ptr /\ local'[u].insert = l.insert
    BY <1>1, <1>10 DEF SyncReturns, Local
  <2>3. l.insert = "done" /\ call[u] = Cache!Idle
    BY <1>1, <2>1 DEF HandsOK
  <2> QED
    BY <1>1, <2>1, <2>2, <2>3 DEF HandsOK, Cache!Idle, Cache!NoTime
<1>11. CASE WorkerOnly(u)
  <2>1. UNCHANGED <<pods, ch, call, local, reported>>
    BY <1>11 DEF WorkerOnly, cacheVars
  <2>2. CASE PW!Receive(u)
    <3>1. /\ w.pc = "range" /\ worker'[u].podStarted = w.podStarted
          /\ worker'[u].pc = IF w.podStarted THEN "status" ELSE "start"
      BY <2>2, WorkerMoves
    <3> QED
      BY <1>1, <2>1, <3>1 DEF HandsOK, Containers, Absent, Cache!Idle, Cache!NoTime
  <2>3. CASE l.insert = "done" /\ PW!AllowPodStart(u)
    <3>1. w.pc = "start" /\ worker'[u].pc = "status"
      BY <2>3, WorkerMoves
    <3> QED
      BY <1>1, <2>1, <2>3, <3>1 DEF HandsOK, Containers, Absent, Cache!Idle, Cache!NoTime
  <2>4. CASE PW!ContextForWorker(u) \/ PW!AcknowledgeTerminating(u)
    <3>1. w.pc \in {"context", "acknowledge"} /\ worker'[u].pc \in {"acknowledge", "sync"}
      BY <2>4, WorkerMoves
    <3> QED
      BY <1>1, <2>1, <3>1 DEF HandsOK, Containers, Absent, Cache!Idle, Cache!NoTime
  <2>5. CASE PW!At(u, "queueNext") /\ PW!CompleteWork(u)
    <3>1. w.pc = "queueNext" /\ worker'[u].pc = "range"
      BY <2>5, WorkerMoves DEF PW!At
    <3> QED
      BY <1>1, <2>1, <3>1 DEF HandsOK, Containers, Absent, Cache!Idle, Cache!NoTime
  <2> QED
    BY <1>11, <2>2, <2>3, <2>4, <2>5 DEF WorkerOnly
<1> QED
  BY <1>5, <1>6, <1>7, <1>8, <1>9, <1>10, <1>11 DEF WorkerStep

LEMMA HandsStep ==
  ASSUME KubeletIInv, Workers!IInv, Store!CacheIInv, Next, NEW v \in UIDs
  PROVE  HandsOK(v)'
<1>1. CASE \/ \E u \in UIDs : HandlerPodAdd(u) \/ HandlePodUpdate(u) \/ HandlePodRemove(u)
           \/ MainStep
  BY <1>1, MainOnPods, HandsKept
<1>2. ASSUME NEW u \in UIDs, WorkerStep(u), v # u PROVE HandsOK(v)'
  BY <1>2, OtherPods, HandsKept
<1> QED
  BY <1>1, <1>2, HandsOwn DEF Next


-----------------------------------------------------------------------------
(* The inductive invariant: what is said of the containers *)

\* ExitIsTrue, of given exits.
TrueOf(exits, u, c, r) ==
  r.state = "exited" =>
    /\ IF HasCommand[u][c] THEN exits[c] # Absent
       ELSE \A d \in Commands(u, 1) : exits[d] # Absent
    /\ r.code # 0 => r = exits[c]

\* ContainerOK, with these.
LEMMA ContainerMeans ==
  ASSUME NEW v \in UIDs, NEW c \in Containers(v)
  PROVE  /\ \A r : ExitIsTrue(v, c, r) <=> TrueOf(ended[v], v, c, r)
         /\ (/\ TrueOf(ended'[v], v, c, heap'[v][c])
             /\ TrueOf(ended'[v], v, c, Seen(v, c)')
             /\ TrueOf(ended'[v], v, c, reported'[v][c])
             /\ heap'[v][c] = Running /\ "exited" \in {Seen(v, c)'.state, reported'[v][c].state} =>
                  PastRunning(v)'
             /\ reported'[v][c].state = "exited" => Seen(v, c)' # Running)
            => ContainerOK(v, c)'
<1>1. \A r : ExitIsTrue(v, c, r) <=> TrueOf(ended[v], v, c, r)
  BY DEF ExitIsTrue, TrueOf, CommandsDone
<1>2. /\ ExitIsTrue(v, c, heap[v][c])' <=> TrueOf(ended'[v], v, c, heap'[v][c])
      /\ ExitIsTrue(v, c, reported[v][c])' <=> TrueOf(ended'[v], v, c, reported'[v][c])
  BY DEF ExitIsTrue, TrueOf, CommandsDone, Commands, Containers, Absent
<1>3. ExitIsTrue(v, c, Seen(v, c))' <=> TrueOf(ended'[v], v, c, Seen(v, c)')
  BY DEF ExitIsTrue, TrueOf, CommandsDone, Commands, Containers, Absent
<1> QED
  BY <1>1, <1>2, <1>3 DEF ContainerOK, Running

\* What was true of an exit stays true.
LEMMA TruthStays ==
  ASSUME KubeletIInv, Next, NEW v \in UIDs, NEW c \in Containers(v), NEW r,
         TrueOf(ended[v], v, c, r)
  PROVE  TrueOf(ended'[v], v, c, r)
<1>1. KubeletTypeOK /\ MainOK
  BY DEF KubeletIInv
<1>2. \A d \in Containers(v) : ended[v][d] # Absent => ended'[v][d] = ended[v][d]
  BY <1>1, EndedStays
<1>3. Commands(v, 1) \subseteq Containers(v) /\ Absent.state # "exited"
  BY DEF Commands, Absent
<1> QED
  BY <1>2, <1>3 DEF TrueOf

\* The running object does not come back to the cache or to the worker.
LEMMA PastStays ==
  ASSUME KubeletIInv, Workers!IInv, Store!CacheIInv, Next, NEW v \in UIDs,
         PastRunning(v), local[v].insert = "done"
  PROVE  PastRunning(v)'
<1>1. pods[v].status = "completed" /\ ch[v].status # "running" /\ local[v].ptr # "running"
  BY DEF PastRunning
<1>2. pods'[v].status = "completed"
  BY <1>1, StoredObject
<1>3. CASE \/ \E u \in UIDs : HandlerPodAdd(u) \/ HandlePodUpdate(u) \/ HandlePodRemove(u)
           \/ MainStep
  BY <1>1, <1>2, <1>3, MainOnPods DEF PastRunning
<1>4. ASSUME NEW u \in UIDs, WorkerStep(u), u # v PROVE PastRunning(v)'
  BY <1>1, <1>2, <1>4, OtherPods DEF PastRunning
<1>5. CASE WorkerStep(v)
  <2>1. local \in [UIDs -> Local] /\ ch = [x \in UIDs |-> ch[x]]
    BY DEF KubeletIInv, KubeletTypeOK, Store!CacheIInv, Store!CacheTypeOK
  <2>2. CASE InsertSet(v)
    BY <2>2 DEF InsertSet
  <2>3. CASE WaitForStatus(v)
    <3>1. /\ local' = local
          /\ ch'[v] = ch[v] \/ ch'[v] = Cache!Get(v)
      BY <2>1, <2>3 DEF WaitForStatus, Cache!Subscribe
    <3>2. Cache!Get(v).status # "running"
      BY <1>1 DEF Cache!Get
    <3> QED
      BY <1>1, <1>2, <3>1, <3>2 DEF PastRunning
  <2>4. CASE GetNewerThan(v)
    <3>1. local'[v].ptr = ch[v].status /\ ch'[v].status = "none"
      BY <2>1, <2>4 DEF GetNewerThan, Cache!Receive, Cache!NoData, Local
    <3> QED
      BY <1>1, <1>2, <3>1 DEF PastRunning
  <2>5. CASE InsertGet(v) \/ ReadContainer(v) \/ Report(v) \/ SyncReturns(v) \/ WorkerOnly(v)
    <3>1. ch' = ch /\ local'[v].ptr \in {local[v].ptr, "none"}
      BY <2>1, <2>5 DEF InsertGet, ReadContainer, Report, SyncReturns, WorkerOnly, cacheVars, Local
    <3> QED
      BY <1>1, <1>2, <3>1 DEF PastRunning
  <2> QED
    BY <1>5, <2>2, <2>3, <2>4, <2>5 DEF WorkerStep
<1> QED
  BY <1>3, <1>4, <1>5 DEF Next

\* The facts about a container that the cases below use.
LEMMA ContainerFacts ==
  ASSUME KubeletIInv, Workers!IInv, Store!CacheIInv, Next, NEW v \in UIDs, NEW c \in Containers(v)
  PROVE  LET h == heap[v][c]
             s == Seen(v, c)
             r == reported[v][c]
         IN
         /\ TrueOf(ended'[v], v, c, h) /\ TrueOf(ended'[v], v, c, s) /\ TrueOf(ended'[v], v, c, r)
         /\ h \in {Running} \cup Exits
         /\ s \in {Running, Absent} \cup Exits
         /\ r \in {Running, Absent, Waiting, Lost} \cup Exits
         /\ h = Running /\ "exited" \in {s.state, r.state} => PastRunning(v) /\ PastRunning(v)'
         /\ r.state = "exited" => s # Running
<1> DEFINE h == heap[v][c]
           s == Seen(v, c)
           r == reported[v][c]
<1>1. KubeletTypeOK /\ ContainerOK(v, c) /\ HandsOK(v)
  BY DEF KubeletIInv, PodOK
<1>2. TrueOf(ended[v], v, c, h) /\ TrueOf(ended[v], v, c, s) /\ TrueOf(ended[v], v, c, r)
  BY <1>1, ContainerMeans DEF ContainerOK
<1>3. TrueOf(ended'[v], v, c, h) /\ TrueOf(ended'[v], v, c, s) /\ TrueOf(ended'[v], v, c, r)
  BY <1>2, TruthStays
<1>4. h \in {Running} \cup Exits /\ r \in {Running, Absent, Waiting, Lost} \cup Exits
  BY <1>1 DEF KubeletTypeOK, PerContainer
<1>5. s \in {Running, Absent} \cup Exits
  BY <1>1, ReadingOrder DEF Seen
<1>6. ASSUME h = Running, "exited" \in {s.state, r.state}
      PROVE  PastRunning(v) /\ PastRunning(v)'
  <2>1. PastRunning(v)
    BY <1>1, <1>6 DEF ContainerOK
  <2>2. local[v].insert = "done"
    <3>1. CASE local[v].insert # "done"
      <4>1. local[v].seen = <<>> /\ r = Absent
        BY <1>1, <3>1 DEF HandsOK
      <4>2. s = Absent
        BY <4>1 DEF Seen
      <4> QED
        BY <1>6, <4>1, <4>2 DEF Absent
    <3> QED
      BY <3>1
  <2> QED
    BY <2>1, <2>2, PastStays
<1>7. r.state = "exited" => s # Running
  BY <1>1 DEF ContainerOK
<1> QED
  BY <1>3, <1>4, <1>5, <1>6, <1>7


LEMMA ContainerKept ==
  ASSUME KubeletIInv, Workers!IInv, Store!CacheIInv, Next, NEW v \in UIDs, NEW c \in Containers(v),
         heap'[v][c] = heap[v][c], local'[v].seen = local[v].seen, reported'[v][c] = reported[v][c]
  PROVE  ContainerOK(v, c)'
<1>1. Seen(v, c)' = Seen(v, c)
  BY DEF Seen, Absent
<1> QED
  BY <1>1, ContainerFacts, ContainerMeans

\* SetContainerExit writes what has happened.
LEMMA ContainerExits ==
  ASSUME KubeletIInv, Workers!IInv, Store!CacheIInv, Next, ExitMark \/ ExitCode,
         NEW v \in UIDs, NEW c \in Containers(v)
  PROVE  ContainerOK(v, c)'
<1> DEFINE u == main.uid
<1>1. KubeletTypeOK /\ MainOK /\ main.code \in ExitCodes \cup {0}
  BY DEF KubeletIInv, KubeletTypeOK, Main
<1>2. /\ main.pc \in {"mark", "code"} /\ UNCHANGED <<local, reported, ended>>
      /\ WriteHeap(u, Exited(0)) \/ WriteHeap(u, Exited(main.code))
  BY DEF ExitMark, ExitCode
<1>3. /\ u \in UIDs /\ main.next \in Commands(u, 1)
      /\ ended[u][main.next] = Exited(main.code)
  BY <1>1, <1>2 DEF MainOK, ExitPCs
<1>4. PICK value \in {Exited(0), Exited(main.code)} : WriteHeap(u, value)
  BY <1>2
<1>5. value \in Exits /\ value # Running
  BY <1>1, StatusesDiffer DEF Exits
<1>6. /\ \A d \in Containers(u) :
           heap'[u][d] = IF main.ptr = "running" /\ d = main.next THEN value ELSE heap[u][d]
      /\ \A x \in UIDs : x # u => heap'[x] = heap[x]
  BY <1>1, <1>3, <1>4, <1>5, HeapWrite
<1>7. CASE heap'[v][c] = heap[v][c]
  BY <1>2, <1>7, ContainerKept
<1>8. CASE v = u /\ c = main.next /\ heap'[v][c] = value
  <2>1. HasCommand[v][c] /\ ended'[v][c] = Exited(main.code) /\ Exited(main.code) # Absent
    BY <1>2, <1>3, <1>8 DEF Commands, Exited, Absent
  <2>2. value.code # 0 => value = Exited(main.code)
    BY <1>4 DEF Exited
  <2>3. TrueOf(ended'[v], v, c, heap'[v][c])
    BY <1>8, <2>1, <2>2 DEF TrueOf
  <2>4. Seen(v, c)' = Seen(v, c) /\ reported'[v][c] = reported[v][c]
    BY <1>2 DEF Seen, Absent
  <2> QED
    BY <1>5, <1>8, <2>3, <2>4, ContainerFacts, ContainerMeans
<1> QED
  BY <1>6, <1>7, <1>8

\* insertPodCache's new object comes before anything is read or reported.
LEMMA ContainerInserted ==
  ASSUME KubeletIInv, Workers!IInv, Store!CacheIInv, Next, NEW v \in UIDs, InsertSet(v),
         NEW c \in Containers(v)
  PROVE  ContainerOK(v, c)'
<1>1. KubeletTypeOK /\ HandsOK(v) /\ local \in [UIDs -> Local]
  BY DEF KubeletIInv, KubeletTypeOK, PodOK
<1>2. /\ local[v].insert = "set" /\ reported' = reported /\ local'[v].seen = local[v].seen
      /\ heap' = [heap EXCEPT ![v] = [d \in Containers(v) |-> Running]]
  BY <1>1 DEF InsertSet, Local
<1>3. local[v].seen = <<>> /\ reported[v][c] = Absent
  BY <1>1, <1>2 DEF HandsOK
<1>4. Seen(v, c)' = Absent /\ reported'[v][c] = Absent
  BY <1>2, <1>3 DEF Seen, Absent
<1>5. heap'[v][c] = Running
  BY <1>1, <1>2, HeapReset
<1>6. Absent.state # "exited" /\ Running.state # "exited"
  BY DEF Absent, Running
<1> QED
  BY <1>4, <1>5, <1>6, ContainerMeans DEF TrueOf

\* generateAPIPodStatus reads one container.
LEMMA ContainerRead ==
  ASSUME KubeletIInv, Workers!IInv, Store!CacheIInv, Next, NEW v \in UIDs, ReadContainer(v),
         NEW c \in Containers(v)
  PROVE  ContainerOK(v, c)'
<1> DEFINE l == local[v]
           n == Len(local[v].seen) + 1
           x == Look(v, local[v].ptr, n)
<1>1. /\ KubeletTypeOK /\ HandsOK(v) /\ SourceOK(v) /\ local \in [UIDs -> Local]
      /\ l.seen \in Seq({Running, Absent} \cup Exits)
  BY DEF KubeletIInv, KubeletTypeOK, PodOK, Local
<1>2. /\ worker[v].pc = "sync" /\ ~AllRead(v) /\ UNCHANGED <<heap, reported, pods, ch, ended>>
      /\ local'[v].seen = Append(l.seen, x) /\ local'[v].ptr = l.ptr
  BY <1>1 DEF ReadContainer, PW!At, Local, cacheVars
<1>3. /\ n \in Containers(v) /\ n \in Nat /\ DOMAIN l.seen = 1..(n - 1)
      /\ Len(l.seen) \in Nat
  BY <1>1, <1>2, ReadingOrder
<1>4. x \in {Running, Absent} \cup Exits
  <2>1. heap[v][n] \in {Running} \cup Exits
    BY <1>1, <1>3 DEF KubeletTypeOK, PerContainer
  <2> QED
    BY <2>1, StatusesDiffer DEF Look
<1>5. /\ DOMAIN local'[v].seen = 1..n
      /\ local'[v].seen[n] = x
      /\ \A i \in 1..(n - 1) : local'[v].seen[i] = l.seen[i]
  <2> HIDE DEF x
  <2>1. Append(l.seen, x) \in Seq({Running, Absent} \cup Exits) /\ Len(Append(l.seen, x)) = n
    BY <1>1, <1>4
  <2> QED
    BY <1>1, <1>2, <1>3, <2>1
<1>6. CASE c # n
  <2>1. Seen(v, c)' = Seen(v, c)
    <3>1. c \in Nat
      BY ContainerSet
    <3>2. c \in 1..n <=> c \in 1..(n - 1)
      BY <1>3, <1>6, <3>1
    <3> QED
      BY <1>3, <1>5, <3>2 DEF Seen, Absent
  <2> QED
    BY <1>2, <2>1, ContainerFacts, ContainerMeans
<1>7. CASE c = n
  <2>1. Seen(v, c)' = x
    BY <1>3, <1>5, <1>7 DEF Seen
  <2>3. CASE l.ptr = "running"
    <3>1. x = heap[v][c]
      BY <1>7, <2>3 DEF Look
    <3>2. heap'[v][c] = heap[v][c] /\ reported'[v][c] = reported[v][c]
      BY <1>2
    <3>3. x = Running => reported[v][c].state # "exited"
      BY <2>3, <3>1, ContainerFacts DEF PastRunning
    <3>4. TrueOf(ended'[v], v, c, x)
      BY <3>1, ContainerFacts
    <3>5. Running.state # "exited"
      BY DEF Running
    <3> HIDE DEF x
    <3> QED
      BY <2>1, <3>1, <3>2, <3>3, <3>4, <3>5, ContainerFacts, ContainerMeans
  <2>4. CASE l.ptr = "completed"
    <3>1. x = Exited(0)
      BY <2>4 DEF Look
    <3>2. pods[v].status = "completed" /\ CommandsDone(v)
      BY <1>1, <2>4 DEF HandsOK, SourceOK
    <3>3. call[v] = Cache!Idle /\ ch[v].status = "none"
      BY <1>1, <1>2, IdleIsEmpty DEF HandsOK
    <3>4. PastRunning(v)'
      BY <1>2, <2>4, <3>2, <3>3 DEF PastRunning
    <3>5. TrueOf(ended'[v], v, c, x)
      <4>1. HasCommand[v][c] => c \in Commands(v, 1)
        BY ContainerSet
      <4>2. x.code = 0
        BY <3>1, StatusesDiffer
      <4> HIDE DEF x
      <4> QED
        BY <1>2, <3>2, <4>1, <4>2 DEF TrueOf, CommandsDone
    <3>6. x # Running
      BY <3>1 DEF Exited, Running
    <3>7. heap'[v][c] = heap[v][c] /\ reported'[v][c] = reported[v][c]
      BY <1>2
    <3> HIDE DEF x
    <3> QED
      BY <2>1, <3>4, <3>5, <3>6, <3>7, ContainerFacts, ContainerMeans
  <2>5. CASE l.ptr \notin {"running", "completed"}
    <3>1. x = Absent /\ Absent.state # "exited" /\ Absent # Running
      BY <2>5, StatusesDiffer DEF Look
    <3>2. heap'[v][c] = heap[v][c] /\ reported'[v][c] = reported[v][c]
      BY <1>2
    <3>3. TrueOf(ended'[v], v, c, x)
      BY <3>1 DEF TrueOf
    <3> HIDE DEF x
    <3> QED
      BY <2>1, <3>1, <3>2, <3>3, ContainerFacts, ContainerMeans
  <2> QED
    BY <2>3, <2>4, <2>5
<1> QED
  BY <1>6, <1>7


\* convertToAPIContainerStatuses: an exit that is reported was read now, or had
\* been reported and there is nothing newer.
LEMMA ContainerReported ==
  ASSUME KubeletIInv, Workers!IInv, Store!CacheIInv, Next, NEW v \in UIDs, Report(v),
         NEW c \in Containers(v)
  PROVE  ContainerOK(v, c)'
<1> DEFINE s == Seen(v, c)
           r == reported[v][c]
           q == Convert(s, r)
<1>1. KubeletTypeOK /\ local \in [UIDs -> Local]
  BY DEF KubeletIInv, KubeletTypeOK
<1>2. heap' = heap /\ local'[v].seen = local[v].seen
  BY <1>1 DEF Report, Local
<1>3. reported'[v][c] = q
  BY <1>1, ReportWrite
<1>4. Seen(v, c)' = s
  BY <1>2 DEF Seen, Absent
<1>5. /\ s # Absent => q = s
      /\ q.state = "exited" => q \in {s, r}
  BY ContainerFacts, ConvertValue
<1>6. TrueOf(ended'[v], v, c, q)
  <2>1. TrueOf(ended'[v], v, c, s) /\ TrueOf(ended'[v], v, c, r)
    BY ContainerFacts
  <2> HIDE DEF q, s, r
  <2> QED
    BY <1>5, <2>1 DEF TrueOf
<1>7. q.state = "exited" => s # Running
  BY <1>5, StatusesDiffer
<1>8. "exited" \in {s.state, q.state} => "exited" \in {s.state, r.state}
  BY <1>5
<1> HIDE DEF q, s, r
<1>9. /\ TrueOf(ended'[v], v, c, heap'[v][c]) /\ TrueOf(ended'[v], v, c, s)
      /\ heap'[v][c] = Running /\ "exited" \in {s.state, r.state} => PastRunning(v)'
  BY <1>2, ContainerFacts DEF s, r
<1> QED
  BY <1>3, <1>4, <1>6, <1>7, <1>8, <1>9, ContainerMeans

LEMMA ContainerStep ==
  ASSUME KubeletIInv, Workers!IInv, Store!CacheIInv, Next, NEW v \in UIDs, NEW c \in Containers(v)
  PROVE  ContainerOK(v, c)'
<1>1. local \in [UIDs -> Local]
  BY DEF KubeletIInv, KubeletTypeOK
<1>2. ASSUME NEW u \in UIDs, HandlerPodAdd(u) \/ HandlePodUpdate(u) \/ HandlePodRemove(u)
      PROVE  UNCHANGED <<heap, local, reported>>
  BY <1>2 DEF HandlerPodAdd, HandlePodUpdate, HandlePodRemove, TakeEvent
<1>3. CASE CallUpdatePod \/ RunCommand \/ ExitGet \/ ReadMainClock \/ MainSet
  BY <1>3, ContainerKept DEF CallUpdatePod, RunCommand, ExitGet, ReadMainClock, MainSet
<1>4. ASSUME NEW u \in UIDs, WorkerStep(u), u # v PROVE ContainerOK(v, c)'
  BY <1>4, OtherPods, ContainerKept
<1>5. CASE InsertGet(v) \/ WaitForStatus(v) \/ GetNewerThan(v) \/ WorkerOnly(v)
  <2>1. heap' = heap /\ reported' = reported /\ local'[v].seen = local[v].seen
    BY <1>1, <1>5 DEF InsertGet, WaitForStatus, GetNewerThan, WorkerOnly, Local
  <2> QED
    BY <2>1, ContainerKept
<1>6. CASE SyncReturns(v)
  <2>1. heap' = heap /\ reported' = reported /\ local'[v].seen = <<>>
    BY <1>1, <1>6 DEF SyncReturns, Local
  <2>2. Seen(v, c)' = Absent /\ Absent.state # "exited" /\ Absent # Running
    BY <2>1, StatusesDiffer DEF Seen, Absent
  <2>3. TrueOf(ended'[v], v, c, Absent)
    BY <2>2 DEF TrueOf
  <2> QED
    BY <2>1, <2>2, <2>3, ContainerFacts, ContainerMeans
<1> QED
  BY <1>2, <1>3, <1>4, <1>5, <1>6, ContainerKept, ContainerExits, ContainerInserted, ContainerRead,
     ContainerReported DEF Next, MainStep, WorkerStep

-----------------------------------------------------------------------------
(* The theorems *)

\* The inductive invariant of the composition.
AllInv == KubeletIInv /\ Workers!IInv /\ Store!CacheIInv

LEMMA AllInit == Init => AllInv
<1> SUFFICES ASSUME Init PROVE KubeletIInv
  BY WorkersInv, CacheInv DEF AllInv
<1>1. /\ source = [u \in UIDs |-> "absent"] /\ main = NoMain
      /\ heap = [u \in UIDs |-> [c \in Containers(u) |-> Running]]
      /\ ended = [u \in UIDs |-> [c \in Containers(u) |-> Absent]]
      /\ local = [u \in UIDs |-> NoLocal]
      /\ reported = [u \in UIDs |-> [c \in Containers(u) |-> Absent]]
      /\ now = [u \in UIDs |-> 0]
  BY DEF Init
<1>2. /\ NoMain \in Main /\ NoMain.pc = "range"
      /\ NoLocal \in Local /\ NoLocal.seen = <<>> /\ NoLocal.ptr = "none"
      /\ 0 \in Times
  <2>1. 0 \in Times /\ Update \in AllRequests
    BY KubeletAssumption DEF Times, AllRequests
  <2>2. NoMain \in Main /\ NoMain.pc = "range"
    BY <2>1 DEF NoMain, Main, OnAddPCs, ExitPCs, Pointers
  <2>3. NoLocal \in Local /\ NoLocal.seen = <<>> /\ NoLocal.ptr = "none"
    BY <2>1 DEF NoLocal, Local, Pointers
  <2> QED
    BY <2>1, <2>2, <2>3
<1>3. KubeletTypeOK
  <2>1. \A u \in UIDs : Len(local[u].seen) <= Cardinality(Containers(u))
    BY <1>1, <1>2, ContainerSet
  <2>2. /\ PerContainer(heap, {Running} \cup Exits)
        /\ PerContainer(ended, {Absent} \cup Exits)
        /\ PerContainer(reported, {Running, Absent, Waiting, Lost} \cup Exits)
    BY <1>1 DEF PerContainer
  <2>3. /\ source \in [UIDs -> {"absent", "added", "deleting", "removed"}]
        /\ main \in Main /\ local \in [UIDs -> Local] /\ now \in [UIDs -> Times]
    BY <1>1, <1>2
  <2> QED
    BY <2>1, <2>2, <2>3 DEF KubeletTypeOK
<1>4. MainOK
  BY <1>1, <1>2 DEF MainOK, ExitPCs
<1>5. ASSUME NEW u \in UIDs PROVE PodOK(u)
  <2>1. /\ worker[u].pc = "none" /\ ~worker[u].podStarted
        /\ pods[u].status = "none" /\ ch[u].status = "none" /\ call[u] = Cache!Idle
    BY DEF Init, PW!Init, PW!NoWorker, Cache!CacheInit, Cache!NoData
  <2>2. SourceOK(u)
    BY <1>1, <2>1 DEF SourceOK
  <2>3. HandsOK(u)
    BY <1>1, <1>2, <2>1 DEF HandsOK
  <2> QED
    BY <2>2, <2>3 DEF PodOK
<1>6. ASSUME NEW u \in UIDs, NEW c \in Containers(u) PROVE ContainerOK(u, c)
  <2>1. heap[u][c] = Running /\ Seen(u, c) = Absent /\ reported[u][c] = Absent
    BY <1>1, <1>2 DEF Seen
  <2> QED
    BY <2>1, StatusesDiffer DEF ContainerOK, ExitIsTrue
<1> QED
  BY <1>3, <1>4, <1>5, <1>6 DEF KubeletIInv

LEMMA AllStep == AllInv /\ [Next]_vars => AllInv'
<1> SUFFICES ASSUME AllInv, [Next]_vars PROVE AllInv'
  OBVIOUS
<1>1. KubeletIInv /\ Workers!IInv /\ Store!CacheIInv /\ KubeletTypeOK /\ MainOK
  BY DEF AllInv, KubeletIInv
<1>2. Workers!IInv' /\ Store!CacheIInv'
  BY <1>1, WorkersInv, CacheInv
<1>3. CASE Next
  <2>1. KubeletTypeOK' /\ MainOK'
    BY <1>1, <1>3, TypesStep, MainInv
  <2>2. ASSUME NEW u \in UIDs PROVE SourceOK(u)' /\ HandsOK(u)'
    BY <1>1, <1>3, SourceStep, HandsStep
  <2>3. ASSUME NEW u \in UIDs, NEW c \in Containers(u) PROVE ContainerOK(u, c)'
    BY <1>1, <1>3, ContainerStep
  <2> QED
    BY <1>2, <2>1, <2>2, <2>3 DEF AllInv, KubeletIInv, PodOK, Containers
<1>4. CASE UNCHANGED vars
  <2>0. UNCHANGED <<worker, pods, ch, call, source, main, heap, ended, local, reported, now>>
    BY <1>4 DEF vars, workerVars, cacheVars
  <2>1. KubeletTypeOK'
    <3>1. /\ PerContainer(heap, {Running} \cup Exits)'
          /\ PerContainer(ended, {Absent} \cup Exits)'
          /\ PerContainer(reported, {Running, Absent, Waiting, Lost} \cup Exits)'
      BY <1>1, <2>0, StatusesKept
    <3> QED
      BY <1>1, <2>0, <3>1 DEF KubeletTypeOK, Main, Local, Times, OnAddPCs, ExitPCs, Pointers, Exits,
         Exited, Running, Absent, Containers, AllRequests, Update, DeleteUpdate, Kill
  <2>2. MainOK'
    BY <1>1, <2>0, MainStays
  <2>3. ASSUME NEW u \in UIDs PROVE PodOK(u)'
    <3>1. HandsOK(u)'
      BY <1>1, <2>0, HandsKept
    <3>2. SourceOK(u)
      BY <1>1 DEF KubeletIInv, PodOK
    <3>3. SourceOK(u)'
      BY <2>0, <3>2 DEF SourceOK, Adding, CommandsDone, Commands, Containers, Absent, OnAddPCs, ExitPCs
    <3> QED
      BY <3>1, <3>3 DEF PodOK
  <2>4. ASSUME NEW u \in UIDs, NEW c \in Containers(u) PROVE ContainerOK(u, c)'
    <3>1. ContainerOK(u, c)
      BY <1>1 DEF KubeletIInv
    <3>2. Seen(u, c)' = Seen(u, c) /\ (PastRunning(u) => PastRunning(u)')
      BY <2>0 DEF Seen, Absent, PastRunning
    <3> QED
      BY <2>0, <3>1, <3>2, ContainerMeans DEF ContainerOK
  <2>5. KubeletIInv'
    BY <2>1, <2>2, <2>3, <2>4 DEF KubeletIInv, Containers
  <2> QED
    BY <1>2, <2>5 DEF AllInv
<1> QED
  BY <1>3, <1>4


\* The kubelet's invariant, and those of its two components, hold in every
\* reachable state of the kubelet.
THEOREM Invariance == Spec => []AllInv
BY AllInit, AllStep, PTL DEF Spec

\* The kubelet implements the pod workers: seen through their variables, the
\* main loop and the managePodLoops take only the steps of PodWorkers.
THEOREM ImplementsWorkers == Spec => Workers!Init /\ [][Workers!Next]_(Workers!vars)
<1>1. Init => Workers!Init
  BY DEF Init, PW!Init, Workers!Init, PW!NoStatus, Workers!NoStatus, PW!NoChannel,
         Workers!NoChannel, PW!NoWork, Workers!NoWork, PW!NoWorker, Workers!NoWorker,
         PW!Nil, Workers!Nil
<1>2. AllInv /\ [Next]_vars => [Workers!Next]_(Workers!vars)
  BY WorkersNext DEF AllInv, KubeletIInv
<1> QED
  BY <1>1, <1>2, Invariance, PTL DEF Spec

\* The kubelet implements the cache: OnAdd, insertPodCache and the workers use
\* it only through its operations.
THEOREM ImplementsCache == Spec => Store!CacheSpec
<1>1. Init => Store!CacheInit
  BY SameCache DEF Init
<1>2. AllInv /\ [Next]_vars => [Store!CacheNext]_(Store!cacheVars)
  BY CacheNext DEF AllInv, KubeletIInv
<1> QED
  BY <1>1, <1>2, Invariance, PTL DEF Spec, Store!CacheSpec

\* No worker of the kubelet waits in GetNewerThan for a status that the cache
\* already has, or without a record.
THEOREM WakeupSafe == Spec => []NoMissedWakeup
<1>1. Store!CacheIInv => NoMissedWakeup
  <2>1. Store!NoMissedWakeup => Cache!NoMissedWakeup
    BY SameCache DEF Store!NoMissedWakeup, Cache!NoMissedWakeup, Store!Waiting, Cache!Waiting,
       Store!GetIfNewerThan, Cache!GetIfNewerThan, Store!NoTime, Cache!NoTime
  <2> QED
    BY <2>1 DEF Store!CacheIInv, NoMissedWakeup
<1>2. AllInv => NoMissedWakeup
  BY <1>1 DEF AllInv
<1> QED
  BY <1>2, Invariance, PTL

\* A container is reported as exited only when its command has ended (or, if it
\* has none, all commands of its pod), and with another code than zero only if
\* that is the command's.
THEOREM ExitReportsSafe == Spec => []ExitReportsAreTrue
<1>1. AllInv => ExitReportsAreTrue
  BY DEF AllInv, KubeletIInv, ContainerOK, ExitReportsAreTrue
<1> QED
  BY <1>1, Invariance, PTL

\* A container that was reported as exited stays reported as exited.
THEOREM ExitsStay == Spec => ExitedStaysExited
<1> DEFINE Kept == \A u \in UIDs : \A c \in Containers(u) :
                     reported[u][c].state = "exited" => reported'[u][c].state = "exited"
<1>1. AllInv /\ [Next]_vars => [Kept]_vars
  <2> SUFFICES ASSUME AllInv, Next, NEW u \in UIDs, NEW c \in Containers(u),
                      reported[u][c].state = "exited"
               PROVE  reported'[u][c].state = "exited"
    OBVIOUS
  <2>1. /\ KubeletIInv /\ Workers!IInv /\ Store!CacheIInv /\ KubeletTypeOK
    BY DEF AllInv, KubeletIInv
  <2>2. CASE Report(u)
    <3>1. reported'[u][c] = Convert(Seen(u, c), reported[u][c])
      BY <2>1, <2>2, ReportWrite
    <3>2. /\ Seen(u, c) \in {Running, Absent} \cup Exits /\ Seen(u, c) # Running
          /\ reported[u][c] \in {Running, Absent, Waiting, Lost} \cup Exits
      BY <2>1, ContainerFacts
    <3>3. CASE Seen(u, c) = Absent
      BY <3>1, <3>2, <3>3, ConvertValue
    <3>4. CASE Seen(u, c) \in Exits
      <4>1. Seen(u, c) # Absent /\ Seen(u, c).state = "exited"
        BY <3>4, StatusesDiffer
      <4> QED
        BY <3>1, <3>2, <4>1, ConvertValue
    <3> QED
      BY <3>2, <3>3, <3>4
  <2>3. ASSUME NEW v \in UIDs, Report(v), v # u PROVE reported'[u] = reported[u]
    BY <2>1, <2>3, ReportWrite
  <2>4. reported' = reported \/ \E v \in UIDs : Report(v)
    BY DEF Next, MainStep, WorkerStep, HandlerPodAdd, HandlePodUpdate, HandlePodRemove,
       TakeEvent, CallUpdatePod, RunCommand, ExitGet, ExitMark, ExitCode, ReadMainClock, MainSet,
       InsertGet, InsertSet, WaitForStatus, GetNewerThan, ReadContainer, SyncReturns, WorkerOnly
  <2> QED
    BY <2>2, <2>3, <2>4
<1> QED
  BY <1>1, Invariance, PTL DEF Spec, ExitedStaysExited


\* A worker of the kubelet is answered with the pod's latest status, and with
\* none that is older than its last sync.
THEOREM AnswersSafe == Spec => AnswersAreCurrent
<1> DEFINE Current ==
             \A c \in UIDs :
               ch[c] = Store!NoData /\ ch'[c] # Store!NoData =>
                 /\ ch'[c] = Store!Get(call[c].uid)'
                 /\ \/ ch'[c].modified >= call'[c].time
                    \/ timestamp' >= call'[c].time
<1>1. Store!CacheSpec => [][Current]_(Store!cacheVars)
  BY KubeletAssumption, Store!AnswersSafe DEF Store!AnswersAreCurrent
<1>2. [Current]_(Store!cacheVars) =>
        [\A c \in UIDs :
           ch[c] = Cache!NoData /\ ch'[c] # Cache!NoData =>
             /\ ch'[c] = Cache!Get(call[c].uid)'
             /\ \/ ch'[c].modified >= call'[c].time
                \/ timestamp' >= call'[c].time]_(Cache!cacheVars)
  BY DEF Store!cacheVars, Cache!cacheVars, Store!NoData, Cache!NoData, Store!NoTime, Cache!NoTime,
         Store!Get, Cache!Get
<1> QED
  BY <1>1, <1>2, ImplementsCache, PTL DEF AnswersAreCurrent, Cache!AnswersAreCurrent

\* In the kubelet no sync fails, so that a pod whose termination was asked for
\* always has the work that ends it under way, whatever the main loop does; the
\* worker may still wait for the cache before it comes to that work.
THEOREM TerminationAttended == Spec => []Workers!TerminationIsAttended
<1> DEFINE Inv == \A u \in UIDs : Workers!AttendedOK(u)
<1>1. Workers!Init => Inv
  BY WorkersAssumed, Workers!AttendedInit
<1>2. Workers!IInv /\ Inv /\ [Workers!Next]_(Workers!vars) /\ Workers!IInv' => Inv'
  BY WorkersAssumed, "error" \notin {"terminal"}, Workers!AttendedStep
<1>3. Inv => Workers!TerminationIsAttended
  BY DEF Workers!AttendedOK, Workers!TerminationIsAttended
<1>4. AllInv => Workers!IInv
  BY DEF AllInv
<1> HIDE DEF Inv
<1> QED
  BY <1>1, <1>2, <1>3, <1>4, Invariance, ImplementsWorkers, PTL

=============================================================================
