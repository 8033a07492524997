--------------------------- MODULE PodWorkersProofs ---------------------------
(***************************************************************************)
(* What PodWorkers guarantees for every set of pods, every set of requests *)
(* and any number of calls: its types, then the safety invariants, from    *)
(* one inductive invariant (IInv of PodWorkers) taken one pod at a time.   *)
(***************************************************************************)
EXTENDS PodWorkers, WellFoundedInduction, SequenceTheorems, TLAPS

-----------------------------------------------------------------------------
(* The operators of UpdatePod produce entries and work items. *)

\* The initial values have the types of their variables.
LEMMA ZeroValues ==
  /\ NoStatus \in PodSyncStatus
  /\ NoWorker \in Worker
  /\ NoChannel \in [made: BOOLEAN, buf: Seq(Work)]
BY DEF NoStatus, PodSyncStatus, NoWorker, Worker, PCs, NoChannel, NoWork

\* The effective grace period is at least one second, whatever was requested.
LEMMA GracePositive ==
  ASSUME NEW s \in PodSyncStatus, NEW r \in Requests
  PROVE  CalculateEffectiveGracePeriod(s, r) \in Nat \ {0}
<1>1. /\ r.deletionGrace \in Nat \cup {Nil}
      /\ r.override \in Nat \cup {Nil}
      /\ s.gracePeriod \in Nat
  BY RequestsAssumption DEF Options, PodSyncStatus
<1>2. ASSUME NEW g \in Nat, NEW o \in Nat \cup {Nil}
      PROVE  Shorten(g, o) \in Nat
  BY DEF Shorten, Nil
<1>3. Shorten(Shorten(s.gracePeriod, r.deletionGrace), r.override) \in Nat
  BY <1>1, <1>2
<1>4. QED
  BY <1>3, BoundsAssumption DEF CalculateEffectiveGracePeriod

\* The entry UpdatePod works on, and what it becomes.
LEMMA EntryTypes ==
  ASSUME TypeOK, NEW u \in UIDs, NEW r \in Requests, NEW c \in BOOLEAN,
         NEW s, s = LookupStatus(u, r, c), NEW ver \in Nat
  PROVE  /\ s \in PodSyncStatus
         /\ CheckTerminating(s, r) \in PodSyncStatus
         /\ RecordKill(CheckTerminating(s, r), r, ver) \in PodSyncStatus
<1>1. s \in PodSyncStatus
  <2>1. status[u] \in PodSyncStatus
    BY DEF TypeOK
  <2>2. [NoStatus EXCEPT !.known = TRUE] \in PodSyncStatus
    BY DEF NoStatus, PodSyncStatus
  <2>3. [NoStatus EXCEPT !.known = TRUE, !.terminating = TRUE,
                         !.startedTerminating = TRUE, !.terminated = TRUE,
                         !.finished = TRUE] \in PodSyncStatus
    BY DEF NoStatus, PodSyncStatus
  <2>4. QED
    BY <2>1, <2>2, <2>3 DEF LookupStatus
<1>2. CheckTerminating(s, r) \in PodSyncStatus
  <2>1. ASSUME NEW d \in BOOLEAN, NEW e \in BOOLEAN
        PROVE  [s EXCEPT !.terminating = TRUE, !.deleted = d, !.evicted = e] \in PodSyncStatus
    BY <1>1 DEF PodSyncStatus
  <2>2. /\ (s.deleted \/ r.runtime \/ r.deletion) \in BOOLEAN
        /\ (s.evicted \/ /\ ~r.runtime /\ ~r.deletion /\ ~r.terminalPhase
                         /\ r.evict) \in BOOLEAN
    OBVIOUS
  <2>3. QED
    BY <1>1, <2>1, <2>2 DEF CheckTerminating
<1>3. ASSUME NEW t \in PodSyncStatus
      PROVE  RecordKill(t, r, ver) \in PodSyncStatus
  BY GracePositive DEF RecordKill, PodSyncStatus
<1>4. QED
  BY <1>1, <1>2, <1>3

\* The work item UpdatePod makes.
LEMMA NewWorkType ==
  ASSUME NEW s \in PodSyncStatus, NEW r \in Requests, NEW ver \in Nat
  PROVE  NewWork(s, r, ver) \in Work
<1>1. r.runtime \in BOOLEAN
  BY RequestsAssumption DEF Options
<1>2. WorkTypeOf(s) \in WorkTypes
  BY DEF WorkTypeOf, WorkTypes, PodSyncStatus
<1>3. QED
  BY <1>1, <1>2 DEF NewWork, Work, PodSyncStatus

-----------------------------------------------------------------------------
(* Type correctness, one lemma per group of actions. *)

LEMMA UpdatePodType ==
  ASSUME TypeOK, NEW u \in UIDs, NEW r \in Requests, UpdatePod(u, r)
  PROVE  TypeOK'
<1> DEFINE ver == calls[u] + 1
<1>1. /\ calls' \in [UIDs -> 0..MaxCalls]
      /\ ver \in Nat
      /\ UNCHANGED <<started, workQueue, podsSynced>>
  BY BoundsAssumption DEF UpdatePod, TypeOK
<1>2. CASE UpdatePodIgnored(u, r)
  <2>1. openCh' \in [UIDs -> SUBSET Nat]
    BY <1>1, <1>2 DEF UpdatePodIgnored, TypeOK
  <2>2. QED
    BY <1>1, <1>2, <2>1 DEF UpdatePodIgnored, TypeOK
<1>3. ASSUME NEW c \in BOOLEAN, NEW s, s = LookupStatus(u, r, c),
             UpdatePodReturns(u, r, s)
      PROVE  TypeOK'
  <2>0. s \in PodSyncStatus
    BY <1>1, <1>3, EntryTypes
  <2>1. [s EXCEPT !.restartRequested = TRUE] \in PodSyncStatus
    BY <2>0 DEF PodSyncStatus
  <2>2. status' \in [UIDs -> PodSyncStatus]
    BY <1>3, <2>0, <2>1 DEF UpdatePodReturns, TypeOK
  <2>3. openCh' \in [UIDs -> SUBSET Nat]
    BY <1>1, <1>3 DEF UpdatePodReturns, TypeOK
  <2>4. QED
    BY <1>1, <1>3, <2>2, <2>3 DEF UpdatePodReturns, TypeOK
<1>4. ASSUME NEW c \in BOOLEAN, NEW s, s = LookupStatus(u, r, c),
             UpdatePodDispatch(u, r, s)
      PROVE  TypeOK'
  <2> DEFINE recorded == RecordKill(CheckTerminating(s, r), r, ver)
             work == NewWork(recorded, r, ver)
             channel == IF podUpdates[u].made THEN podUpdates[u]
                        ELSE [made |-> TRUE, buf |-> <<>>]
             Channels == [made: BOOLEAN, buf: Seq(Work)]
  <2>1. recorded \in PodSyncStatus
    BY <1>1, <1>4, EntryTypes
  <2>2. work \in Work
    BY <1>1, <2>1, NewWorkType
  <2>3. /\ channel \in Channels
        /\ [channel EXCEPT !.buf = Append(@, work)] \in Channels
    <3>1. podUpdates[u] \in Channels
      BY DEF TypeOK
    <3>2. channel \in Channels
      BY <3>1
    <3>3. Append(channel.buf, work) \in Seq(Work)
      BY <3>2, <2>2
    <3>4. QED
      BY <3>2, <3>3
  <2>4. ASSUME NEW t \in PodSyncStatus
        PROVE  /\ [t EXCEPT !.working = TRUE] \in PodSyncStatus
               /\ [t EXCEPT !.ctx = "canceled"] \in PodSyncStatus
    BY DEF PodSyncStatus
  <2> HIDE DEF recorded, work, ver
  <2>45. \E t \in PodSyncStatus : status' = [status EXCEPT ![u] = t]
    BY <1>4, <2>1, <2>4 DEF UpdatePodDispatch, CancelSync, recorded, ver
  <2> USE DEF recorded, work, ver
  <2>5. /\ \/ podUpdates' = [podUpdates EXCEPT ![u] = channel]
           \/ podUpdates' = [podUpdates EXCEPT ![u] = [channel EXCEPT !.buf = Append(@, work)]]
        /\ undelivered' \in {undelivered, [undelivered EXCEPT ![u] = work]}
        /\ worker' \in {worker, [worker EXCEPT ![u] = [NoWorker EXCEPT !.pc = "range"]]}
        /\ waiting' \in {waiting, [waiting EXCEPT ![Fullname[u]] = Append(@, u)]}
        /\ openCh' \in {openCh, [openCh EXCEPT ![u] = @ \cup {ver}], [openCh EXCEPT ![u] = @ \cup {}]}
    BY <1>4 DEF UpdatePodDispatch
  <2>55. [NoWorker EXCEPT !.pc = "range"] \in Worker
    BY DEF NoWorker, Worker, PCs, NoWork
  <2> HIDE DEF recorded, work, channel, Channels, ver
  <2>6. status' \in [UIDs -> PodSyncStatus]
    BY <2>45 DEF TypeOK
  <2>7. podUpdates' \in [UIDs -> Channels]
    BY <2>3, <2>5 DEF TypeOK, Channels
  <2>8. undelivered' \in [UIDs -> Work \cup {NoWork}]
    BY <2>2, <2>5 DEF TypeOK
  <2>9. worker' \in [UIDs -> Worker]
    BY <2>5, <2>55 DEF TypeOK
  <2>10. waiting' \in [Fullnames -> Seq(UIDs)]
    <3>1. Fullname[u] \in Fullnames /\ waiting[Fullname[u]] \in Seq(UIDs)
      BY PodsAssumption DEF TypeOK
    <3>2. Append(waiting[Fullname[u]], u) \in Seq(UIDs)
      BY <3>1
    <3>3. QED
      BY <2>5, <3>1, <3>2 DEF TypeOK
  <2>11. openCh' \in [UIDs -> SUBSET Nat]
    BY <1>1, <2>5 DEF TypeOK
  <2>12. QED
    BY <1>1, <2>6, <2>7, <2>8, <2>9, <2>10, <2>11 DEF TypeOK, Channels
<1>5. QED
  BY <1>2, <1>3, <1>4 DEF UpdatePod

\* Updates of one entry of status or worker keep the types.
LEMMA EntryUpdates ==
  ASSUME TypeOK, NEW u \in UIDs
  PROVE  /\ \A t \in PodSyncStatus : [status EXCEPT ![u] = t] \in [UIDs -> PodSyncStatus]
         /\ \A pc \in PCs : [worker EXCEPT ![u].pc = pc] \in [UIDs -> Worker]
         /\ [worker EXCEPT ![u] = NoWorker] \in [UIDs -> Worker]
<1>1. worker[u] \in Worker
  BY DEF TypeOK
<1>2. ASSUME NEW pc \in PCs PROVE [worker[u] EXCEPT !.pc = pc] \in Worker
  BY <1>1 DEF Worker
<1>3. QED
  BY <1>2, ZeroValues DEF TypeOK

LEMMA FinishType ==
  ASSUME TypeOK, NEW u \in UIDs, NEW t \in BOOLEAN, Finish(u, t)
  PROVE  TypeOK'
<1>1. status[u] \in PodSyncStatus
  BY DEF TypeOK
<1>2. FinishedStatus(status[u], t) \in PodSyncStatus
  BY <1>1 DEF FinishedStatus, PodSyncStatus
<1>3. status' \in [UIDs -> PodSyncStatus]
  BY <1>2, EntryUpdates DEF Finish, TypeOK
<1>4. worker' \in [UIDs -> Worker]
  BY EntryUpdates DEF Finish
<1>5. /\ podUpdates' \in [UIDs -> [made: BOOLEAN, buf: Seq(Work)]]
      /\ undelivered' \in [UIDs -> Work \cup {NoWork}]
  BY ZeroValues DEF Finish, CleanupPodUpdates, TypeOK
<1>6. started' \in [Fullnames -> UIDs \cup {NoUID}]
  BY DEF Finish, ReleaseFullname, TypeOK
<1>7. QED
  BY <1>3, <1>4, <1>5, <1>6 DEF Finish, TypeOK

LEMMA ReceiveType ==
  ASSUME TypeOK, NEW u \in UIDs, Receive(u)
  PROVE  TypeOK'
<1>1. /\ podUpdates[u] \in [made: BOOLEAN, buf: Seq(Work)]
      /\ worker[u] \in Worker
      /\ podUpdates[u].buf # <<>>
  BY DEF Receive, TypeOK
<1>2. Head(podUpdates[u].buf) \in Work /\ Tail(podUpdates[u].buf) \in Seq(Work)
  BY <1>1
<1>3. ASSUME NEW w \in Work, NEW pc \in PCs
      PROVE  [worker[u] EXCEPT !.cur = w, !.pc = pc] \in Worker
  BY <1>1 DEF Worker
<1>4. [worker[u] EXCEPT !.cur = Head(podUpdates[u].buf),
                        !.pc = IF worker[u].podStarted THEN "status" ELSE "start"] \in Worker
  BY <1>2, <1>3 DEF PCs
<1>5. worker' \in [UIDs -> Worker]
  BY <1>4 DEF Receive, TypeOK
<1>6. podUpdates' \in [UIDs -> [made: BOOLEAN, buf: Seq(Work)]]
  BY <1>1, <1>2 DEF Receive, TypeOK
<1>7. QED
  BY <1>5, <1>6 DEF Receive, TypeOK

\* What allowStaticPodStart leaves of a waiting list is a list of UIDs.
LEMMA TrimWaitingType ==
  ASSUME TypeOK, NEW f \in Fullnames, NEW u \in UIDs
  PROVE  TrimWaiting(f, u) \in Seq(UIDs)
<1>1. waiting[f] \in Seq(UIDs)
  BY DEF TypeOK
<1>2. CASE LiveWaiting(f) = {}
  BY <1>1, <1>2 DEF TrimWaiting
<1>3. CASE LiveWaiting(f) # {}
  <2>1. \E i \in LiveWaiting(f) : \A j \in LiveWaiting(f) : i <= j
    <3>1. LiveWaiting(f) \subseteq Nat
      BY <1>1 DEF LiveWaiting
    <3>2. PICK i \in LiveWaiting(f) :
            \A j \in LiveWaiting(f) : <<j, i>> \notin OpToRel(<, Nat)
      BY <1>3, <3>1, NatLessThanWellFounded, WFMin
    <3>3. \A j \in LiveWaiting(f) : ~(j < i)
      BY <3>1, <3>2 DEF OpToRel
    <3>4. QED
      BY <3>1, <3>3
  <2>2. FirstLive(f) \in DOMAIN waiting[f]
    BY <2>1 DEF FirstLive, LiveWaiting
  <2>3. QED
    BY <1>1, <2>2 DEF TrimWaiting
<1>4. QED
  BY <1>2, <1>3

LEMMA AllowPodStartType ==
  ASSUME TypeOK, NEW u \in UIDs, AllowPodStart(u)
  PROVE  TypeOK'
<1> DEFINE f == Fullname[u]
<1>0. f \in Fullnames
  BY PodsAssumption
<1>1. worker[u] \in Worker /\ status[u] \in PodSyncStatus
  BY DEF TypeOK
<1>2. [worker[u] EXCEPT !.podStarted = TRUE, !.pc = "status"] \in Worker
  BY <1>1 DEF Worker, PCs
<1>3. worker' \in [UIDs -> Worker]
  <2>1. \/ worker' = [worker EXCEPT ![u] = [@ EXCEPT !.podStarted = TRUE, !.pc = "status"]]
        \/ worker' = [worker EXCEPT ![u].pc = "unstarted"]
        \/ worker' = [worker EXCEPT ![u].pc = "range"]
    BY DEF AllowPodStart, Goto
  <2>2. "unstarted" \in PCs /\ "range" \in PCs
    BY DEF PCs
  <2>3. QED
    <3>1. [worker EXCEPT ![u] = [@ EXCEPT !.podStarted = TRUE, !.pc = "status"]] \in [UIDs -> Worker]
      BY <1>2 DEF TypeOK
    <3>2. QED
      BY <2>1, <2>2, <3>1, EntryUpdates
<1>4. [status[u] EXCEPT !.working = FALSE] \in PodSyncStatus
  BY <1>1 DEF PodSyncStatus
<1>5. status' \in [UIDs -> PodSyncStatus]
  <2>1. status' = status \/ status' = [status EXCEPT ![u].working = FALSE]
    BY DEF AllowPodStart
  <2>2. QED
    BY <1>4, <2>1, EntryUpdates DEF TypeOK
<1>6. waiting' \in [Fullnames -> Seq(UIDs)]
  <2>1. waiting' = waiting \/ waiting' = [waiting EXCEPT ![f] = TrimWaiting(f, u)]
    BY DEF AllowPodStart
  <2>2. TrimWaiting(f, u) \in Seq(UIDs)
    BY <1>0, TrimWaitingType
  <2> HIDE DEF f
  <2>3. QED
    BY <1>0, <2>1, <2>2 DEF TypeOK
<1>7. started' \in [Fullnames -> UIDs \cup {NoUID}] /\ workQueue' \in SUBSET UIDs
  <2>1. /\ started' = started \/ started' = [started EXCEPT ![f] = u]
        /\ workQueue' = workQueue \/ workQueue' = workQueue \cup {u}
    BY DEF AllowPodStart
  <2> HIDE DEF f
  <2>2. QED
    BY <1>0, <2>1 DEF TypeOK
<1>8. QED
  BY <1>3, <1>5, <1>6, <1>7 DEF AllowPodStart, TypeOK

LEMMA CompleteWorkType ==
  ASSUME TypeOK, NEW u \in UIDs, CompleteWork(u)
  PROVE  TypeOK'
<1>1. /\ status[u] \in PodSyncStatus
      /\ podUpdates[u] \in [made: BOOLEAN, buf: Seq(Work)]
      /\ undelivered[u] \in Work \cup {NoWork}
  BY DEF TypeOK
<1>2. [status[u] EXCEPT !.working = FALSE] \in PodSyncStatus
  BY <1>1 DEF PodSyncStatus
<1>3. status' \in [UIDs -> PodSyncStatus]
  BY <1>2, EntryUpdates DEF CompleteWork, HasUndelivered, TypeOK
<1>4. worker' \in [UIDs -> Worker]
  BY EntryUpdates DEF CompleteWork, HasUndelivered, Goto, PCs
<1>5. undelivered[u] # NoWork => Append(podUpdates[u].buf, undelivered[u]) \in Seq(Work)
  BY <1>1
<1>55. undelivered[u] # NoWork =>
         [podUpdates[u] EXCEPT !.buf = Append(@, undelivered[u])] \in [made: BOOLEAN, buf: Seq(Work)]
  BY <1>1, <1>5
<1>6. podUpdates' \in [UIDs -> [made: BOOLEAN, buf: Seq(Work)]]
  BY <1>55 DEF CompleteWork, HasUndelivered, TypeOK
<1>7. undelivered' \in [UIDs -> Work \cup {NoWork}] /\ workQueue' \in SUBSET UIDs
  BY DEF CompleteWork, HasUndelivered, TypeOK
<1>8. QED
  BY <1>3, <1>4, <1>6, <1>7 DEF CompleteWork, HasUndelivered, TypeOK

\* The steps that change an entry of status, the position of the worker, and
\* at most the undelivered work and the open channels.
LEMMA PhaseStepType ==
  ASSUME TypeOK, NEW u \in UIDs,
         \/ GetNewerThan(u) \/ ContextForWorker(u) \/ AcknowledgeTerminating(u)
         \/ CompleteSync(u) \/ CompleteTerminating(u)
  PROVE  TypeOK'
<1>1. status[u] \in PodSyncStatus /\ worker[u] \in Worker
  BY DEF TypeOK
<1>2. CASE GetNewerThan(u)
  BY <1>2, EntryUpdates DEF GetNewerThan, Goto, PCs, TypeOK
<1>3. CASE ContextForWorker(u)
  <2>1. [status[u] EXCEPT !.ctx = RenewContext(@)] \in PodSyncStatus
    BY <1>1 DEF PodSyncStatus, RenewContext
  <2>2. QED
    BY <1>3, <2>1, EntryUpdates DEF ContextForWorker, Goto, PCs, TypeOK
<1>4. CASE AcknowledgeTerminating(u)
  <2>1. ASSUME NEW b \in BOOLEAN
        PROVE  [status[u] EXCEPT !.startedTerminating = b] \in PodSyncStatus
    BY <1>1 DEF PodSyncStatus
  <2>2. (status[u].startedTerminating \/ (status[u].known /\ status[u].terminating)) \in BOOLEAN
    OBVIOUS
  <2>3. status' \in [UIDs -> PodSyncStatus]
    BY <1>4, <2>1, <2>2, EntryUpdates DEF AcknowledgeTerminating
  <2>4. status[u].statusFn \in Nat
    BY <1>1 DEF PodSyncStatus
  <2>5. [worker[u] EXCEPT !.pc = "sync", !.statusFn = status[u].statusFn] \in Worker
    BY <1>1, <2>4 DEF Worker, PCs
  <2>6. QED
    BY <1>4, <2>3, <2>5 DEF AcknowledgeTerminating, TypeOK
<1>5. ASSUME Synced(u, "SyncPodWork") \/ Synced(u, "TerminatingPodWork")
      PROVE  \A t \in WorkTypes :
               [type |-> t, runtime |-> FALSE, grace |-> Nil, ver |-> worker[u].cur.ver] \in Work
  <2>1. worker[u].cur \in Work
    BY <1>1, <1>5 DEF Worker, Synced, NoWork
  <2>2. QED
    BY <2>1 DEF Work
<1>6. CASE CompleteSync(u)
  <2>1. [status[u] EXCEPT !.terminating = TRUE, !.startedTerminating = TRUE] \in PodSyncStatus
    BY <1>1 DEF PodSyncStatus
  <2>2. status' \in [UIDs -> PodSyncStatus]
    BY <1>6, <2>1, EntryUpdates DEF CompleteSync, TypeOK
  <2>3. undelivered' \in [UIDs -> Work \cup {NoWork}]
    BY <1>5, <1>6 DEF CompleteSync, WorkTypes, TypeOK
  <2>4. worker' \in [UIDs -> Worker]
    BY <1>6, EntryUpdates DEF CompleteSync, Goto, PCs
  <2>5. QED
    BY <1>6, <2>2, <2>3, <2>4 DEF CompleteSync, TypeOK
<1>7. CASE CompleteTerminating(u)
  <2>1. StoppedStatus(status[u]) \in PodSyncStatus
    BY <1>1 DEF PodSyncStatus, StoppedStatus
  <2>2. status' \in [UIDs -> PodSyncStatus]
    BY <1>7, <2>1, EntryUpdates DEF CompleteTerminating, TypeOK
  <2>3. undelivered' \in [UIDs -> Work \cup {NoWork}]
    BY <1>5, <1>7 DEF CompleteTerminating, WorkTypes, TypeOK
  <2>4. worker' \in [UIDs -> Worker] /\ openCh' \in [UIDs -> SUBSET Nat]
    BY <1>7, EntryUpdates DEF CompleteTerminating, Goto, PCs, TypeOK
  <2>5. QED
    BY <1>7, <2>2, <2>3, <2>4 DEF CompleteTerminating, TypeOK
<1>8. QED
  BY <1>2, <1>3, <1>4, <1>6, <1>7

LEMMA WorkerStepType ==
  ASSUME TypeOK, NEW u \in UIDs, WorkerStep(u)
  PROVE  TypeOK'
<1>1. status[u].terminated \in BOOLEAN
  BY DEF TypeOK, PodSyncStatus
<1>2. CASE CompleteTerminatingRuntimePod(u) \/ CompleteUnstartedTerminated(u) \/ CompleteTerminated(u)
  BY <1>1, <1>2, FinishType
     DEF CompleteTerminatingRuntimePod, CompleteUnstartedTerminated, CompleteTerminated
<1>3. QED
  BY <1>2, ReceiveType, AllowPodStartType, PhaseStepType, CompleteWorkType DEF WorkerStep

LEMMA SyncKnownPodsType ==
  ASSUME TypeOK, NEW desired \in SUBSET UIDs, SyncKnownPods(desired)
  PROVE  TypeOK'
BY ZeroValues DEF SyncKnownPods, TypeOK

\* Type correctness: no interleaving of callers, goroutines and housekeeping
\* takes a variable of the pod workers out of its type.
THEOREM TypeCorrect == Spec => []TypeOK
<1>1. Init => TypeOK
  <2>1. 0 \in 0..MaxCalls /\ <<>> \in Seq(UIDs)
    BY BoundsAssumption
  <2>2. QED
    BY <2>1, ZeroValues DEF Init, TypeOK
<1>2. TypeOK /\ [Next]_vars => TypeOK'
  <2>1. SUFFICES ASSUME TypeOK, [Next]_vars PROVE TypeOK'
    OBVIOUS
  <2>2. CASE UNCHANGED vars
    BY <2>1, <2>2 DEF TypeOK, vars
  <2>3. QED
    BY <2>1, <2>2, UpdatePodType, WorkerStepType, SyncKnownPodsType DEF Next
<1>3. QED
  BY <1>1, <1>2, PTL DEF Spec

-----------------------------------------------------------------------------
(* The inductive invariant *)

\* The invariant of one pod.
PodInv(u) ==
  /\ ChannelOK(u) /\ FlagsOK(u) /\ ContextOK(u)
  /\ u \notin StaticPods => PhaseOK(u)

LEMMA IInvByPod == IInv <=> TypeOK /\ \A u \in UIDs : PodInv(u)
BY DEF IInv, PodInv

\* A step that leaves a pod's own state alone leaves its invariant alone.
LEMMA Frame ==
  ASSUME NEW v \in UIDs, PodInv(v),
         status'[v] = status[v], podUpdates'[v] = podUpdates[v],
         undelivered'[v] = undelivered[v], worker'[v] = worker[v],
         openCh'[v] = openCh[v]
  PROVE  PodInv(v)'
BY DEF PodInv, ChannelOK, FlagsOK, ContextOK, PhaseOK, Current, Busy, At, Synced

\* What UpdatePod makes of the entry of a pod that is not finished.
LEMMA RecordedFields ==
  ASSUME NEW s \in PodSyncStatus, NEW r \in Requests, NEW ver \in Nat,
         NEW t, t = RecordKill(CheckTerminating(s, r), r, ver)
  PROVE  /\ t.known = s.known /\ t.working = s.working /\ t.finished = s.finished
         /\ t.terminated = s.terminated /\ t.startedTerminating = s.startedTerminating
         /\ t.ctx = s.ctx
         /\ t.terminating <=> s.terminating \/ BecomesTerminating(s, r)
         /\ ~t.terminating => t = s
         /\ t.notify = s.notify \/ (t.notify = s.notify \cup {ver} /\ r.ch /\ ~t.terminated)
<1> DEFINE m == CheckTerminating(s, r)
<1>1. /\ m.known = s.known /\ m.working = s.working /\ m.finished = s.finished
      /\ m.terminated = s.terminated /\ m.startedTerminating = s.startedTerminating
      /\ m.ctx = s.ctx /\ m.notify = s.notify
      /\ m.terminating <=> s.terminating \/ BecomesTerminating(s, r)
      /\ ~m.terminating => m = s
  BY DEF CheckTerminating, PodSyncStatus
<1>2. m \in PodSyncStatus
  <2>1. ASSUME NEW d \in BOOLEAN, NEW e \in BOOLEAN
        PROVE  [s EXCEPT !.terminating = TRUE, !.deleted = d, !.evicted = e] \in PodSyncStatus
    BY DEF PodSyncStatus
  <2>2. /\ (s.deleted \/ r.runtime \/ r.deletion) \in BOOLEAN
        /\ (s.evicted \/ /\ ~r.runtime /\ ~r.deletion /\ ~r.terminalPhase
                         /\ r.evict) \in BOOLEAN
    OBVIOUS
  <2>3. QED
    BY <2>1, <2>2 DEF CheckTerminating
<1> HIDE DEF m
<1>3. /\ t.known = m.known /\ t.working = m.working /\ t.finished = m.finished
      /\ t.terminated = m.terminated /\ t.startedTerminating = m.startedTerminating
      /\ t.ctx = m.ctx /\ t.terminating = m.terminating
      /\ ~m.terminating => t = m
      /\ t.notify = m.notify \/ (t.notify = m.notify \cup {ver} /\ r.ch /\ ~t.terminated)
  BY <1>2 DEF RecordKill, PodSyncStatus, m
<1>4. QED
  BY <1>1, <1>3

\* The parts of a pod's state that a worker's step may change, as the steps
\* below read them.
LEMMA PodTypes ==
  ASSUME TypeOK, NEW u \in UIDs
  PROVE  /\ status[u] \in PodSyncStatus
         /\ worker[u] \in Worker
         /\ podUpdates[u].made \in BOOLEAN
         /\ podUpdates[u].buf \in Seq(Work)
         /\ podUpdates[u] \in [made: BOOLEAN, buf: Seq(Work)]
BY DEF TypeOK

\* A channel of capacity one, when it is read and when it is written.
LEMMA OneElement ==
  /\ \A b \in Seq(Work) : b # <<>> /\ Len(b) = 1 => Tail(b) = <<>>
  /\ \A w \in Work : LET b == Append(<<>>, w)
                     IN  b \in Seq(Work) /\ b # <<>> /\ Len(b) = 1 /\ Head(b) = w
<1>1. ASSUME NEW b \in Seq(Work), b # <<>>, Len(b) = 1
      PROVE  Tail(b) = <<>>
  <2>1. Tail(b) \in Seq(Work) /\ Len(Tail(b)) = 0
    BY <1>1, HeadTailProperties
  <2>2. QED
    BY <2>1, EmptySeq
<1>2. ASSUME NEW w \in Work
      PROVE  LET b == Append(<<>>, w)
             IN  b \in Seq(Work) /\ b # <<>> /\ Len(b) = 1 /\ Head(b) = w
  OBVIOUS
<1>3. QED
  BY <1>1, <1>2

LEMMA ReceiveInv ==
  ASSUME TypeOK, NEW u \in UIDs, PodInv(u), Receive(u)
  PROVE  PodInv(u)'
<1>1. /\ status'[u] = status[u] /\ undelivered'[u] = undelivered[u]
      /\ openCh'[u] = openCh[u]
      /\ podUpdates'[u].made = podUpdates[u].made
      /\ podUpdates'[u].buf = Tail(podUpdates[u].buf)
      /\ worker'[u].cur = Head(podUpdates[u].buf)
      /\ worker'[u].pc = "status" \/ worker'[u].pc = "start"
  BY PodTypes DEF Receive, TypeOK, Worker
<1>2. /\ podUpdates[u].buf # <<>> /\ podUpdates'[u].buf = <<>>
      /\ worker[u].pc = "range"
  <2>1. /\ podUpdates[u].buf # <<>> /\ Len(podUpdates[u].buf) = 1
        /\ worker[u].pc = "range"
    BY DEF Receive, At, PodInv, ChannelOK
  <2>2. QED
    BY <1>1, <2>1, OneElement, PodTypes
<1>3. Current(u)' = Current(u)
  BY <1>1, <1>2 DEF Current, Busy
<1>4. ChannelOK(u)'
  BY <1>1, <1>2 DEF PodInv, ChannelOK, Busy
<1>5. FlagsOK(u)'
  BY <1>1, <1>2, <1>3 DEF PodInv, FlagsOK
<1>6. ContextOK(u)'
  BY <1>1 DEF ContextOK, At, Synced
<1>7. PhaseOK(u) => PhaseOK(u)'
  BY <1>1, <1>3 DEF PhaseOK, At
<1>8. QED
  BY <1>4, <1>5, <1>6, <1>7 DEF PodInv

LEMMA AllowPodStartInv ==
  ASSUME TypeOK, NEW u \in UIDs, PodInv(u), AllowPodStart(u)
  PROVE  PodInv(u)'
<1>1. /\ undelivered'[u] = undelivered[u] /\ openCh'[u] = openCh[u]
      /\ podUpdates'[u] = podUpdates[u]
      /\ worker[u].pc = "start"
      /\ worker'[u].cur = worker[u].cur
      /\ \/ worker'[u].pc = "status" /\ status'[u] = status[u]
         \/ /\ worker'[u].pc = "unstarted" /\ status'[u] = status[u]
            /\ u \in StaticPods /\ NeverStarts(u)
         \/ /\ worker'[u].pc = "range" /\ status'[u] = [status[u] EXCEPT !.working = FALSE]
            /\ u \in StaticPods
  <2>1. /\ UNCHANGED <<undelivered, openCh, podUpdates>>
        /\ worker[u].pc = "start"
        /\ \/ /\ worker' = [worker EXCEPT ![u] = [@ EXCEPT !.podStarted = TRUE, !.pc = "status"]]
              /\ status' = status
           \/ /\ worker' = [worker EXCEPT ![u].pc = "unstarted"] /\ status' = status
              /\ u \in StaticPods /\ NeverStarts(u)
           \/ /\ worker' = [worker EXCEPT ![u].pc = "range"] /\ u \in StaticPods
              /\ status' = [status EXCEPT ![u].working = FALSE]
    BY DEF AllowPodStart, At, Goto, IsStaticPod
  <2>2. CASE /\ worker' = [worker EXCEPT ![u] = [@ EXCEPT !.podStarted = TRUE, !.pc = "status"]]
             /\ status' = status
    <3>1. worker'[u] = [worker[u] EXCEPT !.podStarted = TRUE, !.pc = "status"]
      BY <2>2 DEF TypeOK
    <3>2. worker'[u].pc = "status" /\ worker'[u].cur = worker[u].cur
      BY <3>1, PodTypes DEF Worker
    <3>3. QED
      BY <2>1, <2>2, <3>2
  <2>3. CASE /\ worker' = [worker EXCEPT ![u].pc = "unstarted"] /\ status' = status
             /\ u \in StaticPods /\ NeverStarts(u)
    <3>1. worker'[u].pc = "unstarted" /\ worker'[u].cur = worker[u].cur
      BY <2>3, PodTypes DEF TypeOK, Worker
    <3>2. QED
      BY <2>1, <2>3, <3>1
  <2>4. CASE /\ worker' = [worker EXCEPT ![u].pc = "range"] /\ u \in StaticPods
             /\ status' = [status EXCEPT ![u].working = FALSE]
    <3>1. worker'[u].pc = "range" /\ worker'[u].cur = worker[u].cur
      BY <2>4, PodTypes DEF TypeOK, Worker
    <3>2. status'[u] = [status[u] EXCEPT !.working = FALSE]
      BY <2>4 DEF TypeOK
    <3>3. QED
      BY <2>1, <2>4, <3>1, <3>2
  <2>5. QED
    BY <2>1, <2>2, <2>3, <2>4
<1>2. /\ podUpdates[u].made /\ podUpdates[u].buf = <<>> /\ status[u].known
  BY <1>1 DEF PodInv, ChannelOK
<1>3. CASE worker'[u].pc # "range"
  <2>1. Current(u)' = Current(u)
    BY <1>1, <1>3 DEF Current, Busy
  <2>2. status'[u] = status[u]
    BY <1>1, <1>3
  <2>3. ChannelOK(u)'
    BY <1>1, <1>2, <1>3, <2>2 DEF PodInv, ChannelOK, Busy
  <2>4. FlagsOK(u)'
    BY <1>1, <1>2, <1>3, <2>1, <2>2 DEF PodInv, FlagsOK, NeverStarts
  <2>5. ContextOK(u)'
    BY <1>1, <1>3 DEF ContextOK, At, Synced
  <2>6. u \notin StaticPods => (PhaseOK(u) => PhaseOK(u)')
    BY <1>1, <1>3, <2>1, <2>2 DEF PhaseOK, At
  <2>7. QED
    BY <2>3, <2>4, <2>5, <2>6 DEF PodInv
<1>4. CASE worker'[u].pc = "range"
  <2>1. Current(u)' = NoWork
    BY <1>1, <1>2, <1>4 DEF Current, Busy
  <2>2. u \in StaticPods /\ status'[u] = [status[u] EXCEPT !.working = FALSE]
    BY <1>1, <1>4
  <2>3. /\ status'[u].known = status[u].known
        /\ status'[u].working = FALSE
        /\ status'[u].finished = status[u].finished
        /\ status'[u].terminated = status[u].terminated
        /\ status'[u].terminating = status[u].terminating
        /\ status'[u].startedTerminating = status[u].startedTerminating
        /\ status'[u].gracePeriod = status[u].gracePeriod
        /\ status'[u].notify = status[u].notify
        /\ status'[u].evicted = status[u].evicted
        /\ status'[u].deleted = status[u].deleted
    BY <2>2, PodTypes DEF PodSyncStatus
  <2>4. ChannelOK(u)'
    BY <1>1, <1>2, <1>4, <2>3 DEF PodInv, ChannelOK, Busy
  <2>5. FlagsOK(u)'
    BY <1>1, <1>2, <1>4, <2>1, <2>3 DEF PodInv, FlagsOK, NoWork
  <2>6. ContextOK(u)'
    BY <1>4 DEF ContextOK, At, Synced
  <2>7. QED
    BY <2>2, <2>4, <2>5, <2>6 DEF PodInv
<1>5. QED
  BY <1>3, <1>4

LEMMA GetNewerThanInv ==
  ASSUME TypeOK, NEW u \in UIDs, PodInv(u), GetNewerThan(u)
  PROVE  PodInv(u)'
<1>1. /\ status'[u] = status[u] /\ undelivered'[u] = undelivered[u]
      /\ openCh'[u] = openCh[u] /\ podUpdates'[u] = podUpdates[u]
      /\ worker[u].pc = "status" /\ worker'[u].pc = "context"
      /\ worker'[u].cur = worker[u].cur
  BY PodTypes DEF GetNewerThan, TypeOK, Worker, At, Goto
<1>2. Current(u)' = Current(u)
  BY <1>1 DEF Current, Busy
<1>3. QED
  BY <1>1, <1>2 DEF PodInv, ChannelOK, FlagsOK, ContextOK, PhaseOK, Busy, At, Synced

LEMMA ContextForWorkerInv ==
  ASSUME TypeOK, NEW u \in UIDs, PodInv(u), ContextForWorker(u)
  PROVE  PodInv(u)'
<1>1. /\ undelivered'[u] = undelivered[u]
      /\ openCh'[u] = openCh[u] /\ podUpdates'[u] = podUpdates[u]
      /\ worker[u].pc = "context"
      /\ worker'[u].pc = IF worker[u].cur.type = "TerminatingPodWork" THEN "acknowledge" ELSE "sync"
      /\ worker'[u].cur = worker[u].cur
  BY PodTypes DEF ContextForWorker, TypeOK, Worker, At, Goto
<1>2. status[u].known /\ podUpdates[u].buf = <<>>
  BY <1>1 DEF PodInv, ChannelOK
<1>3. status'[u] = [status[u] EXCEPT !.ctx = RenewContext(@)]
  BY <1>2 DEF ContextForWorker, TypeOK
<1>4. /\ status'[u].known = status[u].known
      /\ status'[u].working = status[u].working
      /\ status'[u].finished = status[u].finished
      /\ status'[u].terminated = status[u].terminated
      /\ status'[u].terminating = status[u].terminating
      /\ status'[u].startedTerminating = status[u].startedTerminating
      /\ status'[u].gracePeriod = status[u].gracePeriod
      /\ status'[u].notify = status[u].notify
      /\ status'[u].evicted = status[u].evicted
      /\ status'[u].deleted = status[u].deleted
      /\ status'[u].ctx # "canceled"
  BY <1>3, PodTypes DEF PodSyncStatus, RenewContext
<1>5. Current(u)' = Current(u)
  BY <1>1 DEF Current, Busy
<1>6. ChannelOK(u)'
  BY <1>1, <1>4 DEF PodInv, ChannelOK, Busy
<1>7. FlagsOK(u)'
  BY <1>1, <1>2, <1>4, <1>5 DEF PodInv, FlagsOK
<1>8. ContextOK(u)'
  BY <1>1, <1>4 DEF ContextOK, At, Synced
<1>9. PhaseOK(u) => PhaseOK(u)'
  BY <1>1, <1>4, <1>5 DEF PhaseOK, At
<1>10. QED
  BY <1>6, <1>7, <1>8, <1>9 DEF PodInv

LEMMA AcknowledgeTerminatingInv ==
  ASSUME TypeOK, NEW u \in UIDs, PodInv(u), AcknowledgeTerminating(u)
  PROVE  PodInv(u)'
<1>1. /\ undelivered'[u] = undelivered[u]
      /\ openCh'[u] = openCh[u] /\ podUpdates'[u] = podUpdates[u]
      /\ worker[u].pc = "acknowledge" /\ worker'[u].pc = "sync"
      /\ worker'[u].cur = worker[u].cur
  BY PodTypes DEF AcknowledgeTerminating, TypeOK, Worker, At
<1>2. /\ status[u].known /\ podUpdates[u].buf = <<>>
      /\ worker[u].cur.type = "TerminatingPodWork"
      /\ Current(u) = worker[u].cur
      /\ status[u].terminating
  BY <1>1 DEF PodInv, ChannelOK, ContextOK, FlagsOK, Current, Busy, At
<1>3. /\ status'[u].known = status[u].known
      /\ status'[u].working = status[u].working
      /\ status'[u].finished = status[u].finished
      /\ status'[u].terminated = status[u].terminated
      /\ status'[u].terminating = status[u].terminating
      /\ status'[u].startedTerminating
      /\ status'[u].gracePeriod = status[u].gracePeriod
      /\ status'[u].notify = status[u].notify
      /\ status'[u].evicted = status[u].evicted
      /\ status'[u].deleted = status[u].deleted
      /\ status'[u].ctx = status[u].ctx
  BY <1>2, PodTypes DEF AcknowledgeTerminating, TypeOK, PodSyncStatus
<1>5. Current(u)' = Current(u)
  BY <1>1 DEF Current, Busy
<1>6. ChannelOK(u)'
  BY <1>1, <1>3 DEF PodInv, ChannelOK, Busy
<1>7. FlagsOK(u)'
  BY <1>1, <1>2, <1>3, <1>5 DEF PodInv, FlagsOK
<1>8. ContextOK(u)'
  BY <1>1, <1>3 DEF PodInv, ContextOK, At, Synced
<1>9. PhaseOK(u) => PhaseOK(u)'
  BY <1>1, <1>2, <1>3, <1>5 DEF PhaseOK, At
<1>10. QED
  BY <1>6, <1>7, <1>8, <1>9 DEF PodInv

LEMMA CompleteSyncInv ==
  ASSUME TypeOK, NEW u \in UIDs, PodInv(u), CompleteSync(u)
  PROVE  PodInv(u)'
<1>1. /\ undelivered'[u].type = "TerminatingPodWork"
      /\ openCh'[u] = openCh[u] /\ podUpdates'[u] = podUpdates[u]
      /\ worker[u].pc = "sync" /\ worker'[u].pc = "queueNext"
      /\ worker[u].cur.type = "SyncPodWork"
  BY PodTypes DEF CompleteSync, TypeOK, Worker, At, Goto, Synced
<1>2. /\ status[u].known /\ podUpdates[u].buf = <<>>
      /\ Current(u) = worker[u].cur
  BY <1>1 DEF PodInv, ChannelOK, Current, Busy
<1>3. /\ status'[u].known = status[u].known
      /\ status'[u].working = status[u].working
      /\ status'[u].finished = status[u].finished
      /\ status'[u].terminated = status[u].terminated
      /\ status'[u].terminating /\ status'[u].startedTerminating
      /\ status'[u].notify = status[u].notify
  BY <1>2, PodTypes DEF CompleteSync, TypeOK, PodSyncStatus
<1>5. Current(u)' = NoWork
  BY <1>1, <1>2 DEF Current, Busy
<1>6. ChannelOK(u)'
  BY <1>1, <1>3 DEF PodInv, ChannelOK, Busy
<1>7. FlagsOK(u)'
  BY <1>1, <1>2, <1>3, <1>5 DEF PodInv, FlagsOK, NoWork
<1>8. ContextOK(u)'
  BY <1>1 DEF ContextOK, At, Synced
<1>9. PhaseOK(u) => PhaseOK(u)'
  <2>1. PhaseOK(u) => ~status[u].terminated
    BY <1>1, <1>2 DEF PhaseOK
  <2>2. status[u].working
    BY <1>1 DEF PodInv, ChannelOK, Busy
  <2>3. QED
    BY <1>1, <1>3, <1>5, <2>1, <2>2 DEF PhaseOK, At, NoWork
<1>10. QED
  BY <1>6, <1>7, <1>8, <1>9 DEF PodInv

LEMMA CompleteTerminatingInv ==
  ASSUME TypeOK, NEW u \in UIDs, PodInv(u), CompleteTerminating(u)
  PROVE  PodInv(u)'
<1>1. /\ undelivered'[u].type = "TerminatedPodWork"
      /\ podUpdates'[u] = podUpdates[u]
      /\ worker[u].pc = "sync" /\ worker'[u].pc = "queueNext"
      /\ worker[u].cur.type = "TerminatingPodWork"
  BY PodTypes DEF CompleteTerminating, TypeOK, Worker, At, Goto, Synced
<1>2. /\ status[u].known /\ podUpdates[u].buf = <<>>
      /\ Current(u) = worker[u].cur
      /\ status[u].startedTerminating /\ status[u].terminating
      /\ status[u].working
  BY <1>1 DEF PodInv, ChannelOK, ContextOK, FlagsOK, Current, Busy, At, Synced
<1>3. /\ status'[u].known = status[u].known
      /\ status'[u].working = status[u].working
      /\ status'[u].finished = status[u].finished
      /\ status'[u].terminated
      /\ status'[u].terminating = status[u].terminating
      /\ status'[u].startedTerminating = status[u].startedTerminating
      /\ status'[u].notify = {}
  BY <1>2, PodTypes DEF CompleteTerminating, StoppedStatus, TypeOK, PodSyncStatus
<1>5. Current(u)' = NoWork
  BY <1>1, <1>2 DEF Current, Busy
<1>6. ChannelOK(u)'
  BY <1>1, <1>3 DEF PodInv, ChannelOK, Busy
<1>7. FlagsOK(u)'
  BY <1>1, <1>2, <1>3, <1>5 DEF FlagsOK, NoWork
<1>8. ContextOK(u)'
  BY <1>1 DEF ContextOK, At, Synced
<1>9. PhaseOK(u)'
  BY <1>1, <1>2, <1>3, <1>5 DEF PhaseOK, At, NoWork
<1>10. QED
  BY <1>6, <1>7, <1>8, <1>9 DEF PodInv

\* The three ways in which a goroutine ends.
LEMMA FinishInv ==
  ASSUME TypeOK, NEW u \in UIDs, PodInv(u), worker[u].pc # "none", Finish(u, TRUE),
         status[u].terminating,
         u \notin StaticPods => status[u].startedTerminating
  PROVE  PodInv(u)'
<1>1. /\ undelivered'[u] = NoWork /\ podUpdates'[u] = NoChannel
      /\ worker'[u] = NoWorker /\ openCh'[u] = openCh[u]
  BY DEF Finish, CleanupPodUpdates, TypeOK
<1>2. status[u].known
  BY DEF PodInv, ChannelOK
<1>3. /\ status'[u].known = status[u].known
      /\ status'[u].working = FALSE
      /\ status'[u].finished /\ status'[u].terminated
      /\ status'[u].terminating = status[u].terminating
      /\ status'[u].startedTerminating = status[u].startedTerminating
      /\ status'[u].notify = status[u].notify
  BY <1>2, PodTypes DEF Finish, FinishedStatus, TypeOK, PodSyncStatus
<1>5. Current(u)' = NoWork
  BY <1>1 DEF Current, Busy, NoWorker, NoChannel
<1>6. ChannelOK(u)'
  BY <1>1, <1>3 DEF ChannelOK, Busy, NoWorker, NoChannel
<1>7. FlagsOK(u)'
  BY <1>1, <1>2, <1>3, <1>5 DEF PodInv, FlagsOK, NoWork
<1>8. ContextOK(u)'
  BY <1>1 DEF ContextOK, At, Synced, NoWorker
<1>9. u \notin StaticPods => PhaseOK(u)'
  BY <1>1, <1>3, <1>5 DEF PhaseOK, At, NoWork, NoWorker
<1>10. QED
  BY <1>6, <1>7, <1>8, <1>9 DEF PodInv

LEMMA CompleteInv ==
  ASSUME TypeOK, NEW u \in UIDs, PodInv(u),
         \/ CompleteTerminatingRuntimePod(u) \/ CompleteUnstartedTerminated(u)
         \/ CompleteTerminated(u)
  PROVE  PodInv(u)'
<1>1. CASE CompleteTerminatingRuntimePod(u)
  <2>1. /\ worker[u].pc = "sync" /\ status[u].startedTerminating /\ Finish(u, TRUE)
    BY <1>1 DEF CompleteTerminatingRuntimePod, Synced, At, PodInv, ContextOK
  <2>2. status[u].terminating
    BY <2>1 DEF PodInv, FlagsOK
  <2>3. QED
    BY <2>1, <2>2, FinishInv
<1>2. CASE CompleteUnstartedTerminated(u)
  <2>1. worker[u].pc = "unstarted" /\ Finish(u, TRUE)
    BY <1>2 DEF CompleteUnstartedTerminated, At
  <2>2. status[u].terminating /\ u \in StaticPods
    BY <2>1 DEF PodInv, FlagsOK, PhaseOK, At
  <2>3. QED
    BY <2>1, <2>2, FinishInv
<1>3. CASE CompleteTerminated(u)
  <2>1. /\ worker[u].pc = "sync" /\ worker[u].cur.type = "TerminatedPodWork"
        /\ Finish(u, status[u].terminated)
    BY <1>3 DEF CompleteTerminated, Synced, At
  <2>2. podUpdates[u].buf = <<>>
    BY <2>1 DEF PodInv, ChannelOK
  <2>3. Current(u) = worker[u].cur
    BY <2>1, <2>2 DEF Current, Busy
  <2>4. status[u].terminated /\ status[u].terminating
    BY <2>1, <2>3 DEF PodInv, FlagsOK
  <2>5. status[u].terminated = TRUE
    BY <2>4, PodTypes DEF PodSyncStatus
  <2>6. u \notin StaticPods => status[u].startedTerminating
    BY <2>4 DEF PodInv, PhaseOK
  <2>7. QED
    BY <2>1, <2>4, <2>5, <2>6, FinishInv
<1>4. QED
  BY <1>1, <1>2, <1>3

LEMMA CompleteWorkInv ==
  ASSUME TypeOK, NEW u \in UIDs, PodInv(u), CompleteWork(u)
  PROVE  PodInv(u)'
<1>1. /\ worker[u].pc = "queueNext" \/ worker[u].pc = "sync" \/ worker[u].pc = "status"
      /\ worker'[u].pc = "range"
      /\ openCh'[u] = openCh[u]
  BY PodTypes DEF CompleteWork, HasUndelivered, IterationDone, TypeOK, Worker, At, Goto, Synced
<1>2. /\ podUpdates[u].made /\ podUpdates[u].buf = <<>> /\ status[u].known
      /\ status[u].working
  BY <1>1 DEF PodInv, ChannelOK, Busy
<1>3. ContextOK(u)'
  BY <1>1 DEF ContextOK, At, Synced
<1>4. CASE undelivered[u] # NoWork
  <2>1. /\ undelivered'[u] = NoWork /\ status'[u] = status[u]
        /\ podUpdates'[u].made = podUpdates[u].made
        /\ podUpdates'[u].buf = Append(<<>>, undelivered[u])
    <3>1. podUpdates' = [podUpdates EXCEPT ![u].buf = Append(@, undelivered[u])]
      BY <1>4 DEF CompleteWork, HasUndelivered
    <3>2. podUpdates'[u] = [podUpdates[u] EXCEPT !.buf = Append(@, undelivered[u])]
      BY <3>1 DEF TypeOK
    <3>3. /\ podUpdates'[u].made = podUpdates[u].made
          /\ podUpdates'[u].buf = Append(podUpdates[u].buf, undelivered[u])
      BY <3>2, PodTypes
    <3>4. QED
      BY <1>2, <1>4, <3>3 DEF CompleteWork, HasUndelivered, TypeOK
  <2>15. /\ podUpdates'[u].buf # <<>> /\ Len(podUpdates'[u].buf) = 1
         /\ Head(podUpdates'[u].buf) = undelivered[u]
    BY <1>4, <2>1, OneElement DEF TypeOK
  <2>2. Current(u)' = undelivered[u]
    BY <2>15 DEF Current
  <2>3. ChannelOK(u)'
    BY <1>1, <1>2, <2>1, <2>15 DEF PodInv, ChannelOK, Busy
  <2>4. FlagsOK(u)'
    BY <1>1, <2>1, <2>2 DEF PodInv, FlagsOK, NoWork
  <2>5. PhaseOK(u) => PhaseOK(u)'
    <3>1. status[u].startedTerminating => status[u].terminating
      BY DEF PodInv, FlagsOK
    <3>2. QED
      BY <1>1, <1>2, <2>1, <2>2, <3>1 DEF PhaseOK, At, NoWork
  <2>6. QED
    BY <1>3, <2>3, <2>4, <2>5 DEF PodInv
<1>5. CASE undelivered[u] = NoWork
  <2>1. /\ undelivered'[u] = NoWork /\ podUpdates'[u] = podUpdates[u]
        /\ status' = [status EXCEPT ![u].working = FALSE]
    BY <1>5 DEF CompleteWork, HasUndelivered, TypeOK
  <2>2. /\ status'[u].known = status[u].known
        /\ status'[u].working = FALSE
        /\ status'[u].finished = status[u].finished
        /\ status'[u].terminated = status[u].terminated
        /\ status'[u].terminating = status[u].terminating
        /\ status'[u].startedTerminating = status[u].startedTerminating
        /\ status'[u].gracePeriod = status[u].gracePeriod
        /\ status'[u].notify = status[u].notify
        /\ status'[u].evicted = status[u].evicted
        /\ status'[u].deleted = status[u].deleted
    BY <2>1, PodTypes DEF TypeOK, PodSyncStatus
  <2>3. Current(u)' = NoWork
    BY <1>1, <1>2, <2>1 DEF Current, Busy
  <2>4. ChannelOK(u)'
    BY <1>1, <1>2, <2>1, <2>2 DEF PodInv, ChannelOK, Busy
  <2>5. FlagsOK(u)'
    BY <1>1, <1>2, <2>1, <2>2, <2>3 DEF PodInv, FlagsOK, NoWork
  <2>6. PhaseOK(u) => PhaseOK(u)'
    BY <1>1, <2>1, <2>2, <2>3 DEF PhaseOK, At, NoWork
  <2>7. QED
    BY <1>3, <2>4, <2>5, <2>6 DEF PodInv
<1>6. QED
  BY <1>4, <1>5

LEMMA WorkerStepInv ==
  ASSUME TypeOK, NEW u \in UIDs, PodInv(u), WorkerStep(u)
  PROVE  PodInv(u)'
BY ReceiveInv, AllowPodStartInv, GetNewerThanInv, ContextForWorkerInv,
   AcknowledgeTerminatingInv, CompleteSyncInv, CompleteTerminatingInv, CompleteInv,
   CompleteWorkInv
   DEF WorkerStep

LEMMA SyncKnownPodsInv ==
  ASSUME TypeOK, NEW desired \in SUBSET UIDs, SyncKnownPods(desired),
         NEW u \in UIDs, PodInv(u)
  PROVE  PodInv(u)'
<1>1. worker'[u] = worker[u] /\ openCh'[u] = openCh[u]
  BY DEF SyncKnownPods
<1>2. CASE u \notin Forgotten(desired)
  <2>1. /\ status'[u] = status[u] /\ podUpdates'[u] = podUpdates[u]
        /\ undelivered'[u] = undelivered[u]
    BY <1>2 DEF SyncKnownPods
  <2>2. QED
    BY <1>1, <2>1, Frame
<1>3. CASE u \in Forgotten(desired)
  <2>1. /\ status'[u] = NoStatus /\ podUpdates'[u] = NoChannel
        /\ undelivered'[u] = NoWork
    BY <1>3 DEF SyncKnownPods
  <2>2. worker'[u].pc = "none"
    BY <1>1, <1>3 DEF Forgotten, PodInv, ChannelOK
  <2>3. Current(u)' = NoWork
    BY <2>1, <2>2 DEF Current, Busy, NoChannel
  <2>4. ChannelOK(u)'
    BY <2>1, <2>2 DEF ChannelOK, Busy, NoChannel, NoStatus
  <2>5. FlagsOK(u)'
    BY <2>1, <2>2, <2>3 DEF FlagsOK, NoStatus, NoWork
  <2>6. ContextOK(u)' /\ PhaseOK(u)'
    BY <2>1, <2>2, <2>3 DEF ContextOK, PhaseOK, At, Synced, NoStatus, NoWork
  <2>7. QED
    BY <2>4, <2>5, <2>6 DEF PodInv
<1>4. QED
  BY <1>2, <1>3

LEMMA UpdatePodReturnsInv ==
  ASSUME TypeOK, NEW u \in UIDs, PodInv(u), NEW r \in Requests, NEW c \in BOOLEAN,
         NEW s, s = LookupStatus(u, r, c), UpdatePodReturns(u, r, s)
  PROVE  PodInv(u)'
<1>1. /\ podUpdates'[u] = podUpdates[u] /\ undelivered'[u] = undelivered[u]
      /\ worker'[u] = worker[u] /\ openCh[u] \subseteq openCh'[u]
  BY DEF UpdatePodReturns, TypeOK
<1>2. s \in PodSyncStatus
  BY EntryTypes, 0 \in Nat
<1>3. status'[u] = s \/ status'[u] = [s EXCEPT !.restartRequested = TRUE]
  BY DEF UpdatePodReturns, TypeOK
<1>4. /\ status'[u].known = s.known
      /\ status'[u].working = s.working
      /\ status'[u].finished = s.finished
      /\ status'[u].terminated = s.terminated
      /\ status'[u].terminating = s.terminating
      /\ status'[u].startedTerminating = s.startedTerminating
      /\ status'[u].gracePeriod = s.gracePeriod
      /\ status'[u].notify = s.notify
      /\ status'[u].evicted = s.evicted
      /\ status'[u].deleted = s.deleted
      /\ status'[u].ctx = s.ctx
  BY <1>2, <1>3 DEF PodSyncStatus
<1>5. Current(u)' = Current(u)
  BY <1>1 DEF Current, Busy
<1>6. CASE status[u].known
  <2>1. s = status[u]
    BY <1>6 DEF LookupStatus
  <2>2. QED
    BY <1>1, <1>4, <1>5, <1>6, <2>1
       DEF PodInv, ChannelOK, FlagsOK, ContextOK, PhaseOK, Busy, At, Synced
<1>7. CASE ~status[u].known
  <2>1. /\ s.known /\ ~s.working /\ s.notify = {}
        /\ s.gracePeriod = 0 /\ ~s.evicted /\ ~s.deleted
        /\ \/ s.finished /\ s.terminated /\ s.terminating /\ s.startedTerminating
           \/ ~s.finished /\ ~s.terminated /\ ~s.terminating /\ ~s.startedTerminating
    BY <1>7 DEF LookupStatus, NoStatus
  <2>2. /\ status[u] = NoStatus /\ ~podUpdates[u].made /\ worker[u].pc = "none"
        /\ podUpdates[u].buf = <<>>
    BY <1>7 DEF PodInv, FlagsOK, ChannelOK
  <2>3. Current(u) = NoWork
    BY <2>2 DEF Current, Busy
  <2>4. ChannelOK(u)'
    BY <1>1, <1>4, <2>1, <2>2 DEF ChannelOK, Busy
  <2>5. FlagsOK(u)'
    BY <1>1, <1>4, <1>5, <2>1, <2>2, <2>3 DEF PodInv, FlagsOK, NoWork, NoStatus
  <2>6. ContextOK(u)'
    BY <1>1, <2>2 DEF ContextOK, At, Synced
  <2>7. PhaseOK(u) => PhaseOK(u)'
    BY <1>1, <1>4, <1>5, <2>1, <2>2, <2>3 DEF PhaseOK, At, NoWork, NoStatus
  <2>8. QED
    BY <2>4, <2>5, <2>6, <2>7 DEF PodInv
<1>8. QED
  BY <1>6, <1>7

\* The entry UpdatePod goes on with is the known one, or a fresh one of a pod
\* that has neither goroutine nor channel.
LEMMA DispatchEntry ==
  ASSUME TypeOK, NEW u \in UIDs, PodInv(u), NEW r \in Requests, NEW c \in BOOLEAN,
         NEW s, s = LookupStatus(u, r, c), ~s.finished
  PROVE  /\ s \in PodSyncStatus
         /\ s.known
         /\ s.working = status[u].working
         /\ s.terminating = status[u].terminating
         /\ s.startedTerminating = status[u].startedTerminating
         /\ s.terminated = status[u].terminated
         /\ s.notify = status[u].notify
         /\ ~s.terminating => s.gracePeriod = 0 /\ s.notify = {} /\ ~s.evicted /\ ~s.deleted
         /\ s.ctx = status[u].ctx
<1>1. s \in PodSyncStatus
  BY EntryTypes, 0 \in Nat
<1>2. CASE status[u].known
  BY <1>1, <1>2 DEF LookupStatus, PodInv, FlagsOK
<1>3. CASE ~status[u].known
  <2>1. status[u] = NoStatus
    BY <1>3 DEF PodInv, FlagsOK
  <2>2. QED
    BY <1>1, <1>3, <2>1 DEF LookupStatus, NoStatus
<1>4. QED
  BY <1>2, <1>3

LEMMA UpdatePodDispatchInv ==
  ASSUME TypeOK, NEW u \in UIDs, PodInv(u), NEW r \in Requests, NEW c \in BOOLEAN,
         NEW s, s = LookupStatus(u, r, c), UpdatePodDispatch(u, r, s)
  PROVE  PodInv(u)'
<1> DEFINE ver == calls[u] + 1
           recorded == RecordKill(CheckTerminating(s, r), r, ver)
           work == NewWork(recorded, r, ver)
<1>1. ver \in Nat
  BY BoundsAssumption DEF TypeOK
<1>2. /\ ~s.finished /\ s \in PodSyncStatus /\ s.known
      /\ s.working = status[u].working
      /\ s.terminating = status[u].terminating
      /\ s.startedTerminating = status[u].startedTerminating
      /\ s.terminated = status[u].terminated
      /\ s.notify = status[u].notify
      /\ ~s.terminating => s.gracePeriod = 0 /\ s.notify = {} /\ ~s.evicted /\ ~s.deleted
      /\ s.ctx = status[u].ctx
  <2>1. ~s.finished
    BY DEF UpdatePodDispatch
  <2>2. QED
    BY <2>1, DispatchEntry
<1>3. recorded \in PodSyncStatus
  BY <1>1, EntryTypes
<1>4. /\ recorded.known = s.known /\ recorded.working = s.working
      /\ recorded.finished = s.finished
      /\ recorded.terminated = s.terminated
      /\ recorded.startedTerminating = s.startedTerminating
      /\ recorded.ctx = s.ctx
      /\ s.terminating => recorded.terminating
      /\ ~recorded.terminating => recorded = s
      /\ \/ recorded.notify = s.notify
         \/ recorded.notify = s.notify \cup {ver} /\ r.ch /\ ~recorded.terminated
  <2>1. recorded = RecordKill(CheckTerminating(s, r), r, ver)
    OBVIOUS
  <2>2. s \in PodSyncStatus
    BY <1>2
  <2> HIDE DEF recorded, ver, work
  <2>3. /\ recorded.known = s.known /\ recorded.working = s.working
        /\ recorded.finished = s.finished
        /\ recorded.terminated = s.terminated
        /\ recorded.startedTerminating = s.startedTerminating
        /\ recorded.ctx = s.ctx
        /\ recorded.terminating <=> s.terminating \/ BecomesTerminating(s, r)
        /\ ~recorded.terminating => recorded = s
        /\ \/ recorded.notify = s.notify
           \/ recorded.notify = s.notify \cup {ver} /\ r.ch /\ ~recorded.terminated
    BY <1>1, <2>1, <2>2, RecordedFields
  <2>4. QED
    BY <2>3
<1>5. work \in Work /\ work.type = WorkTypeOf(recorded)
  BY <1>1, <1>3, NewWorkType DEF NewWork
<1>6. /\ work.type = "SyncPodWork" <=> ~recorded.terminating /\ ~recorded.terminated
      /\ work.type = "TerminatingPodWork" <=> recorded.terminating /\ ~recorded.terminated
      /\ work.type = "TerminatedPodWork" <=> recorded.terminated
  BY <1>3, <1>5 DEF WorkTypeOf, PodSyncStatus
<1>7. work # NoWork
  BY <1>5 DEF Work, WorkTypes, NoWork
<1>8. /\ openCh' = [openCh EXCEPT ![u] = @ \cup (IF r.ch /\ work.type = "TerminatingPodWork"
                                               THEN {ver} ELSE {})]
      /\ podUpdates[u].made => worker' = worker
      /\ ~podUpdates[u].made => worker' = [worker EXCEPT ![u] = [NoWorker EXCEPT !.pc = "range"]]
      /\ \/ /\ ~s.working
            /\ status' = [status EXCEPT ![u] = [recorded EXCEPT !.working = TRUE]]
            /\ podUpdates' = [podUpdates EXCEPT ![u] =
                 [(IF podUpdates[u].made THEN podUpdates[u] ELSE [made |-> TRUE, buf |-> <<>>])
                    EXCEPT !.buf = Append(@, work)]]
            /\ undelivered' = undelivered
         \/ /\ s.working
            /\ undelivered' = [undelivered EXCEPT ![u] = work]
            /\ status' = [status EXCEPT ![u] = recorded]
                 \/ status' = [status EXCEPT ![u] = [recorded EXCEPT !.ctx = "canceled"]]
            /\ podUpdates' = [podUpdates EXCEPT ![u] =
                 IF podUpdates[u].made THEN podUpdates[u] ELSE [made |-> TRUE, buf |-> <<>>]]
  BY DEF UpdatePodDispatch, IsWorking, CancelSync
<1> HIDE DEF ver, recorded, work
<1>9. recorded.notify \subseteq openCh'[u]
  <2>1. s.notify \subseteq openCh[u]
    BY <1>2 DEF PodInv, FlagsOK
  <2>2. openCh'[u] = openCh[u] \cup (IF r.ch /\ work.type = "TerminatingPodWork"
                                     THEN {ver} ELSE {})
    BY <1>8 DEF TypeOK
  <2>3. CASE recorded.terminating
    BY <1>4, <1>6, <2>1, <2>2, <2>3
  <2>4. CASE ~recorded.terminating
    BY <1>4, <2>1, <2>2, <2>4
  <2>5. QED
    BY <2>3, <2>4
<1>10. /\ ~recorded.terminating => recorded.gracePeriod = 0 /\ recorded.notify = {}
                                   /\ ~recorded.evicted /\ ~recorded.deleted
       /\ recorded.terminated => recorded.terminating
       /\ recorded.startedTerminating => recorded.terminating
  BY <1>2, <1>4 DEF PodInv, FlagsOK
<1>11. CASE ~s.working
  <2>1. /\ status'[u] = [recorded EXCEPT !.working = TRUE]
        /\ undelivered'[u] = undelivered[u]
    BY <1>8, <1>11 DEF TypeOK
  <2>2. podUpdates[u].buf = <<>> /\ (worker[u].pc = "none" \/ worker[u].pc = "range")
    BY <1>2, <1>11 DEF PodInv, ChannelOK, Busy
  <2>3. podUpdates'[u].made /\ podUpdates'[u].buf = Append(<<>>, work)
    <3>1. podUpdates' = [podUpdates EXCEPT ![u] =
                 [(IF podUpdates[u].made THEN podUpdates[u] ELSE [made |-> TRUE, buf |-> <<>>])
                    EXCEPT !.buf = Append(@, work)]]
      BY <1>8, <1>11
    <3>2. podUpdates'[u] = [(IF podUpdates[u].made THEN podUpdates[u] ELSE [made |-> TRUE, buf |-> <<>>])
                              EXCEPT !.buf = Append(@, work)]
      BY <3>1 DEF TypeOK
    <3>3. QED
      BY <2>2, <3>2, PodTypes
  <2>4. /\ podUpdates'[u].buf # <<>> /\ Len(podUpdates'[u].buf) = 1
        /\ Head(podUpdates'[u].buf) = work
    BY <1>5, <2>3, OneElement
  <2>5. worker'[u].pc = "range"
    <3>1. [NoWorker EXCEPT !.pc = "range"].pc = "range"
      BY DEF NoWorker
    <3>2. QED
      BY <1>8, <2>2, <3>1 DEF TypeOK, PodInv, ChannelOK
  <2>6. Current(u)' = work
    BY <2>4 DEF Current
  <2>7. /\ status'[u].known = recorded.known
        /\ status'[u].working
        /\ status'[u].finished = recorded.finished
        /\ status'[u].terminated = recorded.terminated
        /\ status'[u].terminating = recorded.terminating
        /\ status'[u].startedTerminating = recorded.startedTerminating
        /\ status'[u].gracePeriod = recorded.gracePeriod
        /\ status'[u].notify = recorded.notify
        /\ status'[u].evicted = recorded.evicted
        /\ status'[u].deleted = recorded.deleted
    BY <1>3, <2>1 DEF PodSyncStatus
  <2>8. ChannelOK(u)'
    BY <1>2, <1>4, <2>3, <2>4, <2>5, <2>7 DEF ChannelOK, Busy
  <2>9. FlagsOK(u)'
    <3>1. ASSUME NEW w \in {work, undelivered[u]}
          PROVE  /\ w.type = "TerminatingPodWork" => recorded.terminating
                 /\ w.type = "TerminatedPodWork" => recorded.terminated
      BY <1>2, <1>4, <1>6 DEF PodInv, FlagsOK
    <3>2. undelivered'[u] = undelivered[u]
      BY <2>1
    <3>3. recorded.known /\ ~recorded.finished
      BY <1>2, <1>4
    <3>4. QED
      BY <1>9, <1>10, <2>5, <2>6, <2>7, <3>1, <3>2, <3>3 DEF FlagsOK
  <2>10. ContextOK(u)'
    BY <2>5 DEF ContextOK, At, Synced
  <2>11. PhaseOK(u) => PhaseOK(u)'
    <3>1. PhaseOK(u) => undelivered[u] = NoWork
      BY <1>2, <1>11 DEF PhaseOK
    <3>2. QED
      BY <1>2, <1>4, <1>6, <1>10, <2>1, <2>5, <2>6, <2>7, <3>1 DEF PhaseOK, At, NoWork
  <2>12. QED
    BY <2>8, <2>9, <2>10, <2>11 DEF PodInv
<1>12. CASE s.working
  <2>1. podUpdates[u].made
    BY <1>2, <1>12 DEF PodInv, ChannelOK, Busy
  <2>2. /\ undelivered'[u] = work /\ worker'[u] = worker[u] /\ podUpdates'[u] = podUpdates[u]
        /\ status'[u] = recorded \/ status'[u] = [recorded EXCEPT !.ctx = "canceled"]
    BY <1>8, <1>12, <2>1 DEF TypeOK
  <2>3. Current(u)' = Current(u)
    BY <2>2 DEF Current, Busy
  <2>4. /\ status'[u].known = recorded.known
        /\ status'[u].working = recorded.working
        /\ status'[u].finished = recorded.finished
        /\ status'[u].terminated = recorded.terminated
        /\ status'[u].terminating = recorded.terminating
        /\ status'[u].startedTerminating = recorded.startedTerminating
        /\ status'[u].gracePeriod = recorded.gracePeriod
        /\ status'[u].notify = recorded.notify
        /\ status'[u].evicted = recorded.evicted
        /\ status'[u].deleted = recorded.deleted
    BY <1>3, <2>2 DEF PodSyncStatus
  <2>5. ChannelOK(u)'
    BY <1>2, <1>4, <2>1, <2>2, <2>4 DEF PodInv, ChannelOK, Busy
  <2>6. FlagsOK(u)'
    BY <1>2, <1>4, <1>6, <1>9, <1>10, <2>2, <2>3, <2>4 DEF PodInv, FlagsOK
  <2>7. ContextOK(u)'
    BY <1>2, <1>4, <1>7, <2>2, <2>4 DEF PodInv, ContextOK, At, Synced
  <2>8. PhaseOK(u) => PhaseOK(u)'
    BY <1>2, <1>4, <1>6, <1>10, <1>12, <2>2, <2>3, <2>4 DEF PhaseOK, At
  <2>9. QED
    BY <2>5, <2>6, <2>7, <2>8 DEF PodInv
<1>13. QED
  BY <1>11, <1>12

-----------------------------------------------------------------------------
(* A step is a step of one pod. *)

LEMMA UpdatePodInv ==
  ASSUME TypeOK, NEW u \in UIDs, PodInv(u), NEW r \in Requests, UpdatePod(u, r)
  PROVE  PodInv(u)'
<1>1. CASE UpdatePodIgnored(u, r)
  <2>1. /\ status'[u] = status[u] /\ podUpdates'[u] = podUpdates[u]
        /\ undelivered'[u] = undelivered[u] /\ worker'[u] = worker[u]
        /\ openCh[u] \subseteq openCh'[u]
    BY <1>1 DEF UpdatePodIgnored, TypeOK
  <2>2. Current(u)' = Current(u)
    BY <2>1 DEF Current, Busy
  <2>3. ChannelOK(u)' /\ FlagsOK(u)' /\ ContextOK(u)'
    BY <2>1, <2>2 DEF PodInv, ChannelOK, FlagsOK, ContextOK, Busy, At, Synced
  <2>4. PhaseOK(u) => PhaseOK(u)'
    BY <2>1, <2>2 DEF PhaseOK, At
  <2>5. QED
    BY <2>3, <2>4 DEF PodInv
<1>2. QED
  BY <1>1, UpdatePodReturnsInv, UpdatePodDispatchInv DEF UpdatePod

\* A call or a worker's step for one pod leaves the state of the others alone.
LEMMA OtherPods ==
  ASSUME TypeOK, NEW u \in UIDs, NEW v \in UIDs \ {u},
         WorkerStep(u) \/ \E r \in Requests : UpdatePod(u, r)
  PROVE  /\ status'[v] = status[v] /\ podUpdates'[v] = podUpdates[v]
         /\ undelivered'[v] = undelivered[v] /\ worker'[v] = worker[v]
         /\ openCh'[v] = openCh[v]
<1>1. CASE \E r \in Requests : UpdatePod(u, r)
  <2>1. PICK r \in Requests : UpdatePod(u, r)
    BY <1>1
  <2>2. \/ UNCHANGED <<status, podUpdates, undelivered, worker>>
        \/ /\ \E x : status' = [status EXCEPT ![u] = x]
           /\ podUpdates' = podUpdates \/ \E x : podUpdates' = [podUpdates EXCEPT ![u] = x]
           /\ undelivered' = undelivered \/ \E x : undelivered' = [undelivered EXCEPT ![u] = x]
           /\ worker' = worker \/ \E x : worker' = [worker EXCEPT ![u] = x]
    BY <2>1 DEF UpdatePod, UpdatePodIgnored, UpdatePodReturns, UpdatePodDispatch
  <2>3. \E x : openCh' = [openCh EXCEPT ![u] = x]
    BY <2>1 DEF UpdatePod, UpdatePodIgnored, UpdatePodReturns, UpdatePodDispatch
  <2>4. QED
    BY <2>2, <2>3 DEF TypeOK
<1>2. CASE Receive(u)
  BY <1>2 DEF Receive, TypeOK
<1>3. CASE AllowPodStart(u)
  <2>1. /\ UNCHANGED <<podUpdates, undelivered, openCh>>
        /\ status' = status \/ status' = [status EXCEPT ![u].working = FALSE]
        /\ \/ worker' = [worker EXCEPT ![u] = [@ EXCEPT !.podStarted = TRUE, !.pc = "status"]]
           \/ worker' = [worker EXCEPT ![u].pc = "unstarted"]
           \/ worker' = [worker EXCEPT ![u].pc = "range"]
    BY <1>3 DEF AllowPodStart, Goto
  <2>2. QED
    BY <2>1 DEF TypeOK
<1>4. CASE GetNewerThan(u)
  BY <1>4 DEF GetNewerThan, Goto, TypeOK
<1>5. CASE ContextForWorker(u)
  BY <1>5 DEF ContextForWorker, Goto, TypeOK
<1>6. CASE AcknowledgeTerminating(u)
  BY <1>6 DEF AcknowledgeTerminating, TypeOK
<1>7. CASE CompleteSync(u)
  BY <1>7 DEF CompleteSync, Goto, TypeOK
<1>8. CASE CompleteTerminating(u)
  BY <1>8 DEF CompleteTerminating, Goto, TypeOK
<1>9. CASE CompleteTerminatingRuntimePod(u) \/ CompleteUnstartedTerminated(u)
           \/ CompleteTerminated(u)
  BY <1>9 DEF CompleteTerminatingRuntimePod, CompleteUnstartedTerminated,
              CompleteTerminated, Finish, CleanupPodUpdates, TypeOK
<1>10. CASE CompleteWork(u)
  BY <1>10 DEF CompleteWork, HasUndelivered, Goto, TypeOK
<1>11. QED
  BY <1>1, <1>2, <1>3, <1>4, <1>5, <1>6, <1>7, <1>8, <1>9, <1>10 DEF WorkerStep

LEMMA InitInv == Init => IInv
<1>1. Init => TypeOK
  <2>1. 0 \in 0..MaxCalls /\ <<>> \in Seq(UIDs)
    BY BoundsAssumption
  <2>2. QED
    BY <2>1, ZeroValues DEF Init, TypeOK
<1>2. ASSUME Init, NEW u \in UIDs
      PROVE  PodInv(u)
  <2>1. /\ status[u] = NoStatus /\ podUpdates[u] = NoChannel /\ undelivered[u] = NoWork
        /\ worker[u] = NoWorker /\ openCh[u] = {}
    BY <1>2 DEF Init
  <2>2. Current(u) = NoWork
    BY <2>1 DEF Current, Busy, NoChannel, NoWorker
  <2>3. ChannelOK(u)
    BY <2>1 DEF ChannelOK, Busy, NoChannel, NoWorker, NoStatus
  <2>4. FlagsOK(u)
    BY <2>1, <2>2 DEF FlagsOK, NoStatus, NoWork, NoWorker
  <2>5. ContextOK(u) /\ PhaseOK(u)
    BY <2>1, <2>2 DEF ContextOK, PhaseOK, At, Synced, NoStatus, NoWork, NoWorker
  <2>6. QED
    BY <2>3, <2>4, <2>5 DEF PodInv
<1>3. QED
  BY <1>1, <1>2, IInvByPod

LEMMA StepInv == IInv /\ [Next]_vars => IInv'
<1>1. SUFFICES ASSUME TypeOK, \A v \in UIDs : PodInv(v), [Next]_vars
               PROVE  TypeOK' /\ \A v \in UIDs : PodInv(v)'
  BY IInvByPod DEF IInv, PodInv
<1>2. CASE UNCHANGED vars
  <2>1. TypeOK'
    BY <1>1, <1>2 DEF TypeOK, vars
  <2>2. ASSUME NEW v \in UIDs PROVE PodInv(v)'
    BY <1>1, <1>2, Frame DEF vars
  <2>3. QED
    BY <2>1, <2>2
<1>3. ASSUME NEW u \in UIDs, WorkerStep(u) \/ \E r \in Requests : UpdatePod(u, r)
      PROVE  TypeOK' /\ \A v \in UIDs : PodInv(v)'
  <2>1. TypeOK'
    BY <1>1, <1>3, WorkerStepType, UpdatePodType
  <2>2. PodInv(u)'
    BY <1>1, <1>3, WorkerStepInv, UpdatePodInv
  <2>3. ASSUME NEW v \in UIDs \ {u} PROVE PodInv(v)'
    BY <1>1, <1>3, OtherPods, Frame
  <2>4. QED
    BY <2>1, <2>2, <2>3
<1>4. ASSUME NEW desired \in SUBSET UIDs, SyncKnownPods(desired)
      PROVE  TypeOK' /\ \A v \in UIDs : PodInv(v)'
  BY <1>1, <1>4, SyncKnownPodsType, SyncKnownPodsInv
<1>5. QED
  BY <1>1, <1>2, <1>3, <1>4 DEF Next

\* The inductive invariant holds in every reachable state.
THEOREM Invariance == Spec => []IInv
BY InitInv, StepInv, PTL DEF Spec

-----------------------------------------------------------------------------
(* The safety properties *)

\* UpdatePod and completeWorkQueueNext never send on a missing or full channel
\* while they hold podLock.
THEOREM SendSafe == Spec => []SendNeverBlocks
<1>1. IInv => SendNeverBlocks
  <2>1. SUFFICES ASSUME IInv, NEW u \in UIDs
                 PROVE  /\ podUpdates[u].made <=> worker[u].pc # "none"
                        /\ Len(podUpdates[u].buf) <= 1
                        /\ Busy(u) => podUpdates[u].buf = <<>>
                        /\ ~podUpdates[u].made => podUpdates[u].buf = <<>>
    BY DEF SendNeverBlocks
  <2>2. ChannelOK(u)
    BY <2>1 DEF IInv
  <2>3. Len(podUpdates[u].buf) <= 1
    <3>1. Len(podUpdates[u].buf) = 0 \/ Len(podUpdates[u].buf) = 1
      BY <2>2, EmptySeq, Zenon DEF ChannelOK
    <3>2. ASSUME NEW n, n = 0 \/ n = 1 PROVE n <= 1
      BY <3>2
    <3>3. QED
      BY <3>1, <3>2, Zenon
  <2>4. QED
    BY <2>2, <2>3 DEF ChannelOK, Busy
<1>2. QED
  BY <1>1, Invariance, PTL

\* No pod is left marked working with nothing in flight.
THEOREM WorkingSafe == Spec => []WorkingIffInFlight
<1>1. IInv => WorkingIffInFlight
  BY DEF IInv, ChannelOK, WorkingIffInFlight
<1>2. QED
  BY <1>1, Invariance, PTL

\* The flags of a pod are in the order of its life.
THEOREM LifecycleSafe == Spec => []LifecycleOrder
<1>1. IInv => LifecycleOrder
  <2>1. SUFFICES ASSUME IInv, NEW u \in UIDs
                 PROVE  LET s == status[u] IN
                        /\ s.finished => s.terminated /\ ~s.working /\ worker[u].pc = "none"
                        /\ s.terminated => s.terminating
                        /\ s.startedTerminating => s.terminating
                        /\ ~s.terminating => s.gracePeriod = 0 /\ s.notify = {} /\ ~s.evicted /\ ~s.deleted
    BY DEF LifecycleOrder
  <2>2. ChannelOK(u) /\ FlagsOK(u)
    BY <2>1 DEF IInv
  <2>3. status[u].finished => ~status[u].working /\ worker[u].pc = "none"
    BY <2>2 DEF ChannelOK, Busy
  <2>4. QED
    BY <2>2, <2>3 DEF FlagsOK
<1>2. QED
  BY <1>1, Invariance, PTL

\* The sync functions of a pod of the API server run in the right phase.
THEOREM PhasesSafe == Spec => []PhasesNeverMix
<1>1. IInv => PhasesNeverMix
  <2>1. SUFFICES ASSUME IInv, NEW u \in UIDs \ StaticPods, At(u, "sync")
                 PROVE  LET type == worker[u].cur.type IN
                        /\ status[u].known
                        /\ type = "SyncPodWork" => ~ShouldPodContainersBeTerminating(u)
                        /\ type = "TerminatingPodWork" =>
                             ShouldPodContainersBeTerminating(u) /\ CouldHaveRunningContainers(u)
                        /\ type = "TerminatedPodWork" =>
                             ShouldPodRuntimeBeRemoved(u) /\ ~CouldHaveRunningContainers(u)
    BY DEF PhasesNeverMix, WorkMatchesPhase
  <2>2. ChannelOK(u) /\ FlagsOK(u) /\ ContextOK(u) /\ PhaseOK(u)
    BY <2>1 DEF IInv
  <2>3. status[u].known /\ podUpdates[u].buf = <<>> /\ Current(u) = worker[u].cur
    BY <2>1, <2>2 DEF ChannelOK, Current, Busy, At
  <2>4. QED
    BY <2>1, <2>2, <2>3 DEF FlagsOK, ContextOK, PhaseOK, Synced,
       ShouldPodContainersBeTerminating, CouldHaveRunningContainers, ShouldPodRuntimeBeRemoved
<1>2. QED
  BY <1>1, Invariance, PTL

\* A cancelled sync always has the update that cancelled it behind it.
THEOREM CanceledSafe == Spec => []CanceledHasSuccessor
<1>1. IInv => CanceledHasSuccessor
  BY DEF IInv, ContextOK, CanceledHasSuccessor, At
<1>2. QED
  BY <1>1, Invariance, PTL

\* completeTerminating never closes a channel twice.
THEOREM NotifySafe == Spec => []NotifyStaysOpen
<1>1. IInv => NotifyStaysOpen
  BY DEF IInv, FlagsOK, NotifyStaysOpen
<1>2. QED
  BY <1>1, Invariance, PTL

\* No step takes a termination back: terminatingAt and startedTerminating are
\* never reset while the pod has a goroutine.
THEOREM TerminationSafe == Spec => TerminationIsFinal
<1>1. IInv /\ [Next]_vars => [\A u \in UIDs : TerminationKept(u)]_vars
  <2>1. SUFFICES ASSUME IInv, Next, NEW v \in UIDs PROVE TerminationKept(v)
    OBVIOUS
  <2>2. TypeOK /\ PodInv(v)
    BY <2>1, IInvByPod
  <2>3. status[v] \in PodSyncStatus
    BY <2>2, PodTypes
  <2>35. LET idle == [status EXCEPT ![v].working = FALSE]
         IN  /\ idle[v].terminating = status[v].terminating
             /\ idle[v].startedTerminating = status[v].startedTerminating
    <3>1. [status EXCEPT ![v].working = FALSE][v] = [status[v] EXCEPT !.working = FALSE]
      BY <2>2 DEF TypeOK
    <3>2. /\ [status[v] EXCEPT !.working = FALSE].terminating = status[v].terminating
          /\ [status[v] EXCEPT !.working = FALSE].startedTerminating = status[v].startedTerminating
      BY <2>3 DEF PodSyncStatus
    <3>3. QED
      BY <3>1, <3>2
  <2>4. ASSUME NEW u \in UIDs, u # v, WorkerStep(u) \/ \E r \in Requests : UpdatePod(u, r)
        PROVE  TerminationKept(v)
    BY <2>2, <2>4, OtherPods DEF TerminationKept
  <2>5. ASSUME NEW desired \in SUBSET UIDs, SyncKnownPods(desired)
        PROVE  TerminationKept(v)
    <3>1. status'[v] = IF v \in Forgotten(desired) THEN NoStatus ELSE status[v]
      BY <2>5 DEF SyncKnownPods
    <3>2. v \in Forgotten(desired) => status[v].finished /\ worker[v].pc = "none"
      BY <2>2 DEF Forgotten, PodInv, ChannelOK
    <3>3. QED
      BY <3>1, <3>2 DEF TerminationKept
  <2>6. ASSUME WorkerStep(v)
        PROVE  TerminationKept(v)
    <3>1. CASE Receive(v) \/ GetNewerThan(v)
      BY <3>1 DEF Receive, GetNewerThan, TerminationKept
    <3>2. CASE AllowPodStart(v)
      <4>1. status' = status \/ status' = [status EXCEPT ![v].working = FALSE]
        BY <3>2 DEF AllowPodStart
      <4>2. QED
        BY <2>35, <4>1 DEF TerminationKept
    <3>3. CASE ContextForWorker(v)
      BY <2>2, <2>3, <3>3 DEF ContextForWorker, TypeOK, PodSyncStatus, TerminationKept
    <3>4. CASE AcknowledgeTerminating(v)
      BY <2>2, <2>3, <3>4 DEF AcknowledgeTerminating, TypeOK, PodSyncStatus, TerminationKept
    <3>5. CASE CompleteSync(v)
      BY <2>2, <2>3, <3>5 DEF CompleteSync, TypeOK, PodSyncStatus, TerminationKept
    <3>6. CASE CompleteTerminating(v)
      BY <2>2, <2>3, <3>6 DEF CompleteTerminating, StoppedStatus, TypeOK, PodSyncStatus, TerminationKept
    <3>7. CASE CompleteTerminatingRuntimePod(v) \/ CompleteUnstartedTerminated(v) \/ CompleteTerminated(v)
      <4>1. status' = status \/ \E t : status' = [status EXCEPT ![v] = FinishedStatus(@, t)]
        BY <3>7 DEF CompleteTerminatingRuntimePod, CompleteUnstartedTerminated,
                    CompleteTerminated, Finish
      <4>2. QED
        <5>1. ASSUME NEW t
              PROVE  /\ FinishedStatus(status[v], t).terminating = status[v].terminating
                     /\ FinishedStatus(status[v], t).startedTerminating = status[v].startedTerminating
          BY <2>3 DEF FinishedStatus, PodSyncStatus
        <5>2. status'[v] = status[v] \/ \E t : status'[v] = FinishedStatus(status[v], t)
          BY <2>2, <4>1 DEF TypeOK
        <5>3. QED
          BY <5>1, <5>2 DEF TerminationKept
    <3>8. CASE CompleteWork(v)
      <4>1. status' = status \/ status' = [status EXCEPT ![v].working = FALSE]
        BY <3>8 DEF CompleteWork, HasUndelivered
      <4>2. QED
        BY <2>35, <4>1 DEF TerminationKept
    <3>9. QED
      BY <2>6, <3>1, <3>2, <3>3, <3>4, <3>5, <3>6, <3>7, <3>8 DEF WorkerStep
  <2>7. ASSUME NEW r \in Requests, UpdatePod(v, r)
        PROVE  TerminationKept(v)
    <3>1. CASE UpdatePodIgnored(v, r)
      BY <3>1 DEF UpdatePodIgnored, TerminationKept
    <3>2. CASE ~status[v].known
      <4>1. status[v] = NoStatus
        BY <2>2, <3>2 DEF PodInv, FlagsOK
      <4>2. QED
        BY <4>1 DEF NoStatus, TerminationKept
    <3>3. ASSUME status[v].known, UpdatePodReturns(v, r, status[v])
          PROVE  TerminationKept(v)
      BY <2>2, <2>3, <3>3 DEF UpdatePodReturns, TypeOK, PodSyncStatus, TerminationKept
    <3>4. ASSUME status[v].known, UpdatePodDispatch(v, r, status[v])
          PROVE  TerminationKept(v)
      <4> DEFINE ver == calls[v] + 1
                 recorded == RecordKill(CheckTerminating(status[v], r), r, ver)
      <4>1. ver \in Nat
        BY <2>2, BoundsAssumption DEF TypeOK
      <4>2. \/ status' = [status EXCEPT ![v] = [recorded EXCEPT !.working = TRUE]]
            \/ status' = [status EXCEPT ![v] = recorded]
            \/ status' = [status EXCEPT ![v] = [recorded EXCEPT !.ctx = "canceled"]]
        BY <3>4 DEF UpdatePodDispatch, CancelSync
      <4>3. recorded \in PodSyncStatus
        BY <2>2, <3>4, <4>1, EntryTypes DEF LookupStatus
      <4>4. recorded = RecordKill(CheckTerminating(status[v], r), r, ver)
        OBVIOUS
      <4> HIDE DEF recorded, ver
      <4>5. /\ recorded.startedTerminating = status[v].startedTerminating
            /\ recorded.terminating <=> status[v].terminating \/ BecomesTerminating(status[v], r)
        BY <2>3, <4>1, <4>4, RecordedFields
      <4>6. /\ status'[v].terminating = recorded.terminating
            /\ status'[v].startedTerminating = recorded.startedTerminating
        BY <2>2, <4>2, <4>3 DEF TypeOK, PodSyncStatus
      <4>7. QED
        BY <4>5, <4>6 DEF TerminationKept
    <3>5. QED
      BY <2>7, <3>1, <3>2, <3>3, <3>4 DEF UpdatePod, LookupStatus
  <2>8. QED
    BY <2>1, <2>4, <2>5, <2>6, <2>7 DEF Next
<1>2. QED
  BY <1>1, Invariance, PTL DEF Spec, TerminationIsFinal

-----------------------------------------------------------------------------
(* Names of static pods *)

\* What a step for one pod does with its goroutine and with the names.
LEMMA NameSteps ==
  ASSUME TypeOK, NEW u \in UIDs, PodInv(u),
         WorkerStep(u) \/ \E r \in Requests : UpdatePod(u, r)
  PROVE  \/ /\ worker'[u].podStarted = worker[u].podStarted
            /\ worker'[u].pc = "none" => worker[u].pc = "none"
            /\ started' = started
         \/ /\ worker[u].pc = "none" /\ ~worker'[u].podStarted
            /\ started' = started
         \/ /\ worker[u].pc # "none" /\ worker'[u].podStarted /\ worker'[u].pc # "none"
            /\ \/ started' = started /\ (u \in StaticPods => worker[u].cur.runtime)
               \/ /\ started[Fullname[u]] \in {NoUID, u}
                  /\ started' = [started EXCEPT ![Fullname[u]] = u]
         \/ /\ ~worker'[u].podStarted
            /\ \/ started[Fullname[u]] # u /\ started' = started
               \/ started[Fullname[u]] = u /\ started' = [started EXCEPT ![Fullname[u]] = NoUID]
<1>0. /\ worker \in [UIDs -> Worker] /\ worker[u] \in Worker
      /\ worker[u].pc # "none" <=> podUpdates[u].made
      /\ podUpdates[u].made => status[u].known
  BY PodTypes DEF TypeOK, PodInv, ChannelOK
<1>1. ASSUME NEW r \in Requests, UpdatePod(u, r)
      PROVE  /\ started' = started
             /\ \/ worker' = worker
                \/ /\ ~podUpdates[u].made
                   /\ worker' = [worker EXCEPT ![u] = [NoWorker EXCEPT !.pc = "range"]]
  BY <1>1 DEF UpdatePod, UpdatePodIgnored, UpdatePodReturns, UpdatePodDispatch
<1>2. CASE \E r \in Requests : UpdatePod(u, r)
  BY <1>0, <1>1, <1>2 DEF NoWorker
<1>3. CASE Receive(u)
  BY <1>0, <1>3 DEF Receive, Worker
<1>4. CASE AllowPodStart(u)
  <2> DEFINE f == Fullname[u]
             static == IsStaticPod(u, worker[u].cur.runtime)
  <2>1. worker[u].pc = "start"
    BY <1>4 DEF AllowPodStart, At
  <2>2. \/ /\ worker' = [worker EXCEPT ![u] = [@ EXCEPT !.podStarted = TRUE, !.pc = "status"]]
           /\ \/ ~static /\ started' = started
              \/ AllowStaticPodStart(f, u) /\ started' = [started EXCEPT ![f] = u]
        \/ /\ worker' = [worker EXCEPT ![u].pc = "unstarted"] /\ started' = started
        \/ /\ worker' = [worker EXCEPT ![u].pc = "range"] /\ started' = started
    BY <1>4 DEF AllowPodStart, Goto
  <2>3. AllowStaticPodStart(f, u) => started[f] \in {NoUID, u}
    BY DEF AllowStaticPodStart
  <2>4. ~static => (u \in StaticPods => worker[u].cur.runtime)
    BY DEF IsStaticPod
  <2> HIDE DEF static
  <2>5. CASE worker' = [worker EXCEPT ![u] = [@ EXCEPT !.podStarted = TRUE, !.pc = "status"]]
    <3>1. worker'[u].podStarted /\ worker'[u].pc = "status"
      BY <2>5, <1>0 DEF Worker
    <3>2. worker[u].pc # "none" /\ worker'[u].podStarted /\ worker'[u].pc # "none"
      BY <3>1, <2>1
    <3>3. \/ ~static /\ started' = started
          \/ AllowStaticPodStart(f, u) /\ started' = [started EXCEPT ![f] = u]
      <4>1. \A pc \in {"unstarted", "range"} : worker' # [worker EXCEPT ![u].pc = pc]
        BY <3>1, <1>0 DEF Worker
      <4> QED
        BY <4>1, <2>2
    <3>4. CASE ~static /\ started' = started
      BY <3>2, <3>4, <2>4
    <3>5. CASE AllowStaticPodStart(f, u) /\ started' = [started EXCEPT ![f] = u]
      BY <3>2, <3>5, <2>3
    <3> QED
      BY <3>3, <3>4, <3>5
  <2>6. CASE started' = started /\ \E pc \in {"unstarted", "range"} : worker' = [worker EXCEPT ![u].pc = pc]
    BY <2>6, <1>0 DEF Worker
  <2> QED
    BY <2>2, <2>5, <2>6
<1>5. CASE GetNewerThan(u) \/ ContextForWorker(u) \/ CompleteSync(u) \/ CompleteTerminating(u)
           \/ CompleteWork(u)
  <2>1. /\ started' = started
        /\ \E pc \in {"context", "acknowledge", "sync", "queueNext", "range"} :
             worker' = [worker EXCEPT ![u].pc = pc]
    BY <1>5 DEF GetNewerThan, ContextForWorker, CompleteSync, CompleteTerminating, CompleteWork, Goto
  <2> QED
    BY <2>1, <1>0 DEF Worker
<1>6. CASE AcknowledgeTerminating(u)
  BY <1>0, <1>6 DEF AcknowledgeTerminating, Worker
<1>7. CASE CompleteTerminatingRuntimePod(u) \/ CompleteUnstartedTerminated(u)
           \/ CompleteTerminated(u)
  <2>1. /\ worker[u].pc # "none" /\ worker' = [worker EXCEPT ![u] = NoWorker]
        /\ ReleaseFullname(u)
    BY <1>7 DEF CompleteTerminatingRuntimePod, CompleteUnstartedTerminated, CompleteTerminated,
                Finish, Synced, At
  <2> QED
    BY <2>1, <1>0 DEF ReleaseFullname, NoWorker
<1> QED
  BY <1>2, <1>3, <1>4, <1>5, <1>6, <1>7 DEF WorkerStep

\* A name is held by a goroutine that has started its pod.
LEMMA NamesStep == IInv /\ NamesOK /\ [Next]_vars => NamesOK'
<1> SUFFICES ASSUME TypeOK, \A v \in UIDs : PodInv(v), NamesOK, [Next]_vars
             PROVE  NamesOK'
  BY IInvByPod
<1>0. /\ started \in [Fullnames -> UIDs \cup {NoUID}]
      /\ Fullname \in [UIDs -> Fullnames] /\ NoUID \notin UIDs
  BY PodsAssumption DEF TypeOK
<1>1. CASE UNCHANGED vars
  BY <1>1 DEF vars, NamesOK, HolderIsAlive
<1>2. ASSUME NEW u \in UIDs, WorkerStep(u) \/ \E r \in Requests : UpdatePod(u, r)
      PROVE  NamesOK'
  <2>1. \A v \in UIDs \ {u} : worker'[v] = worker[v]
    BY <1>2, OtherPods
  <2>2. \A f \in Fullnames : started[f] = u => f = Fullname[u] /\ worker[u].podStarted
    BY <1>0 DEF NamesOK, HolderIsAlive
  <2>3. worker[u].pc = "none" => ~worker[u].podStarted
    BY DEF NamesOK
  <2>4. worker'[u].pc = "none" => ~worker'[u].podStarted
    BY <1>2, <2>3, NameSteps
  <2>5. ASSUME NEW f \in Fullnames, started'[f] # NoUID
        PROVE  worker'[started'[f]].podStarted /\ Fullname[started'[f]] = f
    <3>1. started'[f] = started[f] \/ (started'[f] = u /\ f = Fullname[u] /\ worker'[u].podStarted)
      BY <1>0, <1>2, <2>5, NameSteps
    <3>2. CASE started'[f] = started[f] /\ started[f] # u
      BY <3>2, <2>1, <2>5, <1>0 DEF NamesOK, HolderIsAlive
    <3>3. CASE started'[f] = started[f] /\ started[f] = u
      <4>1. f = Fullname[u] /\ worker[u].podStarted /\ worker[u].pc # "none"
        BY <3>3, <2>2, <2>3
      <4>2. worker'[u].podStarted
        BY <4>1, <3>3, <1>0, <1>2, NameSteps
      <4> QED
        BY <4>1, <4>2, <3>3
    <3> QED
      BY <3>1, <3>2, <3>3
  <2> QED
    BY <2>1, <2>4, <2>5 DEF NamesOK, HolderIsAlive
<1>3. ASSUME NEW desired \in SUBSET UIDs, SyncKnownPods(desired)
      PROVE  NamesOK'
  BY <1>0, <1>3 DEF SyncKnownPods, NamesOK, HolderIsAlive
<1> QED
  BY <1>1, <1>2, <1>3 DEF Next

\* HolderIsAlive: whoever claimed a full name in allowStaticPodStart is a pod
\* of that name whose goroutine is there to release it.
THEOREM NamesSafe == Spec => []HolderIsAlive
<1>1. Init => NamesOK
  BY DEF Init, NamesOK, HolderIsAlive, NoWorker
<1>2. NamesOK => HolderIsAlive
  BY DEF NamesOK
<1> QED
  BY <1>1, <1>2, NamesStep, Invariance, PTL DEF Spec

\* What a step for one pod does with its work items: the goroutine takes what is
\* in its channel, makes the work of the next phase, returns, or sends itself
\* what was left undelivered; UpdatePod adds the newest work.
LEMMA WorkItems ==
  ASSUME TypeOK, NEW u \in UIDs, PodInv(u),
         WorkerStep(u) \/ \E r \in Requests : UpdatePod(u, r)
  PROVE  LET cur == worker[u].cur
             buf == podUpdates[u].buf
             keeps == worker'[u].cur = cur \/ (worker'[u].cur = NoWork /\ worker[u].pc = "none")
         IN  \/ /\ worker'[u].cur = cur /\ podUpdates'[u].buf = buf /\ undelivered'[u] = undelivered[u]
                /\ calls'[u] \in {calls[u], calls[u] + 1}
             \/ /\ buf # <<>> /\ worker'[u].cur = Head(buf) /\ podUpdates'[u].buf = <<>>
                /\ undelivered'[u] = undelivered[u] /\ calls' = calls
             \/ /\ buf = <<>> /\ worker'[u].cur = cur /\ podUpdates'[u].buf = <<>> /\ calls' = calls
                /\ ~undelivered'[u].runtime /\ undelivered'[u].ver = cur.ver
             \/ /\ worker'[u] = NoWorker /\ podUpdates'[u].buf = <<>> /\ undelivered'[u] = NoWork
                /\ calls' = calls
             \/ /\ buf = <<>> /\ worker'[u].cur = cur /\ calls' = calls /\ undelivered[u] # NoWork
                /\ podUpdates'[u].buf = <<undelivered[u]>> /\ undelivered'[u] = NoWork
             \/ \E r \in Requests, w \in Work :
                  /\ keeps /\ calls'[u] = calls[u] + 1 /\ w.ver = calls[u] + 1 /\ w.runtime = r.runtime
                  /\ \/ /\ ~status[u].working /\ buf = <<>>
                        /\ podUpdates'[u].buf = <<w>> /\ undelivered'[u] = undelivered[u]
                     \/ /\ podUpdates'[u].buf = buf /\ undelivered'[u] = w

<1> DEFINE cur == worker[u].cur
           buf == podUpdates[u].buf
           ver == calls[u] + 1
<1>0. /\ worker \in [UIDs -> Worker] /\ worker[u] \in Worker
      /\ podUpdates \in [UIDs -> [made: BOOLEAN, buf: Seq(Work)]] /\ buf \in Seq(Work)
      /\ undelivered \in [UIDs -> Work \cup {NoWork}]
      /\ calls \in [UIDs -> 0..MaxCalls] /\ ver \in Nat
      /\ podUpdates[u].made <=> worker[u].pc # "none"
      /\ buf # <<>> => Len(buf) = 1 /\ worker[u].pc = "range"
      /\ status[u].working <=> Busy(u) \/ buf # <<>>
  BY PodTypes, BoundsAssumption DEF TypeOK, PodInv, ChannelOK
<1>1. CASE Receive(u)
  <2>1. /\ worker'[u].cur = Head(buf) /\ podUpdates'[u].buf = Tail(buf) /\ buf # <<>>
        /\ undelivered' = undelivered /\ calls' = calls
    BY <1>0, <1>1 DEF Receive, Worker
  <2>2. Tail(buf) = <<>>
    BY <2>1, <1>0, OneElement
  <2> QED
    BY <2>1, <2>2
<1>2. CASE AllowPodStart(u)
  <2>1. /\ UNCHANGED <<podUpdates, undelivered, calls>>
        /\ \/ worker' = [worker EXCEPT ![u] = [@ EXCEPT !.podStarted = TRUE, !.pc = "status"]]
           \/ worker' = [worker EXCEPT ![u].pc = "unstarted"]
           \/ worker' = [worker EXCEPT ![u].pc = "range"]
    BY <1>2 DEF AllowPodStart, Goto
  <2>2. worker'[u].cur = cur
    <3>1. CASE worker' = [worker EXCEPT ![u] = [@ EXCEPT !.podStarted = TRUE, !.pc = "status"]]
      BY <3>1, <1>0 DEF Worker
    <3>2. CASE \E pc : worker' = [worker EXCEPT ![u].pc = pc]
      BY <3>2, <1>0 DEF Worker
    <3> QED
      BY <2>1, <3>1, <3>2
  <2> QED
    BY <2>1, <2>2
<1>3. CASE GetNewerThan(u) \/ ContextForWorker(u) \/ AcknowledgeTerminating(u)
  <2>1. /\ UNCHANGED <<podUpdates, undelivered, calls>>
        /\ \/ \E pc : worker' = [worker EXCEPT ![u].pc = pc]
           \/ worker' = [worker EXCEPT ![u].pc = "sync", ![u].statusFn = status[u].statusFn]
    BY <1>3 DEF GetNewerThan, ContextForWorker, AcknowledgeTerminating, Goto
  <2>2. worker'[u].cur = cur
    BY <2>1, <1>0 DEF Worker
  <2> QED
    BY <2>1, <2>2
<1>4. CASE CompleteSync(u) \/ CompleteTerminating(u)
  <2>1. /\ UNCHANGED <<podUpdates, calls>> /\ worker[u].pc = "sync"
        /\ worker' = [worker EXCEPT ![u].pc = "queueNext"]
        /\ \E type \in WorkTypes :
             undelivered' = [undelivered EXCEPT ![u] =
                               [type |-> type, runtime |-> FALSE, grace |-> Nil, ver |-> cur.ver]]
    BY <1>4 DEF CompleteSync, CompleteTerminating, Synced, At, Goto, WorkTypes
  <2>2. buf = <<>> /\ worker'[u].cur = cur
    BY <2>1, <1>0 DEF Worker
  <2>3. ~undelivered'[u].runtime /\ undelivered'[u].ver = cur.ver
    BY <2>1, <1>0
  <2> QED
    BY <2>1, <2>2, <2>3
<1>5. CASE CompleteTerminatingRuntimePod(u) \/ CompleteUnstartedTerminated(u)
           \/ CompleteTerminated(u)
  <2>1. /\ worker' = [worker EXCEPT ![u] = NoWorker] /\ calls' = calls
        /\ podUpdates' = [podUpdates EXCEPT ![u] = NoChannel]
        /\ undelivered' = [undelivered EXCEPT ![u] = NoWork]
    BY <1>5 DEF CompleteTerminatingRuntimePod, CompleteUnstartedTerminated, CompleteTerminated,
                Finish, CleanupPodUpdates
  <2>2. worker'[u] = NoWorker /\ podUpdates'[u].buf = <<>> /\ undelivered'[u] = NoWork
    BY <2>1, <1>0 DEF NoChannel
  <2> QED
    BY <2>1, <2>2
<1>6. CASE CompleteWork(u)
  <2>1. /\ calls' = calls /\ worker' = [worker EXCEPT ![u].pc = "range"]
        /\ worker[u].pc \in {"queueNext", "sync", "status"}
        /\ \/ UNCHANGED <<podUpdates, undelivered>>
           \/ /\ undelivered[u] # NoWork
              /\ podUpdates' = [podUpdates EXCEPT ![u].buf = Append(@, undelivered[u])]
              /\ undelivered' = [undelivered EXCEPT ![u] = NoWork]
    BY <1>6 DEF CompleteWork, HasUndelivered, IterationDone, Synced, At, Goto
  <2>2. buf = <<>> /\ worker'[u].cur = cur
    BY <2>1, <1>0 DEF Worker
  <2>3. CASE UNCHANGED <<podUpdates, undelivered>>
    BY <2>1, <2>2, <2>3
  <2>4. CASE /\ undelivered[u] # NoWork
             /\ podUpdates' = [podUpdates EXCEPT ![u].buf = Append(@, undelivered[u])]
             /\ undelivered' = [undelivered EXCEPT ![u] = NoWork]
    <3>1. podUpdates'[u].buf = Append(buf, undelivered[u])
      BY <2>4, <1>0
    <3>2. podUpdates'[u].buf = <<undelivered[u]>>
      BY <3>1, <2>2
    <3> QED
      BY <3>2, <2>1, <2>2, <2>4, <1>0
  <2> QED
    BY <2>1, <2>3, <2>4
<1>7. ASSUME NEW r \in Requests, UpdatePod(u, r)
      PROVE  \/ /\ UNCHANGED <<podUpdates, undelivered, worker>> /\ calls'[u] = ver
             \/ \E c \in BOOLEAN : UpdatePodDispatch(u, r, LookupStatus(u, r, c)) /\ calls'[u] = ver
  BY <1>0, <1>7 DEF UpdatePod, UpdatePodIgnored, UpdatePodReturns
<1>8. ASSUME NEW r \in Requests, NEW c \in BOOLEAN, UpdatePodDispatch(u, r, LookupStatus(u, r, c)),
             calls'[u] = ver
      PROVE  \E w \in Work :
               /\ worker'[u].cur = cur \/ (worker'[u].cur = NoWork /\ worker[u].pc = "none")
               /\ w.ver = ver /\ w.runtime = r.runtime
               /\ \/ /\ ~status[u].working /\ buf = <<>>
                     /\ podUpdates'[u].buf = <<w>> /\ undelivered'[u] = undelivered[u]
                  \/ /\ podUpdates'[u].buf = buf /\ undelivered'[u] = w
  <2> DEFINE s == LookupStatus(u, r, c)
             recorded == RecordKill(CheckTerminating(s, r), r, ver)
             work == NewWork(recorded, r, ver)
             channel == IF podUpdates[u].made THEN podUpdates[u] ELSE [made |-> TRUE, buf |-> <<>>]
  <2>1. recorded \in PodSyncStatus
    BY <1>0, EntryTypes
  <2>2. work \in Work /\ work.ver = ver /\ work.runtime = r.runtime
    BY <2>1, <1>0, NewWorkType DEF NewWork
  <2>3. s.working = status[u].working
    BY <1>8, DispatchEntry DEF UpdatePodDispatch
  <2>4. /\ podUpdates[u].made => worker' = worker
        /\ ~podUpdates[u].made => worker' = [worker EXCEPT ![u] = [NoWorker EXCEPT !.pc = "range"]]
        /\ \/ /\ ~s.working /\ undelivered' = undelivered
              /\ podUpdates' = [podUpdates EXCEPT ![u] = [channel EXCEPT !.buf = Append(@, work)]]
           \/ /\ undelivered' = [undelivered EXCEPT ![u] = work]
              /\ podUpdates' = [podUpdates EXCEPT ![u] = channel]
    BY <1>8 DEF UpdatePodDispatch, IsWorking
  <2> HIDE DEF s, work
  <2>5. channel \in [made: BOOLEAN, buf: Seq(Work)] /\ channel.buf = buf
    BY <1>0
  <2> HIDE DEF channel
  <2>6. worker'[u].cur = cur \/ (worker'[u].cur = NoWork /\ worker[u].pc = "none")
    BY <2>4, <1>0 DEF NoWorker
  <2>7. CASE /\ ~s.working /\ undelivered' = undelivered
             /\ podUpdates' = [podUpdates EXCEPT ![u] = [channel EXCEPT !.buf = Append(@, work)]]
    <3>1. ~status[u].working /\ buf = <<>>
      BY <2>3, <2>7, <1>0
    <3>2. podUpdates'[u].buf = Append(buf, work)
      BY <2>5, <2>7, <1>0
    <3>3. podUpdates'[u].buf = <<work>>
      BY <3>1, <3>2
    <3> QED
      BY <3>1, <3>3, <2>2, <2>6, <2>7
  <2>8. CASE /\ undelivered' = [undelivered EXCEPT ![u] = work]
             /\ podUpdates' = [podUpdates EXCEPT ![u] = channel]
    BY <2>2, <2>5, <2>6, <2>8, <1>0
  <2> QED
    BY <2>4, <2>7, <2>8
<1> HIDE DEF ver
<1>9. CASE \E r \in Requests : UpdatePod(u, r)
  BY <1>7, <1>8, <1>9 DEF ver
<1> QED
  BY <1>1, <1>2, <1>3, <1>4, <1>5, <1>6, <1>9 DEF WorkerStep

\* Work for a pod with a configuration leads to no other.
LEMMA StaticStep ==
  ASSUME \A r \in Requests : ~r.runtime
  PROVE  IInv /\ NamesOK /\ (\A u \in UIDs : StaticOK(u)) /\ [Next]_vars
           => \A u \in UIDs : StaticOK(u)'
<1> SUFFICES ASSUME TypeOK, \A v \in UIDs : PodInv(v), NamesOK, \A v \in UIDs : StaticOK(v),
                    [Next]_vars, NEW v \in UIDs
             PROVE  StaticOK(v)'
  BY IInvByPod
<1> DEFINE Plain(w) == ~w.runtime
<1>0. /\ started \in [Fullnames -> UIDs \cup {NoUID}]
      /\ Fullname \in [UIDs -> Fullnames] /\ NoUID \notin UIDs
      /\ worker \in [UIDs -> Worker] /\ worker[v] \in Worker
      /\ undelivered \in [UIDs -> Work \cup {NoWork}]
      /\ podUpdates \in [UIDs -> [made: BOOLEAN, buf: Seq(Work)]]
      /\ podUpdates[v].buf \in Seq(Work)
  BY PodsAssumption, PodTypes DEF TypeOK
<1>1. /\ Plain(worker[v].cur) /\ Plain(undelivered[v]) /\ Plain(NoWork)
      /\ \A i \in DOMAIN podUpdates[v].buf : Plain(podUpdates[v].buf[i])
  BY DEF StaticOK, NoWork
<1>2. CASE UNCHANGED vars
  BY <1>2 DEF vars, StaticOK
<1>3. ASSUME NEW u \in UIDs, WorkerStep(u) \/ \E r \in Requests : UpdatePod(u, r)
      PROVE  v \in StaticPods /\ worker'[v].podStarted => started'[Fullname[v]] = v
  <2> SUFFICES ASSUME v \in StaticPods, worker'[v].podStarted
               PROVE  started'[Fullname[v]] = v
    OBVIOUS
  <2>1. CASE u = v
    <3>1. worker[v].podStarted => started[Fullname[v]] = v
      BY DEF StaticOK
    <3>2. ~worker[v].cur.runtime /\ v \in StaticPods
      BY DEF StaticOK
    <3>3. \/ worker'[v].podStarted = worker[v].podStarted /\ started' = started
          \/ started' = [started EXCEPT ![Fullname[v]] = v]
      BY <3>2, <2>1, <1>3, NameSteps
    <3> QED
      BY <3>1, <3>3, <1>0
  <2>2. CASE u # v
    <3>1. worker'[v] = worker[v]
      BY <2>2, <1>3, OtherPods
    <3>2. started[Fullname[v]] = v
      BY <3>1 DEF StaticOK
    <3>3. ~worker[u].cur.runtime
      BY DEF StaticOK
    <3> QED
      BY <3>2, <3>3, <2>2, <1>0, <1>3, NameSteps
  <2> QED
    BY <2>1, <2>2
<1>4. ASSUME NEW u \in UIDs, u # v, WorkerStep(u) \/ \E r \in Requests : UpdatePod(u, r)
      PROVE  StaticOK(v)'
  <2>1. /\ podUpdates'[v] = podUpdates[v] /\ undelivered'[v] = undelivered[v]
        /\ worker'[v] = worker[v]
    BY <1>4, OtherPods
  <2> QED
    BY <2>1, <1>1, <1>3, <1>4 DEF StaticOK
<1>5. ASSUME WorkerStep(v) \/ \E r \in Requests : UpdatePod(v, r)
      PROVE  StaticOK(v)'
  <2>1. podUpdates[v].buf # <<>> => Plain(Head(podUpdates[v].buf))
    BY <1>0, <1>1
  <2>2. /\ Plain(worker'[v].cur) /\ Plain(undelivered'[v])
        /\ \/ podUpdates'[v].buf = podUpdates[v].buf
           \/ podUpdates'[v].buf = <<>>
           \/ \E w : Plain(w) /\ podUpdates'[v].buf = <<w>>
    BY <2>1, <1>1, <1>5, WorkItems DEF NoWorker
  <2>3. \A i \in DOMAIN podUpdates'[v].buf : Plain(podUpdates'[v].buf[i])
    BY <2>2, <1>1
  <2> QED
    BY <2>2, <2>3, <1>3, <1>5 DEF StaticOK
<1>7. ASSUME NEW desired \in SUBSET UIDs, SyncKnownPods(desired) PROVE StaticOK(v)'
  <2>1. /\ worker' = worker
        /\ podUpdates'[v] \in {NoChannel, podUpdates[v]} /\ undelivered'[v] \in {NoWork, undelivered[v]}
        /\ \A f \in Fullnames : started[f] \notin Forgotten(desired) => started'[f] = started[f]
    BY <1>7 DEF SyncKnownPods
  <2>2. worker[v].podStarted => v \notin Forgotten(desired)
    BY DEF NamesOK, Forgotten, PodInv, ChannelOK
  <2>3. \A i \in DOMAIN podUpdates'[v].buf : Plain(podUpdates'[v].buf[i])
    BY <2>1, <1>1 DEF NoChannel
  <2>4. v \in StaticPods /\ worker'[v].podStarted => started'[Fullname[v]] = v
    BY <2>1, <2>2, <1>0 DEF StaticOK
  <2> QED
    BY <2>1, <2>3, <2>4, <1>1 DEF StaticOK
<1> QED
  BY <1>2, <1>4, <1>5, <1>7 DEF Next

\* OneStaticPodPerName, as long as UpdatePod is never asked to kill a RunningPod,
\* which no caller in this program does: the goroutine of a static pod that is
\* first seen that way starts without claiming the name.
THEOREM OneStaticPodSafe ==
  ASSUME \A r \in Requests : ~r.runtime
  PROVE  Spec => []OneStaticPodPerName
<1> DEFINE Inv == NamesOK /\ \A u \in UIDs : StaticOK(u)
<1>1. Init => Inv
  <2>1. Init => NamesOK
    BY DEF Init, NamesOK, HolderIsAlive, NoWorker
  <2>2. ASSUME Init, NEW u \in UIDs PROVE StaticOK(u)
    <3>1. worker[u] = NoWorker /\ podUpdates[u] = NoChannel /\ undelivered[u] = NoWork
      BY <2>2 DEF Init
    <3> QED
      BY <3>1 DEF StaticOK, NoWorker, NoChannel, NoWork
  <2> QED
    BY <2>1, <2>2
<1>2. IInv /\ Inv /\ [Next]_vars => Inv'
  BY NamesStep, StaticStep
<1>3. Inv => OneStaticPodPerName
  BY PodsAssumption DEF StaticOK, OneStaticPodPerName
<1> HIDE DEF Inv
<1> QED
  BY <1>1, <1>2, <1>3, Invariance, PTL DEF Spec

-----------------------------------------------------------------------------
(* Pod objects and grace periods *)

\* A step for a pod that is not static takes its goroutine to no older object.
LEMMA VersionsStep ==
  ASSUME TypeOK, NEW u \in UIDs, PodInv(u), u \notin StaticPods, VersionsOK(u),
         WorkerStep(u) \/ \E r \in Requests : UpdatePod(u, r)
  PROVE  VersionsOK(u)' /\ NeverGoesBack(u)
<1> DEFINE cur == worker[u].cur
           buf == podUpdates[u].buf
           und == undelivered[u]
<1>0. /\ NoWork.ver = 0 /\ NoWorker.cur = NoWork /\ NoWorker.pc = "none"
      /\ cur.ver \in Nat /\ und.ver \in Nat /\ calls[u] \in Nat
      /\ \A w \in Work : w.ver \in Nat
  BY PodTypes, BoundsAssumption DEF TypeOK, Worker, Work, NoWork, NoWorker
<1>1. buf # <<>> => Head(buf).ver \in Nat
  <2>1. buf \in Seq(Work)
    BY PodTypes
  <2> QED
    BY <2>1, <1>0
<1>2. \A w : <<w>> # <<>> /\ Head(<<w>>) = w
  OBVIOUS
<1>3. ~status[u].working => und = NoWork
  BY DEF PodInv, PhaseOK
<1>4. /\ cur.ver <= calls[u]
      /\ buf # <<>> => cur.ver <= Head(buf).ver /\ Head(buf).ver <= calls[u]
      /\ und # NoWork => /\ cur.ver <= und.ver /\ und.ver <= calls[u]
                         /\ buf # <<>> => Head(buf).ver <= und.ver
  BY DEF VersionsOK
<1>5. SUFFICES
        /\ worker'[u].cur.ver <= calls'[u]
        /\ podUpdates'[u].buf # <<>> => /\ worker'[u].cur.ver <= Head(podUpdates'[u].buf).ver
                                        /\ Head(podUpdates'[u].buf).ver <= calls'[u]
        /\ undelivered'[u] # NoWork =>
             /\ worker'[u].cur.ver <= undelivered'[u].ver /\ undelivered'[u].ver <= calls'[u]
             /\ podUpdates'[u].buf # <<>> => Head(podUpdates'[u].buf).ver <= undelivered'[u].ver
        /\ worker[u].pc # "none" => worker'[u].pc = "none" \/ worker'[u].cur.ver >= cur.ver
  BY DEF VersionsOK, NeverGoesBack
<1>6. CASE /\ worker'[u].cur = cur /\ podUpdates'[u].buf = buf /\ undelivered'[u] = und
           /\ calls'[u] \in {calls[u], calls[u] + 1}
  BY <1>0, <1>1, <1>4, <1>6
<1>7. CASE /\ buf # <<>> /\ worker'[u].cur = Head(buf) /\ podUpdates'[u].buf = <<>>
           /\ undelivered'[u] = und /\ calls' = calls
  BY <1>0, <1>1, <1>4, <1>7
<1>8. CASE /\ buf = <<>> /\ worker'[u].cur = cur /\ podUpdates'[u].buf = <<>> /\ calls' = calls
           /\ undelivered'[u].ver = cur.ver
  BY <1>0, <1>4, <1>8
<1>9. CASE /\ worker'[u] = NoWorker /\ podUpdates'[u].buf = <<>> /\ undelivered'[u] = NoWork
           /\ calls' = calls
  BY <1>0, <1>9
<1>10. CASE /\ buf = <<>> /\ worker'[u].cur = cur /\ calls' = calls /\ und # NoWork
            /\ podUpdates'[u].buf = <<und>> /\ undelivered'[u] = NoWork
  BY <1>0, <1>2, <1>4, <1>10
<1>11. ASSUME NEW w \in Work,
              worker'[u].cur = cur \/ (worker'[u].cur = NoWork /\ worker[u].pc = "none"),
              calls'[u] = calls[u] + 1, w.ver = calls[u] + 1,
              \/ ~status[u].working /\ podUpdates'[u].buf = <<w>> /\ undelivered'[u] = und
              \/ podUpdates'[u].buf = buf /\ undelivered'[u] = w
       PROVE  /\ worker'[u].cur.ver <= calls'[u]
              /\ podUpdates'[u].buf # <<>> => /\ worker'[u].cur.ver <= Head(podUpdates'[u].buf).ver
                                              /\ Head(podUpdates'[u].buf).ver <= calls'[u]
              /\ undelivered'[u] # NoWork =>
                   /\ worker'[u].cur.ver <= undelivered'[u].ver /\ undelivered'[u].ver <= calls'[u]
                   /\ podUpdates'[u].buf # <<>> => Head(podUpdates'[u].buf).ver <= undelivered'[u].ver
              /\ worker[u].pc # "none" => worker'[u].pc = "none" \/ worker'[u].cur.ver >= cur.ver
  <2>1. worker'[u].cur.ver \in Nat /\ worker'[u].cur.ver <= calls[u]
    BY <1>0, <1>4, <1>11
  <2>2. worker[u].pc # "none" => worker'[u].cur = cur
    BY <1>11
  <2>3. CASE ~status[u].working /\ podUpdates'[u].buf = <<w>> /\ undelivered'[u] = und
    BY <2>1, <2>2, <2>3, <1>0, <1>2, <1>3, <1>11
  <2>4. CASE podUpdates'[u].buf = buf /\ undelivered'[u] = w
    <3>1. buf # <<>> => worker'[u].cur.ver <= Head(buf).ver
      BY <1>0, <1>1, <1>4, <1>11
    <3> QED
      BY <3>1, <2>1, <2>2, <2>4, <1>0, <1>1, <1>4, <1>11
  <2> QED
    BY <2>3, <2>4, <1>11
<1> QED
  BY <1>6, <1>7, <1>8, <1>9, <1>10, <1>11, WorkItems

\* NewestPodWins for the pods of the API server: neither the undelivered work
\* nor the work a goroutine makes for itself brings back an older pod object.
THEOREM NewestSafe == Spec => NewestPodWins
<1> DEFINE Inv == \A u \in UIDs \ StaticPods : VersionsOK(u)
<1>1. Init => Inv
  <2> SUFFICES ASSUME Init, NEW u \in UIDs \ StaticPods PROVE VersionsOK(u)
    OBVIOUS
  <2>1. /\ worker[u] = NoWorker /\ podUpdates[u] = NoChannel /\ undelivered[u] = NoWork
        /\ calls[u] = 0
    BY DEF Init
  <2>2. NoWorker.cur.ver = 0 /\ NoChannel.buf = <<>>
    BY DEF NoWorker, NoWork, NoChannel
  <2> QED
    BY <2>1, <2>2 DEF VersionsOK
<1>2. IInv /\ Inv /\ [Next]_vars =>
        Inv' /\ [\A u \in UIDs \ StaticPods : NeverGoesBack(u)]_vars
  <2> SUFFICES ASSUME IInv, Inv, [Next]_vars, NEW v \in UIDs \ StaticPods
               PROVE  VersionsOK(v)' /\ (NeverGoesBack(v) \/ UNCHANGED vars)
    OBVIOUS
  <2>0. TypeOK /\ PodInv(v) /\ VersionsOK(v)
    BY IInvByPod
  <2>1. CASE UNCHANGED vars
    BY <2>0, <2>1 DEF vars, VersionsOK
  <2>2. ASSUME NEW u \in UIDs, WorkerStep(u) \/ \E r \in Requests : UpdatePod(u, r)
        PROVE  VersionsOK(v)' /\ NeverGoesBack(v)
    <3>1. CASE u = v
      BY <3>1, <2>0, <2>2, VersionsStep
    <3>2. CASE u # v
      <4>1. /\ podUpdates'[v] = podUpdates[v] /\ undelivered'[v] = undelivered[v]
            /\ worker'[v] = worker[v]
        BY <3>2, <2>0, <2>2, OtherPods
      <4>2. calls'[v] = calls[v]
        <5>1. calls' = calls \/ calls' = [calls EXCEPT ![u] = @ + 1]
          BY <2>2 DEF UpdatePod, WorkerStep, Receive, AllowPodStart, GetNewerThan, ContextForWorker,
                      AcknowledgeTerminating, CompleteSync, CompleteTerminating,
                      CompleteTerminatingRuntimePod, CompleteUnstartedTerminated, CompleteTerminated,
                      Finish, CompleteWork
        <5> QED
          BY <5>1, <3>2, <2>0 DEF TypeOK
      <4>3. worker[v].cur.ver \in Nat
        BY <2>0, PodTypes DEF Worker, Work, NoWork
      <4> QED
        BY <4>1, <4>2, <4>3, <2>0 DEF VersionsOK, NeverGoesBack
    <3> QED
      BY <3>1, <3>2
  <2>3. ASSUME NEW desired \in SUBSET UIDs, SyncKnownPods(desired)
        PROVE  VersionsOK(v)' /\ NeverGoesBack(v)
    <3>1. /\ worker' = worker /\ calls' = calls
          /\ \/ podUpdates'[v] = podUpdates[v] /\ undelivered'[v] = undelivered[v]
             \/ podUpdates'[v] = NoChannel /\ undelivered'[v] = NoWork
      BY <2>3 DEF SyncKnownPods
    <3>2. worker[v].cur.ver \in Nat
      BY <2>0, PodTypes DEF Worker, Work, NoWork
    <3> QED
      BY <3>1, <3>2, <2>0 DEF VersionsOK, NeverGoesBack, NoChannel
  <2> QED
    BY <2>1, <2>2, <2>3 DEF Next
<1> HIDE DEF Inv
<1> QED
  BY <1>1, <1>2, Invariance, PTL DEF Spec, NewestPodWins

\* A recorded grace period is replaced by one that is not zero, and that is
\* longer only when it is the pod's own or the override of a kill of a pod whose
\* deletion grace period is zero.
LEMMA GraceBound ==
  ASSUME NEW s \in PodSyncStatus, NEW r \in Requests, s.gracePeriod # 0
  PROVE  LET g == CalculateEffectiveGracePeriod(s, r)
         IN  /\ g # 0
             /\ g > s.gracePeriod => 0 \in {r.deletionGrace, r.override}
<1>1. s.gracePeriod \in Nat \ {0} /\ SpecGrace \in Nat \ {0}
  BY BoundsAssumption DEF PodSyncStatus
<1>2. r.deletionGrace \in Nat \cup {-1} /\ r.override \in Nat \cup {-1}
  BY RequestsAssumption DEF Options, Nil
<1> DEFINE once == Shorten(s.gracePeriod, r.deletionGrace)
           twice == Shorten(once, r.override)
<1>3. /\ once \in Nat /\ once <= s.gracePeriod
      /\ once = 0 => r.deletionGrace = 0
  BY <1>1, <1>2 DEF Shorten, Nil
<1> HIDE DEF once
<1>4. /\ twice \in Nat
      /\ twice > s.gracePeriod => r.deletionGrace = 0
      /\ twice = 0 => 0 \in {r.deletionGrace, r.override}
  BY <1>1, <1>2, <1>3 DEF Shorten, Nil
<1>5. LET defaulted == IF twice = 0 /\ ~r.runtime THEN SpecGrace ELSE twice
      IN  CalculateEffectiveGracePeriod(s, r) = IF defaulted < 1 THEN 1 ELSE defaulted
  BY DEF CalculateEffectiveGracePeriod, once
<1> HIDE DEF twice
<1>6. CalculateEffectiveGracePeriod(s, r) \in
        (IF twice = 0 THEN {1, SpecGrace} ELSE {twice})
  BY <1>1, <1>4, <1>5
<1> QED
  BY <1>1, <1>4, <1>6

\* GraceGrowsOnlyByZero: the period a kill puts on record is bounded by the one
\* before, whatever the order in which the kills of a pod arrive, unless the kill
\* brings a zero.
THEOREM GraceSafe == Spec => GraceGrowsOnlyByZero
<1> DEFINE Zero(r) == 0 \in {r.deletionGrace, r.override}
           Kept(u) == status[u].gracePeriod # 0 /\ status'[u].known =>
                        /\ status'[u].gracePeriod # 0
                        /\ status'[u].gracePeriod > status[u].gracePeriod =>
                             \E r \in Requests : UpdatePod(u, r) /\ Zero(r)
<1>1. IInv /\ [Next]_vars => [\A u \in UIDs : Kept(u)]_vars
  <2>1. SUFFICES ASSUME IInv, Next, NEW v \in UIDs PROVE Kept(v)
    OBVIOUS
  <2>2. TypeOK /\ PodInv(v)
    BY <2>1, IInvByPod
  <2>3. status[v] \in PodSyncStatus /\ status[v].gracePeriod \in Nat
    BY <2>2, PodTypes DEF PodSyncStatus
  <2>4. ASSUME status'[v].gracePeriod = status[v].gracePeriod PROVE Kept(v)
    BY <2>3, <2>4
  <2>5. [status EXCEPT ![v].working = FALSE][v].gracePeriod = status[v].gracePeriod
    <3>1. [status EXCEPT ![v].working = FALSE][v] = [status[v] EXCEPT !.working = FALSE]
      BY <2>2 DEF TypeOK
    <3> QED
      BY <3>1, <2>3 DEF PodSyncStatus
  <2> HIDE DEF Kept, Zero
  <2>6. ASSUME NEW u \in UIDs, u # v, WorkerStep(u) \/ \E r \in Requests : UpdatePod(u, r)
        PROVE  Kept(v)
    BY <2>2, <2>4, <2>6, OtherPods
  <2>7. ASSUME NEW desired \in SUBSET UIDs, SyncKnownPods(desired)
        PROVE  Kept(v)
    <3>1. status'[v] = NoStatus \/ status'[v] = status[v]
      BY <2>7 DEF SyncKnownPods
    <3>2. ~NoStatus.known
      BY DEF NoStatus
    <3> QED
      BY <3>1, <3>2, <2>4 DEF Kept
  <2>8. ASSUME WorkerStep(v)
        PROVE  Kept(v)
    <3>1. CASE Receive(v) \/ GetNewerThan(v)
      BY <3>1, <2>4 DEF Receive, GetNewerThan
    <3>2. CASE AllowPodStart(v)
      <4>1. status' = status \/ status' = [status EXCEPT ![v].working = FALSE]
        BY <3>2 DEF AllowPodStart
      <4> QED
        BY <2>4, <2>5, <4>1
    <3>3. CASE ContextForWorker(v)
      BY <2>2, <2>3, <2>4, <3>3 DEF ContextForWorker, TypeOK, PodSyncStatus
    <3>4. CASE AcknowledgeTerminating(v)
      BY <2>2, <2>3, <2>4, <3>4 DEF AcknowledgeTerminating, TypeOK, PodSyncStatus
    <3>5. CASE CompleteSync(v)
      BY <2>2, <2>3, <2>4, <3>5 DEF CompleteSync, TypeOK, PodSyncStatus
    <3>6. CASE CompleteTerminating(v)
      BY <2>2, <2>3, <2>4, <3>6 DEF CompleteTerminating, StoppedStatus, TypeOK, PodSyncStatus
    <3>7. CASE CompleteTerminatingRuntimePod(v) \/ CompleteUnstartedTerminated(v) \/ CompleteTerminated(v)
      <4>1. status' = status \/ \E t : status' = [status EXCEPT ![v] = FinishedStatus(@, t)]
        BY <3>7 DEF CompleteTerminatingRuntimePod, CompleteUnstartedTerminated,
                    CompleteTerminated, Finish
      <4>2. \A t : FinishedStatus(status[v], t).gracePeriod = status[v].gracePeriod
        BY <2>3 DEF FinishedStatus, PodSyncStatus
      <4>3. status'[v] = status[v] \/ \E t : status'[v] = FinishedStatus(status[v], t)
        BY <2>2, <4>1 DEF TypeOK
      <4> QED
        BY <4>2, <4>3, <2>4
    <3>8. CASE CompleteWork(v)
      <4>1. status' = status \/ status' = [status EXCEPT ![v].working = FALSE]
        BY <3>8 DEF CompleteWork, HasUndelivered
      <4> QED
        BY <2>4, <2>5, <4>1
    <3> QED
      BY <2>8, <3>1, <3>2, <3>3, <3>4, <3>5, <3>6, <3>7, <3>8 DEF WorkerStep
  <2>9. ASSUME NEW r \in Requests, UpdatePod(v, r)
        PROVE  Kept(v)
    <3>1. CASE UpdatePodIgnored(v, r)
      BY <3>1, <2>4 DEF UpdatePodIgnored
    <3>2. CASE ~status[v].known
      <4>1. status[v] = NoStatus
        BY <2>2, <3>2 DEF PodInv, FlagsOK
      <4> QED
        BY <4>1 DEF NoStatus, Kept
    <3>3. ASSUME status[v].known, UpdatePodReturns(v, r, status[v])
          PROVE  Kept(v)
      BY <2>2, <2>3, <2>4, <3>3 DEF UpdatePodReturns, TypeOK, PodSyncStatus
    <3>4. ASSUME status[v].known, UpdatePodDispatch(v, r, status[v])
          PROVE  Kept(v)
      <4> DEFINE ver == calls[v] + 1
                 marked == CheckTerminating(status[v], r)
                 recorded == RecordKill(marked, r, ver)
      <4>1. ver \in Nat
        BY <2>2, BoundsAssumption DEF TypeOK
      <4>2. \/ status' = [status EXCEPT ![v] = [recorded EXCEPT !.working = TRUE]]
            \/ status' = [status EXCEPT ![v] = recorded]
            \/ status' = [status EXCEPT ![v] = [recorded EXCEPT !.ctx = "canceled"]]
        BY <3>4 DEF UpdatePodDispatch, CancelSync
      <4>3. marked \in PodSyncStatus /\ recorded \in PodSyncStatus
        BY <2>2, <3>4, <4>1, EntryTypes DEF LookupStatus
      <4>4. marked.gracePeriod = status[v].gracePeriod
        BY <2>3 DEF CheckTerminating, PodSyncStatus
      <4>5. recorded.gracePeriod \in {marked.gracePeriod, CalculateEffectiveGracePeriod(marked, r)}
        BY <4>3 DEF RecordKill, PodSyncStatus
      <4>6. status[v].gracePeriod # 0 =>
              /\ recorded.gracePeriod # 0
              /\ recorded.gracePeriod > status[v].gracePeriod => Zero(r)
        <5>1. CASE recorded.gracePeriod = marked.gracePeriod
          BY <5>1, <4>4, <2>3
        <5>2. CASE recorded.gracePeriod = CalculateEffectiveGracePeriod(marked, r)
          BY <5>2, <4>3, <4>4, GraceBound DEF Zero
        <5> QED
          BY <5>1, <5>2, <4>5
      <4> HIDE DEF recorded
      <4>7. status'[v].gracePeriod = recorded.gracePeriod
        <5>1. \/ status'[v] = [recorded EXCEPT !.working = TRUE]
              \/ status'[v] = recorded
              \/ status'[v] = [recorded EXCEPT !.ctx = "canceled"]
          BY <4>2, <2>2 DEF TypeOK
        <5> QED
          BY <5>1, <4>3 DEF PodSyncStatus
      <4> QED
        BY <2>9, <4>6, <4>7 DEF Kept
    <3> QED
      BY <2>9, <3>1, <3>2, <3>3, <3>4 DEF UpdatePod, LookupStatus
  <2> QED
    BY <2>1, <2>6, <2>7, <2>8, <2>9 DEF Next
<1>2. [\A u \in UIDs : Kept(u)]_vars <=>
        [\A u \in UIDs :
           status[u].gracePeriod # 0 /\ status'[u].known =>
             /\ status'[u].gracePeriod # 0
             /\ status'[u].gracePeriod > status[u].gracePeriod =>
                  \E r \in Requests :
                    UpdatePod(u, r) /\ 0 \in {r.deletionGrace, r.override}]_vars
  OBVIOUS
<1> QED
  BY <1>1, <1>2, Invariance, PTL DEF Spec, GraceGrowsOnlyByZero


-----------------------------------------------------------------------------
(* A termination is never left alone *)

\* The work that a phase calls for.
LEMMA PhaseWork ==
  ASSUME NEW s \in PodSyncStatus
  PROVE  /\ s.terminated => WorkTypeOf(s) = "TerminatedPodWork"
         /\ s.terminating /\ ~s.terminated => WorkTypeOf(s) = "TerminatingPodWork"
BY DEF WorkTypeOf, PodSyncStatus

\* A step that changes neither the phase nor the work items of a pod.
LEMMA AttendedFrame ==
  ASSUME NEW u \in UIDs, AttendedOK(u),
         /\ status'[u].terminating = status[u].terminating
         /\ status'[u].terminated = status[u].terminated
         /\ status'[u].finished = status[u].finished
         /\ status'[u].working = status[u].working,
         undelivered'[u] = undelivered[u], podUpdates'[u].made = podUpdates[u].made,
         Current(u)' = Current(u),
         worker[u].pc = "unstarted" => worker'[u].pc = "unstarted",
         worker'[u].pc \in {"acknowledge", "sync"} /\ status'[u].ctx = "canceled" =>
           worker[u].pc \in {"acknowledge", "sync"} /\ status[u].ctx = "canceled"
  PROVE  AttendedOK(u)'
<1>1. WorkTypeOf(status'[u]) = WorkTypeOf(status[u])
  BY DEF WorkTypeOf
<1>2. Attended(u) => Attended(u)'
  BY <1>1 DEF Attended, At
<1> QED
  BY <1>2 DEF AttendedOK

\* The steps of the goroutine up to the end of its sync function.
LEMMA AttendedPassing ==
  ASSUME TypeOK, NEW u \in UIDs, PodInv(u), AttendedOK(u),
         Receive(u) \/ GetNewerThan(u) \/ ContextForWorker(u) \/ AcknowledgeTerminating(u)
  PROVE  AttendedOK(u)'
<1>1. CASE Receive(u)
  <2>1. /\ status'[u] = status[u] /\ undelivered'[u] = undelivered[u]
        /\ podUpdates'[u].made = podUpdates[u].made
        /\ podUpdates'[u].buf = Tail(podUpdates[u].buf)
        /\ worker'[u].cur = Head(podUpdates[u].buf)
        /\ worker'[u].pc = "status" \/ worker'[u].pc = "start"
    BY <1>1, PodTypes DEF Receive, TypeOK, Worker
  <2>2. /\ podUpdates[u].buf # <<>> /\ podUpdates'[u].buf = <<>> /\ worker[u].pc = "range"
    <3>1. /\ podUpdates[u].buf # <<>> /\ Len(podUpdates[u].buf) = 1 /\ worker[u].pc = "range"
      BY <1>1 DEF Receive, At, PodInv, ChannelOK
    <3> QED
      BY <2>1, <3>1, OneElement, PodTypes
  <2>3. Current(u)' = Current(u)
    BY <2>1, <2>2 DEF Current, Busy
  <2> QED
    BY <2>1, <2>2, <2>3, AttendedFrame
<1>2. CASE GetNewerThan(u)
  <2>1. /\ status'[u] = status[u] /\ undelivered'[u] = undelivered[u]
        /\ podUpdates'[u] = podUpdates[u]
        /\ worker[u].pc = "status" /\ worker'[u].pc = "context"
        /\ worker'[u].cur = worker[u].cur
    BY <1>2, PodTypes DEF GetNewerThan, TypeOK, Worker, At, Goto
  <2>2. Current(u)' = Current(u)
    BY <2>1 DEF Current, Busy
  <2> QED
    BY <2>1, <2>2, AttendedFrame
<1>3. CASE ContextForWorker(u)
  <2>1. /\ undelivered'[u] = undelivered[u] /\ podUpdates'[u] = podUpdates[u]
        /\ worker[u].pc = "context"
        /\ worker'[u].pc = IF worker[u].cur.type = "TerminatingPodWork" THEN "acknowledge" ELSE "sync"
        /\ worker'[u].cur = worker[u].cur
    BY <1>3, PodTypes DEF ContextForWorker, TypeOK, Worker, At, Goto
  <2>2. status[u].known
    BY <2>1 DEF PodInv, ChannelOK
  <2>3. status'[u] = [status[u] EXCEPT !.ctx = RenewContext(@)]
    BY <1>3, <2>2 DEF ContextForWorker, TypeOK
  <2>4. /\ status'[u].working = status[u].working
        /\ status'[u].finished = status[u].finished
        /\ status'[u].terminated = status[u].terminated
        /\ status'[u].terminating = status[u].terminating
        /\ status'[u].ctx # "canceled"
    BY <2>3, PodTypes DEF PodSyncStatus, RenewContext
  <2>5. Current(u)' = Current(u)
    BY <2>1 DEF Current, Busy
  <2> QED
    BY <2>1, <2>4, <2>5, AttendedFrame
<1>4. CASE AcknowledgeTerminating(u)
  <2>1. /\ undelivered'[u] = undelivered[u] /\ podUpdates'[u] = podUpdates[u]
        /\ worker[u].pc = "acknowledge" /\ worker'[u].pc = "sync"
        /\ worker'[u].cur = worker[u].cur
    BY <1>4, PodTypes DEF AcknowledgeTerminating, TypeOK, Worker, At
  <2>2. /\ status'[u].working = status[u].working
        /\ status'[u].finished = status[u].finished
        /\ status'[u].terminated = status[u].terminated
        /\ status'[u].terminating = status[u].terminating
        /\ status'[u].ctx = status[u].ctx
    BY <1>4, PodTypes DEF AcknowledgeTerminating, TypeOK, PodSyncStatus
  <2>3. Current(u)' = Current(u)
    BY <2>1 DEF Current, Busy
  <2> QED
    BY <2>1, <2>2, <2>3, AttendedFrame
<1> QED
  BY <1>1, <1>2, <1>3, <1>4

\* A static pod waits for its name only as long as it is not terminating.
LEMMA AttendedStart ==
  ASSUME TypeOK, NEW u \in UIDs, PodInv(u), AttendedOK(u), AllowPodStart(u)
  PROVE  AttendedOK(u)'
<1>1. /\ UNCHANGED <<undelivered, podUpdates>>
      /\ worker[u].pc = "start"
      /\ \/ /\ worker' = [worker EXCEPT ![u] = [@ EXCEPT !.podStarted = TRUE, !.pc = "status"]]
            /\ status' = status
         \/ worker' = [worker EXCEPT ![u].pc = "unstarted"] /\ status' = status
         \/ /\ worker' = [worker EXCEPT ![u].pc = "range"] /\ ~NeverStarts(u)
            /\ status' = [status EXCEPT ![u].working = FALSE]
  BY DEF AllowPodStart, At, Goto
<1>2. podUpdates[u].buf = <<>> /\ podUpdates[u].made
  BY <1>1 DEF PodInv, ChannelOK
<1>3. CASE /\ worker' = [worker EXCEPT ![u] = [@ EXCEPT !.podStarted = TRUE, !.pc = "status"]]
           /\ status' = status
  <2>1. worker'[u] = [worker[u] EXCEPT !.podStarted = TRUE, !.pc = "status"]
    BY <1>3 DEF TypeOK
  <2>2. worker'[u].pc = "status" /\ worker'[u].cur = worker[u].cur
    BY <2>1, PodTypes DEF Worker
  <2>3. Current(u)' = Current(u)
    BY <1>1, <2>2 DEF Current, Busy
  <2> QED
    BY <1>1, <1>3, <2>2, <2>3, AttendedFrame
<1>4. CASE worker' = [worker EXCEPT ![u].pc = "unstarted"] /\ status' = status
  <2>1. worker'[u].pc = "unstarted" /\ worker'[u].cur = worker[u].cur
    BY <1>4, PodTypes DEF TypeOK, Worker
  <2>2. Current(u)' = Current(u)
    BY <1>1, <2>1 DEF Current, Busy
  <2> QED
    BY <1>1, <1>4, <2>1, <2>2, AttendedFrame
<1>5. CASE /\ worker' = [worker EXCEPT ![u].pc = "range"] /\ ~NeverStarts(u)
           /\ status' = [status EXCEPT ![u].working = FALSE]
  <2>1. worker'[u].pc = "range"
    BY <1>5, PodTypes DEF TypeOK, Worker
  <2>2. /\ status'[u].terminating = status[u].terminating
        /\ status'[u].terminated = status[u].terminated
    BY <1>5, PodTypes DEF TypeOK, PodSyncStatus
  <2>3. ~status[u].terminating /\ ~status[u].terminated
    BY <1>5 DEF NeverStarts, PodInv, FlagsOK
  <2> QED
    BY <1>1, <1>2, <2>1, <2>2, <2>3 DEF AttendedOK
<1> QED
  BY <1>1, <1>3, <1>4, <1>5

\* A phase that ends leaves the work of the next one behind, or the goroutine ends.
LEMMA AttendedPhases ==
  ASSUME TypeOK, NEW u \in UIDs, PodInv(u), AttendedOK(u), PodInv(u)', TypeOK',
         \/ CompleteSync(u) \/ CompleteTerminating(u)
         \/ CompleteTerminatingRuntimePod(u) \/ CompleteUnstartedTerminated(u)
         \/ CompleteTerminated(u)
  PROVE  AttendedOK(u)'
<1>0. status[u] \in PodSyncStatus /\ status'[u] \in PodSyncStatus
  BY DEF TypeOK
<1>1. CASE CompleteSync(u)
  <2>1. /\ undelivered'[u].type = "TerminatingPodWork"
        /\ podUpdates'[u] = podUpdates[u]
        /\ worker[u].pc = "sync" /\ worker'[u].pc = "queueNext"
        /\ worker[u].cur.type = "SyncPodWork"
    BY <1>1, PodTypes DEF CompleteSync, TypeOK, Worker, At, Goto, Synced
  <2>2. /\ status[u].known /\ podUpdates[u].made /\ podUpdates[u].buf = <<>>
        /\ Current(u) = worker[u].cur
    BY <2>1 DEF PodInv, ChannelOK, Current, Busy
  <2>3. ~status[u].terminated
    BY <2>1, <2>2 DEF AttendedOK
  <2>4. status'[u].terminated = status[u].terminated
    BY <1>1, <2>2, PodTypes DEF CompleteSync, TypeOK, PodSyncStatus
  <2>5. status'[u].terminating /\ status'[u].working
    <3>1. status'[u].terminating
      BY <1>1, <2>2, PodTypes DEF CompleteSync, TypeOK, PodSyncStatus
    <3> QED
      BY <3>1, <2>1 DEF PodInv, ChannelOK, Busy
  <2>6. WorkTypeOf(status'[u]) = "TerminatingPodWork"
    BY <1>0, <2>3, <2>4, <2>5, PhaseWork
  <2> QED
    BY <2>1, <2>2, <2>3, <2>4, <2>5, <2>6 DEF AttendedOK, Attended
<1>2. CASE CompleteTerminating(u)
  <2>1. /\ undelivered'[u].type = "TerminatedPodWork"
        /\ podUpdates'[u] = podUpdates[u]
        /\ worker[u].pc = "sync" /\ worker'[u].pc = "queueNext"
        /\ worker[u].cur.type = "TerminatingPodWork"
    BY <1>2, PodTypes DEF CompleteTerminating, TypeOK, Worker, At, Goto, Synced
  <2>2. status[u].known /\ podUpdates[u].made /\ podUpdates[u].buf = <<>>
    BY <2>1 DEF PodInv, ChannelOK
  <2>3. status'[u].terminated
    BY <1>2, <2>2, PodTypes DEF CompleteTerminating, StoppedStatus, TypeOK, PodSyncStatus
  <2>4. Current(u)' = NoWork /\ NoWork.type = "none"
    BY <2>1, <2>2 DEF Current, Busy, NoWork
  <2>5. status'[u].working
    BY <2>1 DEF PodInv, ChannelOK, Busy
  <2>6. WorkTypeOf(status'[u]) = "TerminatedPodWork"
    BY <1>0, <2>3, PhaseWork
  <2> QED
    BY <2>1, <2>2, <2>3, <2>4, <2>5, <2>6 DEF AttendedOK, Attended
<1>3. CASE CompleteTerminatingRuntimePod(u) \/ CompleteUnstartedTerminated(u) \/ CompleteTerminated(u)
  <2>1. /\ worker[u].pc \in {"sync", "unstarted"}
        /\ \E t : Finish(u, t)
    BY <1>3 DEF CompleteTerminatingRuntimePod, CompleteUnstartedTerminated,
                CompleteTerminated, Synced, At
  <2>2. /\ undelivered'[u] = NoWork /\ podUpdates'[u] = NoChannel /\ worker'[u] = NoWorker
    BY <2>1 DEF Finish, CleanupPodUpdates, TypeOK
  <2>3. status[u].known
    BY <2>1 DEF PodInv, ChannelOK
  <2>4. status'[u].finished
    BY <2>1, <2>3, PodTypes DEF Finish, FinishedStatus, TypeOK, PodSyncStatus
  <2>5. Current(u)' = NoWork /\ NoWork.type = "none" /\ worker'[u].pc = "none"
    BY <2>2 DEF Current, Busy, NoWorker, NoChannel, NoWork
  <2> QED
    BY <2>2, <2>4, <2>5 DEF AttendedOK
<1> QED
  BY <1>1, <1>2, <1>3

\* The end of an iteration: whatever is undelivered comes next, and if a sync
\* ended otherwise than by an error, it had done its part or was cancelled.
LEMMA AttendedCompleteWork ==
  ASSUME TypeOK, NEW u \in UIDs, PodInv(u), AttendedOK(u), PodInv(u)', TypeOK',
         "error" \notin SyncOutcomes, CompleteWork(u)
  PROVE  AttendedOK(u)'
<1>0. /\ status[u] \in PodSyncStatus /\ status'[u] \in PodSyncStatus
      /\ undelivered[u] \in Work \cup {NoWork}
  BY DEF TypeOK
<1>1. /\ \/ worker[u].pc = "queueNext"
         \/ worker[u].pc = "sync" /\ worker[u].cur.type = "SyncPodWork"
         \/ worker[u].pc = "sync" /\ status[u].ctx = "canceled"
      /\ worker'[u].pc = "range"
  BY PodTypes DEF CompleteWork, HasUndelivered, IterationDone, TypeOK, Worker, At, Goto, Synced
<1>2. podUpdates[u].made /\ podUpdates[u].buf = <<>>
  BY <1>1 DEF PodInv, ChannelOK, Busy
<1>3. /\ status[u].terminated => status[u].terminating
      /\ undelivered[u].type = "TerminatedPodWork" => status[u].terminated
      /\ undelivered[u].type = "TerminatingPodWork" => status[u].terminating
  BY DEF PodInv, FlagsOK
<1>4. status[u].terminating /\ ~status[u].finished => undelivered[u].type = WorkTypeOf(status[u])
  <2> SUFFICES ASSUME status[u].terminating, ~status[u].finished
               PROVE  undelivered[u].type = WorkTypeOf(status[u])
    OBVIOUS
  <2>1. WorkTypeOf(status[u]) = Current(u).type \/ undelivered[u].type = WorkTypeOf(status[u])
    BY <1>1 DEF AttendedOK, Attended, At
  <2>2. WorkTypeOf(status[u]) \in {"TerminatedPodWork", "TerminatingPodWork"}
    BY <1>0, PhaseWork
  <2>3. CASE worker[u].pc = "queueNext"
    <3>1. Current(u).type = "none"
      BY <1>2, <2>3 DEF Current, NoWork
    <3> QED
      BY <3>1, <2>1, <2>2
  <2>4. CASE worker[u].pc = "sync" /\ worker[u].cur.type = "SyncPodWork"
    <3>1. Current(u).type = "SyncPodWork"
      BY <1>2, <2>4 DEF Current, Busy
    <3> QED
      BY <3>1, <2>1, <2>2
  <2>5. CASE worker[u].pc = "sync" /\ status[u].ctx = "canceled"
    <3>1. ~status[u].terminated /\ undelivered[u].type # "SyncPodWork"
      BY <2>5 DEF AttendedOK
    <3>2. undelivered[u] # NoWork
      BY <2>5 DEF PodInv, ContextOK
    <3>3. undelivered[u].type \in WorkTypes
      BY <3>2, <1>0 DEF Work
    <3>4. undelivered[u].type = "TerminatingPodWork"
      BY <3>1, <3>3, <1>3 DEF WorkTypes
    <3> QED
      BY <3>1, <3>4, <1>0, PhaseWork
  <2> QED
    BY <1>1, <2>3, <2>4, <2>5
<1>5. CASE undelivered[u] # NoWork
  <2>1. /\ undelivered'[u] = NoWork /\ status'[u] = status[u]
        /\ podUpdates'[u].made = podUpdates[u].made
        /\ podUpdates'[u].buf = Append(<<>>, undelivered[u])
    <3>1. podUpdates' = [podUpdates EXCEPT ![u].buf = Append(@, undelivered[u])]
      BY <1>5 DEF CompleteWork, HasUndelivered
    <3>2. podUpdates'[u] = [podUpdates[u] EXCEPT !.buf = Append(@, undelivered[u])]
      BY <3>1 DEF TypeOK
    <3>3. /\ podUpdates'[u].made = podUpdates[u].made
          /\ podUpdates'[u].buf = Append(podUpdates[u].buf, undelivered[u])
      BY <3>2, PodTypes
    <3> QED
      BY <1>2, <1>5, <3>3 DEF CompleteWork, HasUndelivered, TypeOK
  <2>2. podUpdates'[u].buf # <<>> /\ Head(podUpdates'[u].buf) = undelivered[u]
    BY <1>0, <1>5, <2>1, OneElement
  <2>3. Current(u)' = undelivered[u] /\ NoWork.type = "none"
    BY <2>2 DEF Current, NoWork
  <2>4. status'[u].working
    BY <2>2 DEF PodInv, ChannelOK
  <2>5. status[u].terminating /\ ~status[u].finished => Attended(u)'
    BY <1>4, <2>1, <2>3, <2>4 DEF Attended
  <2>6. status[u].terminated => undelivered[u].type \notin {"SyncPodWork", "TerminatingPodWork"}
    BY DEF AttendedOK
  <2> QED
    BY <1>1, <1>2, <2>1, <2>3, <2>5, <2>6 DEF AttendedOK
<1>6. CASE undelivered[u] = NoWork
  <2>1. /\ undelivered'[u] = NoWork /\ podUpdates'[u] = podUpdates[u]
        /\ status' = [status EXCEPT ![u].working = FALSE]
    BY <1>6 DEF CompleteWork, HasUndelivered, TypeOK
  <2>2. /\ status'[u].finished = status[u].finished
        /\ status'[u].terminated = status[u].terminated
        /\ status'[u].terminating = status[u].terminating
    BY <2>1, PodTypes DEF TypeOK, PodSyncStatus
  <2>3. ~(status[u].terminating /\ ~status[u].finished)
    <3>1. status[u].terminating => WorkTypeOf(status[u]) # "none"
      BY <1>0, PhaseWork
    <3> QED
      BY <3>1, <1>4, <1>6 DEF NoWork
  <2>4. Current(u)' = NoWork /\ NoWork.type = "none"
    BY <1>1, <1>2, <2>1 DEF Current, Busy, NoWork
  <2> QED
    BY <1>1, <1>2, <2>1, <2>2, <2>3, <2>4 DEF AttendedOK
<1> QED
  BY <1>5, <1>6

\* A call that is answered at once leaves the work of the pod alone; a pod first
\* seen when it is over is finished.
LEMMA AttendedReturns ==
  ASSUME TypeOK, NEW u \in UIDs, PodInv(u), AttendedOK(u), NEW r \in Requests, NEW c \in BOOLEAN,
         NEW s, s = LookupStatus(u, r, c), UpdatePodReturns(u, r, s)
  PROVE  AttendedOK(u)'
<1>1. /\ podUpdates'[u] = podUpdates[u] /\ undelivered'[u] = undelivered[u]
      /\ worker'[u] = worker[u]
  BY DEF UpdatePodReturns, TypeOK
<1>2. s \in PodSyncStatus
  BY EntryTypes, 0 \in Nat
<1>3. status'[u] = s \/ status'[u] = [s EXCEPT !.restartRequested = TRUE]
  BY DEF UpdatePodReturns, TypeOK
<1>4. /\ status'[u].working = s.working
      /\ status'[u].finished = s.finished
      /\ status'[u].terminated = s.terminated
      /\ status'[u].terminating = s.terminating
      /\ status'[u].ctx = s.ctx
  BY <1>2, <1>3 DEF PodSyncStatus
<1>5. Current(u)' = Current(u)
  BY <1>1 DEF Current, Busy
<1>6. CASE status[u].known
  <2>1. s = status[u]
    BY <1>6 DEF LookupStatus
  <2> QED
    BY <1>1, <1>4, <1>5, <2>1, AttendedFrame
<1>7. CASE ~status[u].known
  <2>1. s.finished \/ (~s.terminated /\ ~s.terminating)
    BY <1>7 DEF LookupStatus, NoStatus
  <2>2. ~podUpdates[u].made /\ worker[u].pc = "none" /\ podUpdates[u].buf = <<>>
    BY <1>7 DEF PodInv, FlagsOK, ChannelOK
  <2>3. Current(u) = NoWork /\ undelivered[u] = NoWork /\ NoWork.type = "none"
    BY <2>2 DEF Current, Busy, AttendedOK, NoWork
  <2> QED
    BY <1>1, <1>4, <1>5, <2>1, <2>2, <2>3 DEF AttendedOK
<1> QED
  BY <1>6, <1>7

\* What UpdatePod dispatches is the work that the entry it leaves calls for; it
\* cancels a sync only for a termination, before the containers have stopped.
LEMMA AttendedDispatch ==
  ASSUME TypeOK, NEW u \in UIDs, PodInv(u), AttendedOK(u), PodInv(u)', TypeOK',
         NEW r \in Requests, NEW c \in BOOLEAN,
         NEW s, s = LookupStatus(u, r, c), UpdatePodDispatch(u, r, s)
  PROVE  AttendedOK(u)'
<1> DEFINE ver == calls[u] + 1
           marked == CheckTerminating(s, r)
           recorded == RecordKill(marked, r, ver)
           work == NewWork(recorded, r, ver)
           obsolete == \/ BecomesTerminating(s, r)
                       \/ s.gracePeriod # 0 /\ recorded.gracePeriod # s.gracePeriod
<1>1. ver \in Nat
  BY BoundsAssumption DEF TypeOK
<1>2. /\ ~s.finished /\ s \in PodSyncStatus
      /\ s.working = status[u].working
      /\ s.terminating = status[u].terminating
      /\ s.terminated = status[u].terminated
      /\ ~s.terminating => s.gracePeriod = 0
      /\ s.ctx = status[u].ctx
  <2>1. ~s.finished
    BY DEF UpdatePodDispatch
  <2> QED
    BY <2>1, DispatchEntry
<1>3. marked \in PodSyncStatus /\ recorded \in PodSyncStatus
  BY <1>1, EntryTypes
<1>4. /\ recorded.working = s.working /\ recorded.finished = s.finished
      /\ recorded.terminated = s.terminated /\ recorded.ctx = s.ctx
      /\ recorded.terminating <=> s.terminating \/ BecomesTerminating(s, r)
  <2>1. recorded = RecordKill(CheckTerminating(s, r), r, ver) /\ s \in PodSyncStatus
    BY <1>2
  <2> HIDE DEF recorded, ver
  <2> QED
    BY <1>1, <2>1, RecordedFields
<1>5. s.terminated => recorded.gracePeriod = s.gracePeriod
  <2>1. marked.gracePeriod = s.gracePeriod /\ marked.terminated = s.terminated
    BY <1>2 DEF CheckTerminating, PodSyncStatus
  <2> QED
    BY <2>1 DEF RecordKill
<1>6. s.terminated => s.terminating
  BY <1>2 DEF PodInv, FlagsOK
<1>7. obsolete => ~s.terminated /\ recorded.terminating
  BY <1>2, <1>4, <1>5, <1>6 DEF BecomesTerminating
<1>8. work \in Work /\ work.type = WorkTypeOf(recorded)
  BY <1>1, <1>3, NewWorkType DEF NewWork
<1>9. /\ podUpdates[u].made => worker' = worker
      /\ ~podUpdates[u].made => worker' = [worker EXCEPT ![u] = [NoWorker EXCEPT !.pc = "range"]]
      /\ \/ /\ ~s.working
            /\ status' = [status EXCEPT ![u] = [recorded EXCEPT !.working = TRUE]]
            /\ podUpdates' = [podUpdates EXCEPT ![u] =
                 [(IF podUpdates[u].made THEN podUpdates[u] ELSE [made |-> TRUE, buf |-> <<>>])
                    EXCEPT !.buf = Append(@, work)]]
            /\ undelivered' = undelivered
         \/ /\ s.working
            /\ undelivered' = [undelivered EXCEPT ![u] = work]
            /\ \/ status' = [status EXCEPT ![u] = recorded]
               \/ obsolete /\ status' = [status EXCEPT ![u] = [recorded EXCEPT !.ctx = "canceled"]]
            /\ podUpdates' = [podUpdates EXCEPT ![u] =
                 IF podUpdates[u].made THEN podUpdates[u] ELSE [made |-> TRUE, buf |-> <<>>]]
  BY DEF UpdatePodDispatch, IsWorking, CancelSync
<1> HIDE DEF ver, marked, recorded, work, obsolete
<1>10. recorded.terminated => WorkTypeOf(recorded) = "TerminatedPodWork"
  BY <1>3, PhaseWork
<1>11. recorded.terminating /\ ~recorded.terminated => WorkTypeOf(recorded) = "TerminatingPodWork"
  BY <1>3, PhaseWork
<1>12. CASE ~s.working
  <2>1. status'[u] = [recorded EXCEPT !.working = TRUE] /\ undelivered'[u] = undelivered[u]
    BY <1>9, <1>12 DEF TypeOK
  <2>2. podUpdates[u].buf = <<>> /\ (worker[u].pc = "none" \/ worker[u].pc = "range")
    BY <1>2, <1>12 DEF PodInv, ChannelOK, Busy
  <2>3. podUpdates'[u].made /\ podUpdates'[u].buf = Append(<<>>, work)
    <3>1. podUpdates'[u] = [(IF podUpdates[u].made THEN podUpdates[u] ELSE [made |-> TRUE, buf |-> <<>>])
                              EXCEPT !.buf = Append(@, work)]
      BY <1>9, <1>12 DEF TypeOK
    <3> QED
      BY <2>2, <3>1, PodTypes
  <2>4. podUpdates'[u].buf # <<>> /\ Head(podUpdates'[u].buf) = work
    BY <1>8, <2>3, OneElement
  <2>5. worker'[u].pc = "range"
    <3>1. [NoWorker EXCEPT !.pc = "range"].pc = "range"
      BY DEF NoWorker
    <3> QED
      BY <1>9, <2>2, <3>1 DEF TypeOK, PodInv, ChannelOK
  <2>6. Current(u)' = work
    BY <2>4 DEF Current
  <2>7. /\ status'[u].working
        /\ status'[u].finished = recorded.finished
        /\ status'[u].terminated = recorded.terminated
        /\ status'[u].terminating = recorded.terminating
    BY <1>3, <2>1 DEF PodSyncStatus
  <2>8. WorkTypeOf(status'[u]) = WorkTypeOf(recorded)
    BY <2>7 DEF WorkTypeOf
  <2>9. Attended(u)'
    BY <1>8, <2>6, <2>7, <2>8 DEF Attended
  <2>10. status'[u].terminated =>
           \A w \in {work, undelivered[u]} : w.type \notin {"SyncPodWork", "TerminatingPodWork"}
    BY <1>2, <1>4, <1>8, <1>10, <2>7 DEF AttendedOK
  <2> QED
    BY <2>1, <2>3, <2>5, <2>6, <2>9, <2>10 DEF AttendedOK
<1>13. CASE s.working
  <2>1. podUpdates[u].made
    BY <1>2, <1>13 DEF PodInv, ChannelOK, Busy
  <2>2. /\ undelivered'[u] = work /\ worker'[u] = worker[u] /\ podUpdates'[u] = podUpdates[u]
        /\ \/ status'[u] = recorded
           \/ obsolete /\ status'[u] = [recorded EXCEPT !.ctx = "canceled"]
    BY <1>9, <1>13, <2>1 DEF TypeOK
  <2>3. Current(u)' = Current(u)
    BY <2>2 DEF Current, Busy
  <2>4. /\ status'[u].working = recorded.working
        /\ status'[u].finished = recorded.finished
        /\ status'[u].terminated = recorded.terminated
        /\ status'[u].terminating = recorded.terminating
        /\ status'[u].ctx = recorded.ctx \/ obsolete
    BY <1>3, <2>2 DEF PodSyncStatus
  <2>5. WorkTypeOf(status'[u]) = WorkTypeOf(recorded)
    BY <2>4 DEF WorkTypeOf
  <2>6. Attended(u)'
    BY <1>4, <1>8, <1>13, <2>2, <2>4, <2>5 DEF Attended
  <2>7. status'[u].terminated =>
          \A w \in {Current(u), work} : w.type \notin {"SyncPodWork", "TerminatingPodWork"}
    BY <1>2, <1>4, <1>8, <1>10, <2>4 DEF AttendedOK
  <2>8. ASSUME worker'[u].pc \in {"acknowledge", "sync"}, status'[u].ctx = "canceled"
        PROVE  ~s.terminated /\ recorded.terminating
    <3>1. CASE obsolete
      BY <3>1, <1>7
    <3>2. CASE ~obsolete
      <4>1. worker[u].pc \in {"acknowledge", "sync"} /\ status[u].ctx = "canceled"
        BY <1>2, <1>4, <2>2, <2>4, <2>8, <3>2
      <4>2. undelivered[u] # NoWork /\ ~status[u].terminated /\ undelivered[u].type # "SyncPodWork"
        BY <4>1 DEF PodInv, ContextOK, AttendedOK
      <4>3. undelivered[u].type \in WorkTypes
        <5>1. undelivered[u] \in Work
          BY <4>2 DEF TypeOK
        <5> QED
          BY <5>1 DEF Work
      <4>4. status[u].terminating
        BY <4>2, <4>3 DEF WorkTypes, PodInv, FlagsOK
      <4> QED
        BY <4>2, <4>4, <1>2, <1>4
    <3> QED
      BY <3>1, <3>2
  <2>9. worker'[u].pc \in {"acknowledge", "sync"} /\ status'[u].ctx = "canceled" =>
          ~status'[u].terminated /\ work.type # "SyncPodWork"
    BY <2>8, <2>4, <1>4, <1>8, <1>11
  <2> QED
    BY <2>1, <2>2, <2>3, <2>6, <2>7, <2>9 DEF AttendedOK
<1> QED
  BY <1>12, <1>13

LEMMA AttendedStep ==
  ASSUME "error" \notin SyncOutcomes
  PROVE  IInv /\ (\A u \in UIDs : AttendedOK(u)) /\ [Next]_vars /\ IInv'
           => \A u \in UIDs : AttendedOK(u)'
<1> SUFFICES ASSUME TypeOK, \A v \in UIDs : PodInv(v), \A v \in UIDs : AttendedOK(v),
                    TypeOK', \A v \in UIDs : PodInv(v)', [Next]_vars, NEW v \in UIDs
             PROVE  AttendedOK(v)'
  BY IInvByPod DEF IInv, PodInv
<1>1. ASSUME status'[v] = status[v], podUpdates'[v] = podUpdates[v],
             undelivered'[v] = undelivered[v], worker'[v] = worker[v]
      PROVE  AttendedOK(v)'
  <2>1. Current(v)' = Current(v)
    BY <1>1 DEF Current, Busy
  <2> QED
    BY <1>1, <2>1, AttendedFrame
<1>2. CASE UNCHANGED vars
  BY <1>1, <1>2 DEF vars
<1>3. ASSUME NEW u \in UIDs, u # v, WorkerStep(u) \/ \E r \in Requests : UpdatePod(u, r)
      PROVE  AttendedOK(v)'
  BY <1>1, <1>3, OtherPods
<1>4. ASSUME WorkerStep(v)
      PROVE  AttendedOK(v)'
  BY <1>4, AttendedPassing, AttendedStart, AttendedPhases, AttendedCompleteWork DEF WorkerStep
<1>5. ASSUME NEW r \in Requests, UpdatePod(v, r)
      PROVE  AttendedOK(v)'
  <2>1. CASE UpdatePodIgnored(v, r)
    BY <2>1, <1>1 DEF UpdatePodIgnored
  <2>2. ASSUME NEW c \in BOOLEAN, \/ UpdatePodReturns(v, r, LookupStatus(v, r, c))
                                  \/ UpdatePodDispatch(v, r, LookupStatus(v, r, c))
        PROVE  AttendedOK(v)'
    BY <2>2, AttendedReturns, AttendedDispatch
  <2> QED
    BY <2>1, <2>2, <1>5 DEF UpdatePod
<1>6. ASSUME NEW desired \in SUBSET UIDs, SyncKnownPods(desired)
      PROVE  AttendedOK(v)'
  <2>1. worker' = worker
    BY <1>6 DEF SyncKnownPods
  <2>2. CASE v \notin Forgotten(desired)
    <3>1. /\ status'[v] = status[v] /\ podUpdates'[v] = podUpdates[v]
          /\ undelivered'[v] = undelivered[v]
      BY <1>6, <2>2 DEF SyncKnownPods
    <3> QED
      BY <3>1, <2>1, <1>1
  <2>3. CASE v \in Forgotten(desired)
    <3>1. status'[v] = NoStatus /\ undelivered'[v] = NoWork
      BY <1>6, <2>3 DEF SyncKnownPods
    <3>2. worker'[v].pc = "none"
      BY <2>1, <2>3 DEF Forgotten, PodInv, ChannelOK
    <3> QED
      BY <3>1, <3>2 DEF AttendedOK, NoStatus
  <2> QED
    BY <2>2, <2>3
<1> QED
  BY <1>2, <1>3, <1>4, <1>5, <1>6 DEF Next

LEMMA AttendedInit == Init => \A u \in UIDs : AttendedOK(u)
<1>1. ASSUME Init, NEW u \in UIDs PROVE AttendedOK(u)
  <2>1. status[u] = NoStatus /\ undelivered[u] = NoWork /\ worker[u] = NoWorker
    BY <1>1 DEF Init
  <2> QED
    BY <2>1 DEF AttendedOK, NoStatus, NoWorker
<1> QED
  BY <1>1

\* TerminationIsAttended, static pods included, as long as neither GetNewerThan
\* nor a sync function fails: what would end a failed termination, the work
\* queue, is read by nobody.
THEOREM AttendedSafe ==
  ASSUME "error" \notin SyncOutcomes
  PROVE  Spec => []TerminationIsAttended
<1> DEFINE Inv == \A u \in UIDs : AttendedOK(u)
<1>1. Init => Inv
  BY AttendedInit
<1>2. IInv /\ Inv /\ [Next]_vars /\ IInv' => Inv'
  BY AttendedStep
<1>3. Inv => TerminationIsAttended
  BY DEF AttendedOK, TerminationIsAttended
<1> HIDE DEF Inv
<1> QED
  BY <1>1, <1>2, <1>3, Invariance, PTL DEF Spec

=============================================================================
