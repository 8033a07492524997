------------------------------ MODULE PodWorkers ------------------------------
(***************************************************************************)
(* The pod workers (pkg/mycore/podworker.go): one goroutine per pod UID,   *)
(* fed by UpdatePod through a channel of capacity one, drives each pod     *)
(* through SyncPodWork, TerminatingPodWork and TerminatedPodWork.          *)
(*                                                                         *)
(* Every action below is one critical section of podLock (or one step of   *)
(* managePodLoop between two of them).  Timestamps are kept as "is set",   *)
(* which is all the code ever asks of them.  The injected functions        *)
(* (syncPodFn, syncTerminatingPodFn, syncTerminatedPodFn) and the pod      *)
(* cache's GetNewerThan are represented by the outcomes they may have.     *)
(***************************************************************************)
EXTENDS Integers, Sequences

CONSTANTS
  UIDs,         \* pod UIDs
  StaticPods,   \* the UIDs whose pods do not come from the API server
  Fullnames,    \* pod full names (name_namespace)
  Fullname,     \* the full name of each UID's pod
  NoUID,        \* "no entry" in startedStaticPodsByFullname
  Requests,     \* the UpdatePodOptions callers pass to UpdatePod
  SpecGrace,    \* pod.Spec.TerminationGracePeriodSeconds of the API pods
  SyncOutcomes, \* what the injected functions may report, see Outcomes
  MaxCalls      \* bound: calls of UpdatePod per UID

Nil == -1       \* a nil *int64

UpdateTypes == {"Create", "Update", "Sync", "Kill"}
WorkTypes == {"SyncPodWork", "TerminatingPodWork", "TerminatedPodWork"}

\* "active": syncPodFn returns (false, nil); "terminal": (true, nil);
\* "canceled": context.Canceled; "error": any other error.
Outcomes == {"active", "terminal", "canceled", "error"}

\* The part of UpdatePodOptions that UpdatePod looks at.  A nil KillPodOptions
\* is one with evict, ch and statusFn false and no override.
Options == [type: UpdateTypes,
            runtime: BOOLEAN,        \* RunningPod is set and Pod is nil
            deletion: BOOLEAN,       \* Pod.DeletionTimestamp is set
            terminalPhase: BOOLEAN,  \* Pod.Status.Phase is Failed or Succeeded
            deletionGrace: Nat \cup {Nil},
            evict: BOOLEAN,
            ch: BOOLEAN,             \* KillPodOptions.CompletedCh is set
            statusFn: BOOLEAN,       \* KillPodOptions.PodStatusFunc is set
            override: Nat \cup {Nil}]

ASSUME PodsAssumption ==
  /\ StaticPods \subseteq UIDs
  /\ Fullname \in [UIDs -> Fullnames]
  /\ NoUID \notin UIDs

\* A pod rebuilt from the runtime by ToAPIPod has neither metadata nor status.
ASSUME RequestsAssumption ==
  /\ Requests \subseteq Options
  /\ \A r \in Requests : r.runtime => /\ ~r.deletion /\ ~r.terminalPhase
                                      /\ r.deletionGrace = Nil

ASSUME BoundsAssumption ==
  /\ SpecGrace \in Nat \ {0}
  /\ SyncOutcomes \subseteq Outcomes
  /\ MaxCalls \in Nat

VARIABLES
  status,       \* podSyncStatuses
  podUpdates,   \* podUpdates: is there a channel, and what it buffers
  undelivered,  \* lastUndeliveredWorkUpdate
  worker,       \* the goroutine of each UID: position and local variables
  started,      \* startedStaticPodsByFullname
  waiting,      \* waitingToStartStaticPodsByFullname
  workQueue,    \* UIDs enqueued in workQueue
  podsSynced,   \* SyncKnownPods has run
  openCh,       \* CompletedCh channels received by UpdatePod and not closed
  calls         \* calls of UpdatePod so far; numbers requests and their channels

vars == <<status, podUpdates, undelivered, worker, started, waiting, workQueue,
          podsSynced, openCh, calls>>

-----------------------------------------------------------------------------
(* Data structures *)

\* ver is the number of the UpdatePod call whose pod object the work carries.
Work == [type: WorkTypes, runtime: BOOLEAN, grace: Nat \cup {Nil}, ver: Nat]

NoWork == [type |-> "none", runtime |-> FALSE, grace |-> Nil, ver |-> 0]

\* The zero podSyncStatus; known says whether the map has the entry at all.
NoStatus == [known |-> FALSE, working |-> FALSE, terminating |-> FALSE,
             startedTerminating |-> FALSE, terminated |-> FALSE,
             finished |-> FALSE, deleted |-> FALSE, evicted |-> FALSE,
             restartRequested |-> FALSE, gracePeriod |-> 0, notify |-> {},
             statusFn |-> 0, ctx |-> "nil"]

PodSyncStatus ==
  [known: BOOLEAN, working: BOOLEAN, terminating: BOOLEAN,
   startedTerminating: BOOLEAN, terminated: BOOLEAN, finished: BOOLEAN,
   deleted: BOOLEAN, evicted: BOOLEAN, restartRequested: BOOLEAN,
   gracePeriod: Nat,
   notify: SUBSET Nat,   \* notifyPostTerminating
   statusFn: Nat,        \* the last of statusPostTerminating, 0 when empty
   ctx: {"nil", "live", "canceled"}]

\* Where managePodLoop stands: "range" waits on the channel, "start" is before
\* allowPodStart, "unstarted" before completeUnstartedTerminated, "status" in
\* GetNewerThan, "context" before contextForWorker, "acknowledge" before
\* acknowledgeTerminating, "sync" in the sync function, "queueNext" before
\* completeWork; "none" means that there is no goroutine.
PCs == {"none", "range", "start", "unstarted", "status", "context",
        "acknowledge", "sync", "queueNext"}

Worker == [pc: PCs, podStarted: BOOLEAN, cur: Work \cup {NoWork}, statusFn: Nat]

NoWorker == [pc |-> "none", podStarted |-> FALSE, cur |-> NoWork, statusFn |-> 0]

NoChannel == [made |-> FALSE, buf |-> <<>>]

Init ==
  /\ status = [u \in UIDs |-> NoStatus]
  /\ podUpdates = [u \in UIDs |-> NoChannel]
  /\ undelivered = [u \in UIDs |-> NoWork]
  /\ worker = [u \in UIDs |-> NoWorker]
  /\ started = [f \in Fullnames |-> NoUID]
  /\ waiting = [f \in Fullnames |-> <<>>]
  /\ workQueue = {}
  /\ podsSynced = FALSE
  /\ openCh = [u \in UIDs |-> {}]
  /\ calls = [u \in UIDs |-> 0]

-----------------------------------------------------------------------------
(* Queries other components make under podLock *)

IsPodKnownTerminated(u) == status[u].known /\ status[u].terminated

CouldHaveRunningContainers(u) ==
  IF status[u].known THEN ~status[u].terminated ELSE ~podsSynced

ShouldPodContainersBeTerminating(u) ==
  IF status[u].known THEN status[u].startedTerminating ELSE podsSynced

ShouldPodRuntimeBeRemoved(u) ==
  IF status[u].known THEN status[u].terminated ELSE podsSynced

ShouldPodContentBeRemoved(u) ==
  IF status[u].known
  THEN status[u].evicted \/ (status[u].deleted /\ status[u].terminated)
  ELSE podsSynced

IsPodForMirrorPodTerminatingByFullName(f) ==
  /\ started[f] # NoUID
  /\ LET s == status[started[f]] IN s.known /\ s.terminating /\ ~s.terminated

-----------------------------------------------------------------------------
(* UpdatePod *)

\* The entry UpdatePod works on: the known one, or a new one.  A pod first seen
\* in a terminal phase whose cached status shows nothing running
\* (isPodStatusCacheTerminal) is recorded as finished at once.
LookupStatus(u, r, cacheTerminal) ==
  IF status[u].known THEN status[u]
  ELSE IF ~r.runtime /\ r.terminalPhase /\ cacheTerminal
       THEN [NoStatus EXCEPT !.known = TRUE, !.terminating = TRUE,
                             !.startedTerminating = TRUE, !.terminated = TRUE,
                             !.finished = TRUE]
       ELSE [NoStatus EXCEPT !.known = TRUE]

BecomesTerminating(s, r) ==
  /\ ~s.terminating
  /\ r.runtime \/ r.deletion \/ r.terminalPhase \/ r.type = "Kill"

\* The switch on a transition to terminating; its first matching case decides.
CheckTerminating(s, r) ==
  IF ~BecomesTerminating(s, r) THEN s
  ELSE [s EXCEPT !.terminating = TRUE,
                 !.deleted = @ \/ r.runtime \/ r.deletion,
                 !.evicted = @ \/ /\ ~r.runtime /\ ~r.deletion /\ ~r.terminalPhase
                                  /\ r.evict]

Shorten_AnyOverride(grace, override) == IF override # Nil THEN override ELSE grace

\* An override counts when there is no value yet or when it is shorter.
Shorten(grace, override) ==
  IF override # Nil /\ (grace = 0 \/ override < grace) THEN override ELSE grace

CalculateEffectiveGracePeriod_NoNilCheck(s, r) ==
  IF r.override < s.gracePeriod THEN r.override ELSE s.gracePeriod

CalculateEffectiveGracePeriod(s, r) ==
  LET requested == Shorten(Shorten(s.gracePeriod, r.deletionGrace), r.override)
      defaulted == IF requested = 0 /\ ~r.runtime THEN SpecGrace ELSE requested
  IN  IF defaulted < 1 THEN 1 ELSE defaulted

IsStaticPod(u, runtime) == u \in StaticPods /\ ~runtime

\* A RunningPod without a Pod may only be killed.
UpdatePodIgnored(u, r) ==
  /\ r.runtime /\ r.type # "Kill"
  /\ openCh' = [openCh EXCEPT ![u] = @ \cup (IF r.ch THEN {calls[u] + 1} ELSE {})]
  /\ UNCHANGED <<status, podUpdates, undelivered, worker, waiting>>

\* The early returns: a create for a terminating pod is only remembered, a
\* finished pod takes no more updates, a runtime kill of a terminated pod is
\* ignored until its worker completes.  None of them touches CompletedCh.
UpdatePodReturns(u, r, s) ==
  /\ ~(r.runtime /\ r.type # "Kill")
  /\ \/ /\ s.terminating /\ r.type = "Create"
        /\ status' = [status EXCEPT ![u] = [s EXCEPT !.restartRequested = TRUE]]
     \/ /\ ~(s.terminating /\ r.type = "Create")
        /\ s.finished \/ (s.terminated /\ r.runtime)
        /\ status' = [status EXCEPT ![u] = s]
  /\ openCh' = [openCh EXCEPT ![u] = @ \cup (IF r.ch THEN {calls[u] + 1} ELSE {})]
  /\ UNCHANGED <<podUpdates, undelivered, worker, waiting>>

\* The entry after the switch on the work type.
RecordKill(s, r, ver) ==
  IF s.terminated \/ ~s.terminating THEN s
  ELSE [s EXCEPT !.notify = IF r.ch THEN @ \cup {ver} ELSE @,
                 !.statusFn = IF r.statusFn THEN ver ELSE @,
                 !.gracePeriod = CalculateEffectiveGracePeriod(s, r)]

WorkTypeOf_IgnoresTerminated(s) ==
  IF s.terminating THEN "TerminatingPodWork" ELSE "SyncPodWork"

WorkTypeOf(s) ==
  CASE s.terminated -> "TerminatedPodWork"
    [] ~s.terminated /\ s.terminating -> "TerminatingPodWork"
    [] OTHER -> "SyncPodWork"

NewWork(s, r, ver) ==
  [type |-> WorkTypeOf(s),
   runtime |-> r.runtime,
   grace |-> IF s.terminating /\ ~s.terminated THEN s.gracePeriod ELSE Nil,
   ver |-> ver]

\* A sync that became obsolete is cancelled, if it has a context.
CancelSync(s, obsolete) ==
  IF obsolete /\ s.ctx # "nil" THEN [s EXCEPT !.ctx = "canceled"] ELSE s

IsWorking_Never(s) == FALSE

IsWorking(s) == s.working

\* The rest of UpdatePod: start the goroutine if there is none, then send the
\* work to it, or leave it undelivered if the worker is busy.
UpdatePodDispatch(u, r, s) ==
  LET ver == calls[u] + 1
      marked == CheckTerminating(s, r)
      recorded == RecordKill(marked, r, ver)
      work == NewWork(recorded, r, ver)
      obsolete == \/ BecomesTerminating(s, r)
                  \/ s.gracePeriod # 0 /\ recorded.gracePeriod # s.gracePeriod
      channel == IF podUpdates[u].made THEN podUpdates[u]
                 ELSE [made |-> TRUE, buf |-> <<>>]
  IN
  /\ ~(r.runtime /\ r.type # "Kill")
  /\ ~(s.terminating /\ r.type = "Create")
  /\ ~s.finished
  /\ ~(s.terminated /\ r.runtime)
  /\ openCh' = [openCh EXCEPT ![u] =
                  @ \cup (IF r.ch /\ work.type = "TerminatingPodWork" THEN {ver} ELSE {})]
  /\ IF podUpdates[u].made THEN UNCHANGED <<worker, waiting>>
     ELSE /\ worker' = [worker EXCEPT ![u] = [NoWorker EXCEPT !.pc = "range"]]
          /\ IF IsStaticPod(u, r.runtime)
             THEN waiting' = [waiting EXCEPT ![Fullname[u]] = Append(@, u)]
             ELSE UNCHANGED waiting
  /\ \/ /\ ~IsWorking(s)
        /\ status' = [status EXCEPT ![u] = [recorded EXCEPT !.working = TRUE]]
        /\ podUpdates' = [podUpdates EXCEPT ![u] =
                            [channel EXCEPT !.buf = Append(@, work)]]
        /\ UNCHANGED undelivered
     \/ /\ IsWorking(s)
        /\ undelivered' = [undelivered EXCEPT ![u] = work]
        /\ status' = [status EXCEPT ![u] = CancelSync(recorded, obsolete)]
        /\ podUpdates' = [podUpdates EXCEPT ![u] = channel]

UpdatePod(u, r) ==
  /\ calls[u] < MaxCalls
  /\ calls' = [calls EXCEPT ![u] = @ + 1]
  /\ \/ UpdatePodIgnored(u, r)
     \/ \E cacheTerminal \in BOOLEAN :
          LET s == LookupStatus(u, r, cacheTerminal)
          IN  UpdatePodReturns(u, r, s) \/ UpdatePodDispatch(u, r, s)
  /\ UNCHANGED <<started, workQueue, podsSynced>>

-----------------------------------------------------------------------------
(* managePodLoop *)

At(u, pc) == worker[u].pc = pc

Goto(u, pc) == worker' = [worker EXCEPT ![u].pc = pc]

\* The next update of the range loop over the channel.
Receive(u) ==
  /\ At(u, "range")
  /\ podUpdates[u].buf # <<>>
  /\ podUpdates' = [podUpdates EXCEPT ![u].buf = Tail(@)]
  /\ worker' = [worker EXCEPT ![u].cur = Head(podUpdates[u].buf),
                              ![u].pc = IF worker[u].podStarted THEN "status" ELSE "start"]
  /\ UNCHANGED <<status, undelivered, started, waiting, workQueue, podsSynced,
                 openCh, calls>>

\* The waiting pods of a name that could still start, by position; the loop of
\* allowStaticPodStart skips the others.
LiveWaiting(f) ==
  {i \in DOMAIN waiting[f] : LET s == status[waiting[f][i]]
                             IN  s.known /\ ~s.terminating /\ ~s.terminated}

FirstLive(f) == CHOOSE i \in LiveWaiting(f) : \A j \in LiveWaiting(f) : i <= j

AllowStaticPodStart_IgnoresStarted(f, u) ==
  LiveWaiting(f) # {} => waiting[f][FirstLive(f)] = u

\* The result of allowStaticPodStart, and the waiting list it leaves.
AllowStaticPodStart(f, u) ==
  IF started[f] # NoUID THEN started[f] = u
  ELSE LiveWaiting(f) # {} => waiting[f][FirstLive(f)] = u

TrimWaiting(f, u) ==
  IF started[f] # NoUID \/ LiveWaiting(f) = {} THEN waiting[f]
  ELSE SubSeq(waiting[f],
              IF waiting[f][FirstLive(f)] = u THEN FirstLive(f) + 1 ELSE FirstLive(f),
              Len(waiting[f]))

NeverStarts_KnownOnly(u) == ~status[u].known

\* A static pod that was killed or forgotten before its start.
NeverStarts(u) == ~status[u].known \/ status[u].terminating

\* allowPodStart: pods of the API server always start; a static pod is
\* abandoned if it is terminating, starts if it is its turn, and otherwise
\* drops this update and waits for the next one.
AllowPodStart(u) ==
  LET f == Fullname[u]
      static == IsStaticPod(u, worker[u].cur.runtime)
      start == worker' = [worker EXCEPT ![u] = [@ EXCEPT !.podStarted = TRUE, !.pc = "status"]]
  IN
  /\ At(u, "start")
  /\ \/ /\ ~static
        /\ start
        /\ UNCHANGED <<status, started, waiting, workQueue>>
     \/ /\ static /\ NeverStarts(u)
        /\ Goto(u, "unstarted")
        /\ UNCHANGED <<status, started, waiting, workQueue>>
     \/ /\ static /\ ~NeverStarts(u) /\ AllowStaticPodStart(f, u)
        /\ start
        /\ started' = [started EXCEPT ![f] = u]
        /\ waiting' = [waiting EXCEPT ![f] = TrimWaiting(f, u)]
        /\ UNCHANGED <<status, workQueue>>
     \/ /\ static /\ ~NeverStarts(u) /\ ~AllowStaticPodStart(f, u)
        /\ Goto(u, "range")
        /\ waiting' = [waiting EXCEPT ![f] = TrimWaiting(f, u)]
        /\ status' = [status EXCEPT ![u].working = FALSE]
        /\ workQueue' = workQueue \cup {u}
        /\ UNCHANGED started
  /\ UNCHANGED <<podUpdates, undelivered, podsSynced, openCh, calls>>

\* podCache.GetNewerThan returns a status; an update for a RunningPod needs none.
GetNewerThan(u) ==
  /\ At(u, "status")
  /\ Goto(u, "context")
  /\ UNCHANGED <<status, podUpdates, undelivered, started, waiting, workQueue,
                 podsSynced, openCh, calls>>

RenewContext_KeepsCanceled(ctx) == IF ctx = "nil" THEN "live" ELSE ctx

\* contextForWorker replaces a missing or cancelled context.
RenewContext(ctx) == IF ctx \in {"nil", "canceled"} THEN "live" ELSE ctx

ContextForWorker(u) ==
  /\ At(u, "context")
  /\ status' = IF status[u].known THEN [status EXCEPT ![u].ctx = RenewContext(@)] ELSE status
  /\ Goto(u, IF worker[u].cur.type = "TerminatingPodWork" THEN "acknowledge" ELSE "sync")
  /\ UNCHANGED <<podUpdates, undelivered, started, waiting, workQueue, podsSynced,
                 openCh, calls>>

AcknowledgeTerminating(u) ==
  /\ At(u, "acknowledge")
  /\ status' = [status EXCEPT ![u].startedTerminating =
                  @ \/ (status[u].known /\ status[u].terminating)]
  /\ worker' = [worker EXCEPT ![u].pc = "sync", ![u].statusFn = status[u].statusFn]
  /\ UNCHANGED <<podUpdates, undelivered, started, waiting, workQueue, podsSynced,
                 openCh, calls>>

\* The sync function of cur has returned without an error.
Synced(u, type) == At(u, "sync") /\ worker[u].cur.type = type

\* syncPodFn reported that the pod is terminal.
CompleteSync(u) ==
  /\ Synced(u, "SyncPodWork")
  /\ "terminal" \in SyncOutcomes
  /\ status' = IF status[u].known
               THEN [status EXCEPT ![u].terminating = TRUE,
                                   ![u].startedTerminating = TRUE]
               ELSE status
  /\ undelivered' = [undelivered EXCEPT ![u] =
                       [type |-> "TerminatingPodWork", runtime |-> FALSE,
                        grace |-> Nil, ver |-> worker[u].cur.ver]]
  /\ Goto(u, "queueNext")
  /\ UNCHANGED <<podUpdates, started, waiting, workQueue, podsSynced, openCh, calls>>

StoppedStatus_KeepsNotify(s) == [s EXCEPT !.terminated = TRUE, !.statusFn = 0]

\* The entry of a pod whose containers have stopped, with its notify list spent.
StoppedStatus(s) == [s EXCEPT !.terminated = TRUE, !.notify = {}, !.statusFn = 0]

\* syncTerminatingPodFn succeeded for a pod with a configuration.
CompleteTerminating(u) ==
  /\ Synced(u, "TerminatingPodWork") /\ ~worker[u].cur.runtime
  /\ status' = IF status[u].known THEN [status EXCEPT ![u] = StoppedStatus(@)] ELSE status
  /\ openCh' = [openCh EXCEPT ![u] = @ \ status[u].notify]
  /\ undelivered' = [undelivered EXCEPT ![u] =
                       [type |-> "TerminatedPodWork", runtime |-> FALSE,
                        grace |-> Nil, ver |-> worker[u].cur.ver]]
  /\ Goto(u, "queueNext")
  /\ UNCHANGED <<podUpdates, started, waiting, workQueue, podsSynced, calls>>

\* cleanupPodUpdates, and the release of the name of a started static pod.
CleanupPodUpdates(u) ==
  /\ podUpdates' = [podUpdates EXCEPT ![u] = NoChannel]
  /\ undelivered' = [undelivered EXCEPT ![u] = NoWork]

ReleaseFullname_Leaks(u) == UNCHANGED started

ReleaseFullname(u) ==
  started' = IF status[u].known /\ started[Fullname[u]] = u
             THEN [started EXCEPT ![Fullname[u]] = NoUID] ELSE started

FinishedStatus_StillWorking(s, terminated) ==
  [s EXCEPT !.finished = TRUE, !.terminated = terminated]

FinishedStatus(s, terminated) ==
  [s EXCEPT !.finished = TRUE, !.terminated = terminated, !.working = FALSE]

\* What completeTerminated, completeTerminatingRuntimePod and
\* completeUnstartedTerminated have in common: the worker returns.
Finish(u, terminated) ==
  /\ status' = IF status[u].known
               THEN [status EXCEPT ![u] = FinishedStatus(@, terminated)] ELSE status
  /\ CleanupPodUpdates(u)
  /\ ReleaseFullname(u)
  /\ worker' = [worker EXCEPT ![u] = NoWorker]
  /\ UNCHANGED <<waiting, workQueue, podsSynced, openCh, calls>>

CompleteTerminatingRuntimePod(u) ==
  /\ Synced(u, "TerminatingPodWork") /\ worker[u].cur.runtime
  /\ Finish(u, TRUE)

CompleteUnstartedTerminated(u) ==
  /\ At(u, "unstarted")
  /\ Finish(u, TRUE)

\* syncTerminatedPodFn succeeded; terminatedAt stays as it is.
CompleteTerminated(u) ==
  /\ Synced(u, "TerminatedPodWork")
  /\ Finish(u, status[u].terminated)

\* The iteration ends in completeWork: after a phase transition, after a
\* successful syncPodFn of a pod that stays active, or after an error of
\* GetNewerThan or of a sync function.
IterationDone(u) ==
  \/ At(u, "queueNext")
  \/ Synced(u, "SyncPodWork") /\ "active" \in SyncOutcomes
  \/ At(u, "sync") /\ status[u].ctx = "canceled" /\ "canceled" \in SyncOutcomes
  \/ At(u, "sync") /\ "error" \in SyncOutcomes
  \/ At(u, "status") /\ ~worker[u].cur.runtime /\ "error" \in SyncOutcomes

HasUndelivered_UnlessCanceled(u) ==
  undelivered[u] # NoWork /\ status[u].ctx # "canceled"

HasUndelivered(u) == undelivered[u] # NoWork

\* completeWork enqueues the UID, then completeWorkQueueNext sends the
\* undelivered work, if any, to the worker's own channel.
CompleteWork(u) ==
  /\ IterationDone(u)
  /\ workQueue' = workQueue \cup {u}
  /\ Goto(u, "range")
  /\ IF HasUndelivered(u)
     THEN /\ podUpdates' = [podUpdates EXCEPT ![u].buf = Append(@, undelivered[u])]
          /\ undelivered' = [undelivered EXCEPT ![u] = NoWork]
          /\ UNCHANGED status
     ELSE /\ status' = [status EXCEPT ![u].working = FALSE]
          /\ UNCHANGED <<podUpdates, undelivered>>
  /\ UNCHANGED <<started, waiting, podsSynced, openCh, calls>>

-----------------------------------------------------------------------------
(* Housekeeping *)

Forgotten_Unfinished(desired) ==
  {u \in UIDs : status[u].known /\ (u \notin desired \/ status[u].restartRequested)}

\* SyncKnownPods forgets (removeTerminatedWorker) the finished pods that are
\* not desired or that are to be restarted.
Forgotten(desired) ==
  {u \in UIDs : /\ status[u].known /\ status[u].finished
                /\ u \notin desired \/ status[u].restartRequested}

SyncKnownPods(desired) ==
  LET gone == Forgotten(desired) IN
  /\ podsSynced' = TRUE
  /\ status' = [u \in UIDs |-> IF u \in gone THEN NoStatus ELSE status[u]]
  /\ podUpdates' = [u \in UIDs |-> IF u \in gone THEN NoChannel ELSE podUpdates[u]]
  /\ undelivered' = [u \in UIDs |-> IF u \in gone THEN NoWork ELSE undelivered[u]]
  /\ started' = [f \in Fullnames |-> IF started[f] \in gone THEN NoUID ELSE started[f]]
  /\ UNCHANGED <<worker, waiting, workQueue, openCh, calls>>

-----------------------------------------------------------------------------
WorkerStep(u) ==
  \/ Receive(u)
  \/ AllowPodStart(u)
  \/ GetNewerThan(u)
  \/ ContextForWorker(u)
  \/ AcknowledgeTerminating(u)
  \/ CompleteSync(u)
  \/ CompleteTerminating(u)
  \/ CompleteTerminatingRuntimePod(u)
  \/ CompleteUnstartedTerminated(u)
  \/ CompleteTerminated(u)
  \/ CompleteWork(u)

Next ==
  \/ \E u \in UIDs, r \in Requests : UpdatePod(u, r)
  \/ \E u \in UIDs : WorkerStep(u)
  \/ \E desired \in SUBSET UIDs : SyncKnownPods(desired)

\* A goroutine that can take a step is eventually scheduled, and the sync
\* functions return.  GetNewerThan returns when somebody sets a newer status,
\* which nobody owes the worker; callers of UpdatePod and SyncKnownPods promise
\* nothing either.
Fairness == \A u \in UIDs : WF_vars(~At(u, "status") /\ WorkerStep(u))

Spec == Init /\ [][Next]_vars /\ Fairness

-----------------------------------------------------------------------------
(* Properties *)

\* Type invariant.
TypeOK ==
  /\ status \in [UIDs -> PodSyncStatus]
  /\ podUpdates \in [UIDs -> [made: BOOLEAN, buf: Seq(Work)]]
  /\ undelivered \in [UIDs -> Work \cup {NoWork}]
  /\ worker \in [UIDs -> Worker]
  /\ started \in [Fullnames -> UIDs \cup {NoUID}]
  /\ waiting \in [Fullnames -> Seq(UIDs)]
  /\ workQueue \in SUBSET UIDs
  /\ podsSynced \in BOOLEAN
  /\ openCh \in [UIDs -> SUBSET Nat]
  /\ calls \in [UIDs -> 0..MaxCalls]

\* The goroutine of u is handling an update.
Busy(u) == worker[u].pc \notin {"none", "range"}

\* The flags of a pod follow its life: finished implies terminated implies
\* terminating, a finished pod has no goroutine and is not working, and a pod
\* that is not terminating has no kill on record.
LifecycleOrder ==
  \A u \in UIDs :
    LET s == status[u] IN
    /\ s.finished => s.terminated /\ ~s.working /\ worker[u].pc = "none"
    /\ s.terminated => s.terminating
    /\ s.startedTerminating => s.terminating
    /\ ~s.terminating => s.gracePeriod = 0 /\ s.notify = {} /\ ~s.evicted /\ ~s.deleted

\* UpdatePod and completeWorkQueueNext send on the channel while they hold
\* podLock, so a full or missing channel would block every pod: there is a
\* goroutine exactly when there is a channel, the channel buffers at most one
\* work item, and none while the goroutine is handling another.
SendNeverBlocks ==
  \A u \in UIDs :
    /\ podUpdates[u].made <=> worker[u].pc # "none"
    /\ Len(podUpdates[u].buf) <= 1
    /\ Busy(u) => podUpdates[u].buf = <<>>
    /\ ~podUpdates[u].made => podUpdates[u].buf = <<>>

\* A pod is marked working exactly while an update is in its channel or in its
\* goroutine's hands.  A pod left working with nothing in flight would only
\* collect undelivered work and never run again.
WorkingIffInFlight ==
  \A u \in UIDs : status[u].working <=> Busy(u) \/ podUpdates[u].buf # <<>>

\* The sync functions run in the right phase, as the queries show it to other
\* components: syncPod never runs once containers should be terminating,
\* syncTerminatingPod runs only between that point and the end of the
\* containers, syncTerminatedPod only after it.
WorkMatchesPhase(u) ==
  At(u, "sync") =>
    LET type == worker[u].cur.type IN
    /\ status[u].known
    /\ type = "SyncPodWork" => ~ShouldPodContainersBeTerminating(u)
    /\ type = "TerminatingPodWork" =>
         ShouldPodContainersBeTerminating(u) /\ CouldHaveRunningContainers(u)
    /\ type = "TerminatedPodWork" =>
         ShouldPodRuntimeBeRemoved(u) /\ ~CouldHaveRunningContainers(u)

PhasesNeverMix == \A u \in UIDs \ StaticPods : WorkMatchesPhase(u)

\* "When the context is cancelled we expect an update to already be queued":
\* nothing else would run the pod again.
CanceledHasSuccessor ==
  \A u \in UIDs :
    At(u, "sync") /\ status[u].ctx = "canceled" => undelivered[u] # NoWork

\* A channel on the notify list has not been closed: closing it again would
\* panic.
NotifyStaysOpen == \A u \in UIDs : status[u].notify \subseteq openCh[u]

\* The work item a pod's goroutine is handling or finds next in its channel.
Current(u) ==
  IF podUpdates[u].buf # <<>> THEN Head(podUpdates[u].buf)
  ELSE IF Busy(u) /\ worker[u].pc # "queueNext" THEN worker[u].cur ELSE NoWork

\* The inductive invariant of the safety proofs, for one pod: the channel
\* protocol, the order of the flags, and the work items that may be around in
\* each phase.  A static pod that waits for its name breaks the last part: it
\* leaves undelivered work behind while it is not working.
ChannelOK(u) ==
  /\ podUpdates[u].made <=> worker[u].pc # "none"
  /\ podUpdates[u].made => status[u].known /\ ~status[u].finished
  /\ podUpdates[u].buf # <<>> => Len(podUpdates[u].buf) = 1 /\ worker[u].pc = "range"
  /\ status[u].working <=> Busy(u) \/ podUpdates[u].buf # <<>>

FlagsOK(u) ==
  LET s == status[u] IN
  /\ ~s.known => s = NoStatus
  /\ s.finished => s.terminated
  /\ s.terminated => s.terminating
  /\ s.startedTerminating => s.terminating
  /\ ~s.terminating => s.gracePeriod = 0 /\ s.notify = {} /\ ~s.evicted /\ ~s.deleted
  /\ s.notify \subseteq openCh[u]
  /\ worker[u].pc = "unstarted" => s.terminating
  /\ \A w \in {Current(u), undelivered[u]} :
       /\ w.type = "TerminatingPodWork" => s.terminating
       /\ w.type = "TerminatedPodWork" => s.terminated

ContextOK(u) ==
  /\ worker[u].pc \in {"acknowledge", "sync"} /\ status[u].ctx = "canceled" =>
       undelivered[u] # NoWork
  /\ At(u, "acknowledge") => worker[u].cur.type = "TerminatingPodWork"
  /\ Synced(u, "TerminatingPodWork") => status[u].startedTerminating

PhaseOK(u) ==
  LET s == status[u] IN
  /\ ~s.working => undelivered[u] = NoWork
  /\ s.terminating => undelivered[u].type # "SyncPodWork"
  /\ s.startedTerminating => Current(u).type # "SyncPodWork"
  /\ s.terminated => /\ s.startedTerminating
                     /\ Current(u).type # "TerminatingPodWork"
                     /\ undelivered[u].type # "TerminatingPodWork"
  /\ ~At(u, "unstarted")

IInv ==
  /\ TypeOK
  /\ \A u \in UIDs : ChannelOK(u) /\ FlagsOK(u) /\ ContextOK(u)
  /\ \A u \in UIDs \ StaticPods : PhaseOK(u)

\* "A pod that is terminated will never be restarted": termination is undone
\* only by forgetting a finished pod that has no goroutine.
TerminationKept(u) ==
  /\ status[u].terminating => \/ status'[u].terminating
                              \/ status[u].finished /\ worker[u].pc = "none"
  /\ status[u].startedTerminating => \/ status'[u].startedTerminating
                                     \/ status[u].finished /\ worker[u].pc = "none"

TerminationIsFinal == [][\A u \in UIDs : TerminationKept(u)]_vars

\* A grace period on record is never zero, and it grows only in a call that
\* brings a zero, the deletion grace period of a forced deletion or an override:
\* calculateEffectiveGracePeriod takes a zero for "nothing requested yet".  (The
\* comments on it and in UpdatePod say that the period can only decrease.)
GraceGrowsOnlyByZero ==
  [][\A u \in UIDs :
       status[u].gracePeriod # 0 /\ status'[u].known =>
         /\ status'[u].gracePeriod # 0
         /\ status'[u].gracePeriod > status[u].gracePeriod =>
              \E r \in Requests : UpdatePod(u, r) /\ 0 \in {r.deletionGrace, r.override}]_vars

\* "Always sync the most recent data": a worker never turns to a pod object
\* older than the one it handled before.
NeverGoesBack(u) ==
  /\ worker[u].pc # "none" => worker'[u].pc = "none" \/ worker'[u].cur.ver >= worker[u].cur.ver

NewestPodWins == [][\A u \in UIDs \ StaticPods : NeverGoesBack(u)]_vars

\* Two static pods of the same full name are never started at the same time.
OneStaticPodPerName ==
  \A u, v \in StaticPods :
    u # v /\ Fullname[u] = Fullname[v] => ~(worker[u].podStarted /\ worker[v].podStarted)

\* The holder of a full name still has a goroutine, which will release it:
\* otherwise no other pod of that name could ever start.
HolderIsAlive ==
  \A f \in Fullnames :
    started[f] # NoUID => /\ worker[started[f]].podStarted
                          /\ Fullname[started[f]] = f

\* The inductive invariants behind the last three.  The pod objects a worker
\* meets next are no older than the one it has.
VersionsOK(u) ==
  LET cur == worker[u].cur
      buf == podUpdates[u].buf
  IN  /\ cur.ver <= calls[u]
      /\ buf # <<>> => cur.ver <= Head(buf).ver /\ Head(buf).ver <= calls[u]
      /\ undelivered[u] # NoWork => /\ cur.ver <= undelivered[u].ver
                                    /\ undelivered[u].ver <= calls[u]
                                    /\ buf # <<>> => Head(buf).ver <= undelivered[u].ver

\* Only a goroutine has started a pod; the names are held by started pods.
NamesOK == HolderIsAlive /\ \A u \in UIDs : worker[u].pc = "none" => ~worker[u].podStarted

\* As long as nobody kills a RunningPod, no worker takes a static pod for one
\* that may start without its name.
StaticOK(u) ==
  /\ ~worker[u].cur.runtime /\ ~undelivered[u].runtime
  /\ \A i \in DOMAIN podUpdates[u].buf : ~podUpdates[u].buf[i].runtime
  /\ u \in StaticPods /\ worker[u].podStarted => started[Fullname[u]] = u

\* The work that brings u to its next phase is in its channel, in its goroutine's
\* hands or undelivered behind them, and the goroutine has yet to come back for
\* more; "unstarted" needs no work item.
Attended(u) ==
  /\ status[u].working
  /\ \/ At(u, "unstarted")
     \/ WorkTypeOf(status[u]) \in {Current(u).type, undelivered[u].type}

\* As long as no sync fails, a pod whose termination was asked for is never left
\* alone before it is finished, although its kill may replace or be replaced by
\* other undelivered work, and syncs are cancelled under it.
TerminationIsAttended ==
  \A u \in UIDs : status[u].terminating /\ ~status[u].finished => Attended(u)

\* The inductive invariant behind it: nothing of an earlier phase is left once
\* the containers have stopped, and a cancelled sync is followed by the kill that
\* cancelled it.
AttendedOK(u) ==
  LET s == status[u] IN
  /\ s.terminating /\ ~s.finished => Attended(u)
  /\ s.terminated => \A w \in {Current(u), undelivered[u]} :
                       w.type \notin {"SyncPodWork", "TerminatingPodWork"}
  /\ ~podUpdates[u].made => undelivered[u] = NoWork
  /\ worker[u].pc \in {"acknowledge", "sync"} /\ s.ctx = "canceled" =>
       ~s.terminated /\ undelivered[u].type # "SyncPodWork"

\* A termination, once requested, completes, unless the worker waits for ever
\* for a newer status in the cache (the run kubelet_stuck shows that it may).
TerminationCompletes ==
  \A u \in UIDs :
    status[u].terminating ~> (status[u].finished \/ ~status[u].known \/ []At(u, "status"))

=============================================================================
