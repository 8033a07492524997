---------------------------- MODULE StatusManager ----------------------------
(***************************************************************************)
(* The status manager (pkg/kubelet/status/status_manager.go): a cache of   *)
(* versioned pod statuses that pod workers and probers write under         *)
(* podStatusesLock, and one sync thread that carries them to the API       *)
(* server, from podStatusChannel or, every ten seconds, in a batch.        *)
(*                                                                         *)
(* The API server and its other clients are the environment.  The pod      *)
(* manager and the pod object each worker holds follow the API server as   *)
(* the handlers of kubelet.go let them.  Pods are regular pods with one    *)
(* container (static and mirror pods do not occur in this program).        *)
(* Conditions are reduced to the kubelet's Ready condition and to one, a   *)
(* readiness gate, that another controller owns.                           *)
(***************************************************************************)
EXTENDS Integers, Sequences, FiniteSets

CONSTANTS
  UIDs,          \* pod UIDs; a UID is never used twice
  Names,         \* pod names: the keys under which the API server keeps pods
  NameOf,        \* the name of each UID's pod
  NoUID,         \* the UID of "no pod"
  Restart,       \* pod.Spec.RestartPolicy
  Runtime,       \* container statuses that the workers may be told; each
                 \* container of the spec has one (convertToAPIContainerStatuses)
  Created,       \* pod statuses that the kubelet may find in a new API object
  OutsideWriter, \* whether another client writes the Ready condition
  ChannelCap,    \* capacity of podStatusChannel (1000 in the code)
  MaxUpdates,    \* bound: syncs of workers, calls of the other Set methods and
                 \* TerminatePod, and outside writes of the Ready condition
  MaxFaults      \* bound: API calls that answer with an error, whether or not
                 \* the server has carried them out

Phases == {"Pending", "Running", "Succeeded", "Failed"}
ContainerStates == {"none", "waiting", "running", "completed", "failed"}

\* "none" stands for a pod that has no container status yet.
Container == [state: ContainerStates, ready: BOOLEAN, started: BOOLEAN]

\* cond is the Ready condition; gate the condition that kubelet does not own.
PodStatus == [phase: Phases, container: Container, cond: BOOLEAN, gate: BOOLEAN]

NoStatus == [phase |-> "Pending", cond |-> FALSE, gate |-> FALSE,
             container |-> [state |-> "none", ready |-> FALSE, started |-> FALSE]]

Pod == [uid: UIDs \cup {NoUID}, deletion: BOOLEAN, status: PodStatus]

NoPod == [uid |-> NoUID, deletion |-> FALSE, status |-> NoStatus]

\* version 0 stands for "not in the map".
Versioned == [status: PodStatus, version: Nat]

NotCached == [status |-> NoStatus, version |-> 0]

SyncRequest == [uid: UIDs, status: PodStatus, version: Nat]

ASSUME PodsAssumption ==
  /\ NameOf \in [UIDs -> Names]
  /\ NoUID \notin UIDs
  /\ IsFiniteSet(UIDs)

ASSUME InputsAssumption ==
  /\ Restart \in {"Always", "OnFailure", "Never"}
  /\ Runtime \subseteq {c \in Container : c.state # "none"}
  /\ Created \subseteq PodStatus
  /\ OutsideWriter \in BOOLEAN

ASSUME BoundsAssumption ==
  /\ ChannelCap \in Nat \ {0}
  /\ MaxUpdates \in Nat
  /\ MaxFaults \in Nat

VARIABLES
  podStatuses,        \* the cached statuses
  podStatusChannel,   \* requests for the sync thread
  apiStatusVersions,  \* the version last sent for each UID; 0 when absent
  thread,             \* the sync thread: position and local variables
  podManager,         \* the pods the kubelet knows, as last handled
  held,               \* the pod object that each pod's worker holds
  computed,           \* the status that its sync function has computed, or <<>>
  api,                \* the API server: the pod of each name
  used,               \* the UIDs that have been created
  updates, faults,    \* counters for the bounds
  written,            \* history: the version of the last write of each UID's pod
  acked               \* history: the version of the last one that was answered

vars == <<podStatuses, podStatusChannel, apiStatusVersions, thread, podManager,
          held, computed, api, used, updates, faults, written, acked>>

cacheVars == <<podStatuses, podStatusChannel, updates>>
envVars == <<podManager, held, computed, used>>
history == <<written, acked>>

\* "select" waits for a request or the ticker, "drained" is before syncBatch,
\* "sync" before syncPod of a queued request, "patch" between the Get and the
\* Patch of one, "delete" between the Patch and the Delete.
PCs == {"select", "drained", "sync", "patch", "delete"}

Idle == [pc |-> "select", queue |-> {}, req |-> <<>>, pod |-> NoPod]

Init ==
  /\ podStatuses = [u \in UIDs |-> NotCached]
  /\ podStatusChannel = <<>>
  /\ apiStatusVersions = [u \in UIDs |-> 0]
  /\ thread = Idle
  /\ podManager = [u \in UIDs |-> NoPod]
  /\ held = [u \in UIDs |-> NoPod]
  /\ computed = [u \in UIDs |-> <<>>]
  /\ api = [n \in Names |-> NoPod]
  /\ used = {}
  /\ updates = 0
  /\ faults = 0
  /\ written = [u \in UIDs |-> 0]
  /\ acked = [u \in UIDs |-> 0]

-----------------------------------------------------------------------------
(* The statuses workers compute: podfn.go and generate.go *)

IsTerminated(c) == c.state \in {"completed", "failed"}

IsTerminalPhase(p) == p \in {"Succeeded", "Failed"}

\* The phase of a pod with one container.
GetPhase(c) ==
  IF c.state = "completed" /\ Restart # "Always" THEN "Succeeded"
  ELSE IF c.state = "failed" /\ Restart = "Never" THEN "Failed"
  ELSE IF c.state = "running" \/ IsTerminated(c) THEN "Running"
  ELSE "Pending"

\* A terminal phase, cached or in the API object, is never left.
NextPhase(old, shown, phase) ==
  IF IsTerminalPhase(shown) THEN shown
  ELSE IF IsTerminalPhase(old) /\ ~IsTerminalPhase(phase) THEN old
  ELSE phase

\* "Ready": containers ready and gate open, never in a terminal phase.
GeneratePodReadyCondition(c, phase, gate) ==
  c.ready /\ gate /\ ~IsTerminalPhase(phase)

\* The status for pod, given what is cached and the container's state.
GenerateAPIPodStatus(pod, cached, c) ==
  LET old == IF cached.version = 0 THEN pod.status ELSE cached.status
      phase == NextPhase(old.phase, pod.status.phase, GetPhase(c))
  IN  [phase |-> phase, container |-> c, gate |-> pod.status.gate,
       cond |-> GeneratePodReadyCondition(c, phase, pod.status.gate)]

-----------------------------------------------------------------------------
(* Writing the cache: one critical section of podStatusesLock each *)

CheckContainerStateTransition_Skipped(old, new) == TRUE

\* Terminated containers stay so, unless the restart policy restarts them.
CheckContainerStateTransition(old, new) ==
  \/ Restart = "Always"
  \/ ~IsTerminated(old)
  \/ old.state = "failed" /\ Restart = "OnFailure"
  \/ new.state = "none"
  \/ IsTerminated(new)

\* Equal up to conditions kubelet does not own.
IsPodStatusByKubeletEqual(old, new) == [old EXCEPT !.gate = new.gate] = new

Send_Unbounded(ch, r) == Append(ch, r)

\* The channel is full: leave the update to the batch.
Send(ch, r) == IF Len(ch) < ChannelCap THEN Append(ch, r) ELSE ch

\* updateStatusInternal, for a pod object and a new status.
UpdateStatusInternal(pod, status, force) ==
  LET u == pod.uid
      cached == podStatuses[u]
      old == IF cached.version = 0 THEN pod.status ELSE cached.status
      new == [status |-> status, version |-> cached.version + 1]
      changes == /\ CheckContainerStateTransition(old.container, status.container)
                 /\ \/ cached.version = 0 \/ force
                    \/ ~IsPodStatusByKubeletEqual(cached.status, status)
  IN  IF changes
      THEN /\ podStatuses' = [podStatuses EXCEPT ![u] = new]
           /\ podStatusChannel' =
                Send(podStatusChannel,
                     [uid |-> u, status |-> status, version |-> new.version])
      ELSE UNCHANGED <<podStatuses, podStatusChannel>>

MayUpdate ==
  /\ updates < MaxUpdates
  /\ updates' = updates + 1

\* What the writers of the cache leave alone.
othersVars == <<apiStatusVersions, thread, api, faults, history, podManager, held, used>>

Syncs(u) == held[u] # NoPod /\ computed[u] = <<>>

\* A worker's sync function computes the status of the pod it holds from the
\* container's state and what is cached now (GetPodStatus takes the lock) ...
ComputePodStatus(u) ==
  /\ Syncs(u)
  /\ \E c \in Runtime :
       computed' = [computed EXCEPT
                      ![u] = GenerateAPIPodStatus(held[u], podStatuses[u], c)]
  /\ MayUpdate
  /\ UNCHANGED <<podStatuses, podStatusChannel, othersVars>>

\* ... and reports it.
SetPodStatus(u) ==
  /\ computed[u] # <<>>
  /\ UpdateStatusInternal(held[u], computed[u], held[u].deletion)
  /\ computed' = [computed EXCEPT ![u] = <<>>]
  /\ UNCHANGED <<updates, othersVars>>

\* A call that computes and reports in one critical section.
Calls == MayUpdate /\ UNCHANGED <<computed, othersVars>>

\* The container of a cached status that a prober may name.
Probed(u) == /\ podManager[u] # NoPod
             /\ podStatuses[u].version # 0
             /\ podStatuses[u].status.container.state \notin {"none", "waiting"}

SetContainerReadiness(u, ready) ==
  LET s == podStatuses[u].status
      c == [s.container EXCEPT !.ready = ready]
  IN  /\ Probed(u)
      /\ s.container.ready # ready
      /\ UpdateStatusInternal(podManager[u],
           [s EXCEPT !.container = c,
                     !.cond = GeneratePodReadyCondition(c, s.phase, s.gate)],
           FALSE)
      /\ Calls

SetContainerStartup(u, started) ==
  LET s == podStatuses[u].status
  IN  /\ Probed(u)
      /\ s.container.started # started
      /\ UpdateStatusInternal(podManager[u],
                              [s EXCEPT !.container.started = started], FALSE)
      /\ Calls

\* What is not known to have ended is reported as failed.
TerminatePod(u) ==
  LET s == IF podStatuses[u].version = 0 THEN held[u].status
                                         ELSE podStatuses[u].status
      c == IF s.container.state = "none" \/ IsTerminated(s.container)
           THEN s.container
           ELSE [s.container EXCEPT !.state = "failed"]
  IN  /\ Syncs(u)
      /\ UpdateStatusInternal(held[u], [s EXCEPT !.container = c], TRUE)
      /\ Calls

\* Called with the pods that the pod manager knows.
RemoveOrphanedStatuses ==
  /\ \E u \in UIDs : podStatuses[u].version # 0 /\ podManager[u] = NoPod
  /\ podStatuses' = [u \in UIDs |-> IF podManager[u] = NoPod THEN NotCached
                                                             ELSE podStatuses[u]]
  /\ UNCHANGED <<podStatusChannel, updates, computed, othersVars>>

-----------------------------------------------------------------------------
(* The sync thread *)

\* PodDeletionSafetyProviderStruct, whose two answers are fixed.
PodResourcesAreReclaimed(pod, status) == TRUE
PodCouldHaveRunningContainers(pod) == TRUE

CanBeDeleted(pod, status) ==
  pod.deletion /\ PodResourcesAreReclaimed(pod, status)

NeedsUpdate_Always(u, s) == TRUE

\* Off by one: the next version does not count as new.
NeedsUpdate_OffByOne(u, s) ==
  \/ apiStatusVersions[u] + 1 < s.version
  \/ podManager[u] # NoPod /\ CanBeDeleted(podManager[u], s.status)

NeedsUpdate_VersionOnly(u, s) == apiStatusVersions[u] < s.version

NeedsUpdate(u, s) ==
  \/ apiStatusVersions[u] < s.version
  \/ podManager[u] # NoPod /\ CanBeDeleted(podManager[u], s.status)

NeedsReconcile(u, s) ==
  /\ podManager[u] # NoPod
  /\ ~IsPodStatusByKubeletEqual(podManager[u].status, s.status)

\* The status to be sent when the API server has old and the kubelet new.
MergePodStatus(old, new, couldHaveRunning) ==
  LET delayed == /\ ~IsTerminalPhase(old.phase) /\ IsTerminalPhase(new.phase)
                 /\ couldHaveRunning
      phase == IF delayed THEN old.phase ELSE new.phase
  IN  [new EXCEPT !.phase = phase, !.gate = old.gate,
                  !.cond = new.cond /\ ~IsTerminalPhase(phase)]

Request(u) == [uid |-> u, status |-> podStatuses[u].status,
               version |-> podStatuses[u].version]

TakeRequest ==
  /\ thread.pc = "select"
  /\ podStatusChannel # <<>>
  /\ thread' = [Idle EXCEPT !.pc = "sync", !.queue = {Head(podStatusChannel)}]
  /\ podStatusChannel' = Tail(podStatusChannel)
  /\ UNCHANGED <<podStatuses, updates, apiStatusVersions, api, faults, history,
                 envVars>>

\* The ticker fires: "remove any entries in the status channel".
Drain ==
  /\ thread.pc = "select"
  /\ thread' = [Idle EXCEPT !.pc = "drained"]
  /\ podStatusChannel' = <<>>
  /\ UNCHANGED <<podStatuses, updates, apiStatusVersions, api, faults, history,
                 envVars>>

Orphaned(u) == podStatuses[u].version = 0

\* What needs to be reconciled is forced by forgetting the version sent.
Forced(u) == /\ ~NeedsUpdate(u, podStatuses[u])
             /\ NeedsReconcile(u, podStatuses[u])

SyncBatch ==
  LET updated == {u \in UIDs : /\ ~Orphaned(u)
                               /\ \/ NeedsUpdate(u, podStatuses[u])
                                  \/ Forced(u)}
  IN  /\ thread.pc = "drained"
      /\ apiStatusVersions' = [u \in UIDs |->
           IF Orphaned(u) \/ Forced(u) THEN 0 ELSE apiStatusVersions[u]]
      /\ thread' = IF updated = {} THEN Idle
                   ELSE [Idle EXCEPT !.pc = "sync",
                                     !.queue = {Request(u) : u \in updated}]
      /\ UNCHANGED <<api, faults, history, cacheVars, envVars>>

\* The thread returns from syncPod to what is left of the queue.
Return(req) ==
  LET rest == thread.queue \ {req}
  IN  thread' = IF rest = {} THEN Idle ELSE [Idle EXCEPT !.pc = "sync",
                                                         !.queue = rest]

DeletePodStatus(u) == podStatuses' = [podStatuses EXCEPT ![u] = NotCached]

\* An API call answers with an error.
Fails == faults < MaxFaults /\ faults' = faults + 1

\* syncPod up to and including the Get, for a request of the queue.
SkipUpToDate(r) ==
  /\ ~NeedsUpdate(r.uid, r)
  /\ Return(r)
  /\ UNCHANGED <<apiStatusVersions, api, faults, history, cacheVars, envVars>>

GetFails(r) ==
  /\ NeedsUpdate(r.uid, r)
  /\ \/ api[NameOf[r.uid]] = NoPod /\ UNCHANGED faults
     \/ Fails
  /\ Return(r)
  /\ UNCHANGED <<apiStatusVersions, api, history, cacheVars, envVars>>

\* "Pod was deleted and then recreated"
IsReplaced(pod, u) == pod.uid # u

GetReplaced(r) ==
  LET pod == api[NameOf[r.uid]]
  IN  /\ NeedsUpdate(r.uid, r)
      /\ pod # NoPod
      /\ IsReplaced(pod, r.uid)
      /\ DeletePodStatus(r.uid)
      /\ Return(r)
      /\ UNCHANGED <<podStatusChannel, updates, apiStatusVersions, api, faults,
                     history, envVars>>

GetOK(r) ==
  LET pod == api[NameOf[r.uid]]
  IN  /\ NeedsUpdate(r.uid, r)
      /\ pod # NoPod
      /\ ~IsReplaced(pod, r.uid)
      /\ thread' = [thread EXCEPT !.pc = "patch", !.req = r, !.pod = pod]
      /\ UNCHANGED <<apiStatusVersions, api, faults, history, cacheVars, envVars>>

SyncPod ==
  /\ thread.pc = "sync"
  /\ \E r \in thread.queue : SkipUpToDate(r) \/ GetFails(r) \/ GetReplaced(r) \/ GetOK(r)

\* A field the patch leaves out keeps its current value.
Field(current, got, merged) == IF merged = got THEN current ELSE merged

\* A patch made of the whole status.
Patched_Whole(current, got, merged) == merged

\* The two-way merge patch carries the fields in which merged differs from the
\* status that the Get returned; the UID in it is a precondition.
Patched(current, got, merged) ==
  [phase |-> Field(current.phase, got.phase, merged.phase),
   container |-> Field(current.container, got.container, merged.container),
   cond |-> Field(current.cond, got.cond, merged.cond),
   gate |-> Field(current.gate, got.gate, merged.gate)]

\* The write was accepted: record it and see whether the pod can go.
Accepted(pod) ==
  /\ apiStatusVersions' = [apiStatusVersions EXCEPT ![pod.uid] = thread.req.version]
  /\ acked' = [acked EXCEPT ![pod.uid] = thread.req.version]
  /\ IF CanBeDeleted(pod, thread.req.status)
     THEN thread' = [thread EXCEPT !.pc = "delete", !.pod = pod]
     ELSE Return(thread.req)

\* The server answered with an error: nothing is recorded.
Refused ==
  /\ Return(thread.req)
  /\ UNCHANGED <<apiStatusVersions, acked>>

\* The response may be lost after the server has applied the patch.
Patch ==
  LET r == thread.req
      got == thread.pod
      n == NameOf[r.uid]
      merged == MergePodStatus(got.status, r.status,
                               PodCouldHaveRunningContainers(got))
      new == [api[n] EXCEPT !.status = Patched(api[n].status, got.status, merged)]
  IN  /\ thread.pc = "patch"
      /\ \/ /\ merged = got.status             \* unchanged: nothing is sent
            /\ written' = [written EXCEPT ![got.uid] = r.version]
            /\ Accepted(got)
            /\ UNCHANGED <<api, faults>>
         \/ /\ merged # got.status
            /\ api[n].uid = got.uid            \* the precondition
            /\ api' = [api EXCEPT ![n] = new]
            /\ written' = [written EXCEPT ![got.uid] = r.version]
            /\ \/ Accepted(new) /\ UNCHANGED faults
               \/ Refused /\ Fails
         \/ /\ merged # got.status
            /\ Refused
            /\ \/ api[n].uid # got.uid /\ UNCHANGED faults
               \/ Fails
            /\ UNCHANGED <<api, written>>
      /\ UNCHANGED <<cacheVars, envVars>>

\* A Delete without a precondition.
Deletes_ByName(pod, uid) == pod # NoPod

\* The pod that a Delete with the given UID as precondition removes.
Deletes(pod, uid) == pod.uid = uid

\* A Delete with grace period zero, whose response may be lost as well.
Delete ==
  LET r == thread.req
      n == NameOf[r.uid]
  IN  /\ thread.pc = "delete"
      /\ Return(r)
      /\ \/ /\ Deletes(api[n], thread.pod.uid)
            /\ api' = [api EXCEPT ![n] = NoPod]
            /\ \/ DeletePodStatus(r.uid) /\ UNCHANGED faults
               \/ Fails /\ UNCHANGED podStatuses
         \/ /\ \/ ~Deletes(api[n], thread.pod.uid) /\ UNCHANGED faults
               \/ Fails
            /\ UNCHANGED <<api, podStatuses>>
      /\ UNCHANGED <<podStatusChannel, updates, apiStatusVersions, history, envVars>>

Thread == TakeRequest \/ Drain \/ SyncBatch \/ SyncPod \/ Patch \/ Delete

-----------------------------------------------------------------------------
(* The environment *)

kubeletVars == <<podStatuses, podStatusChannel, apiStatusVersions, thread,
                 updates, faults, history>>

ApiCreate(u) ==
  /\ u \notin used
  /\ api[NameOf[u]] = NoPod
  /\ \E s \in Created :
       api' = [api EXCEPT ![NameOf[u]] = [uid |-> u, deletion |-> FALSE, status |-> s]]
  /\ used' = used \cup {u}
  /\ UNCHANGED <<podManager, held, computed, kubeletVars>>

\* A user asks for graceful deletion, or removes the object at once.
ApiDelete(n) ==
  /\ api[n] # NoPod
  /\ \/ ~api[n].deletion /\ api' = [api EXCEPT ![n].deletion = TRUE]
     \/ api' = [api EXCEPT ![n] = NoPod]
  /\ UNCHANGED <<kubeletVars, envVars>>

\* The owner of the readiness gate opens it.
ApiGate(n) ==
  /\ api[n] # NoPod
  /\ ~api[n].status.gate
  /\ api' = [api EXCEPT ![n].status.gate = TRUE]
  /\ UNCHANGED <<kubeletVars, envVars>>

\* The node controller overwrites kubelet's Ready condition.
ApiNotReady(n) ==
  /\ OutsideWriter
  /\ api[n].status.cond
  /\ updates < MaxUpdates
  /\ updates' = updates + 1
  /\ api' = [api EXCEPT ![n].status.cond = FALSE]
  /\ UNCHANGED <<podStatuses, podStatusChannel, apiStatusVersions, thread, faults,
                 history, envVars>>

Shown(u) == IF api[NameOf[u]].uid = u THEN api[NameOf[u]] ELSE NoPod

-----------------------------------------------------------------------------
(* The main loop's handlers, as far as they concern the pod manager *)

Handle(u) ==
  /\ podManager' = [podManager EXCEPT ![u] = Shown(u)]
  /\ UNCHANGED <<held, computed, api, used, kubeletVars>>

HandlePodAdd(u) ==
  /\ podManager[u] = NoPod /\ Shown(u) # NoPod
  /\ Handle(u)

\* DELETE, and UPDATE when a user has edited labels, annotations or spec.  A
\* change of nothing but the status is a RECONCILE, which Start ignores.
HandlePodDelete(u) ==
  /\ podManager[u] # NoPod
  /\ Shown(u).deletion /\ ~podManager[u].deletion
  /\ Handle(u)

HandlePodUpdate(u) ==
  /\ podManager[u] # NoPod /\ Shown(u) # NoPod
  /\ Shown(u).deletion = podManager[u].deletion
  /\ Shown(u) # podManager[u]
  /\ Handle(u)

HandlePodRemove(u) ==
  /\ podManager[u] # NoPod /\ Shown(u) = NoPod
  /\ Handle(u)

\* Between two syncs the worker takes the object that the handlers have passed
\* on to UpdatePod; it keeps the last one it had.
WorkerTakes(u) ==
  /\ computed[u] = <<>>
  /\ podManager[u] \notin {NoPod, held[u]}
  /\ held' = [held EXCEPT ![u] = podManager[u]]
  /\ UNCHANGED <<podManager, computed, api, used, kubeletVars>>

Next ==
  \/ Thread
  \/ RemoveOrphanedStatuses
  \/ \E u \in UIDs :
       \/ ComputePodStatus(u) \/ SetPodStatus(u)
       \/ \E b \in BOOLEAN : SetContainerReadiness(u, b) \/ SetContainerStartup(u, b)
       \/ TerminatePod(u)
       \/ ApiCreate(u) \/ WorkerTakes(u)
       \/ HandlePodAdd(u) \/ HandlePodUpdate(u) \/ HandlePodDelete(u)
       \/ HandlePodRemove(u)
  \/ \E n \in Names : ApiDelete(n) \/ ApiGate(n) \/ ApiNotReady(n)

Spec == Init /\ [][Next]_vars

\* The sync thread keeps running (wait.Forever, time.Tick) and the main loop
\* keeps handling events; the callers and the API server's users owe nothing.
Fairness ==
  /\ WF_vars(Thread)
  /\ \A u \in UIDs :
       WF_vars(HandlePodAdd(u) \/ HandlePodDelete(u) \/ HandlePodRemove(u))

FairSpec == Spec /\ Fairness

-----------------------------------------------------------------------------
(* Properties *)

InFlight == [pc: PCs, queue: SUBSET SyncRequest,
             req: SyncRequest \cup {<<>>}, pod: Pod]

\* The status manager's variables hold what the Go declarations allow.
TypeOK ==
  /\ podStatuses \in [UIDs -> Versioned]
  /\ podStatusChannel \in Seq(SyncRequest)
  /\ Len(podStatusChannel) <= ChannelCap
  /\ apiStatusVersions \in [UIDs -> Nat]
  /\ thread \in InFlight
  /\ podManager \in [UIDs -> Pod]
  /\ held \in [UIDs -> Pod]
  /\ computed \in [UIDs -> PodStatus \cup {<<>>}]
  /\ api \in [Names -> Pod]
  /\ used \subseteq UIDs
  /\ updates \in Nat
  /\ faults \in Nat
  /\ written \in [UIDs -> Nat]
  /\ acked \in [UIDs -> Nat]

\* The sync thread writes to or deletes only the very pod whose status it
\* carries, even when a pod of the same name replaces it between the Get, the
\* Patch and the Delete of syncPod.
NoWriteToReplacement ==
  [][thread' # thread =>
       \A n \in Names : api'[n] # api[n] => api[n].uid = thread.req.uid]_vars

\* A condition that kubelet does not own is left as the API server has it, also
\* when its owner writes it between the Get and the Patch (mergePodStatus and
\* the two-way merge patch).
ForeignConditionKept ==
  [][thread' # thread =>
       \A n \in Names : api'[n] # NoPod =>
                          api'[n].status.gate = api[n].status.gate]_vars

\* Nothing older than the newest report that the API server has acknowledged is
\* written while the pod is not being deleted, through the channel, the batch,
\* failed calls and forced reconciliations alike (needsUpdate, syncBatch).  A
\* write whose response was lost is not protected: its version is not recorded,
\* and an older request may follow it (against the comment on versionedPodStatus).
ReportsInOrder ==
  [][\A u \in UIDs : Shown(u) # NoPod /\ ~Shown(u).deletion
                       => written'[u] >= acked[u]]_vars

\* A container of a pod that is never restarted is not shown as waiting or
\* running by the API server once an acknowledged report showed it terminated,
\* while the pod is not being deleted (checkContainerStateTransition and the
\* order of reports).  Under OnFailure a completed container may be: a report
\* that it failed, then one that it runs, may both be cached and only the last
\* be sent.
TerminatedStaysTerminated ==
  [][\A u \in UIDs :
       /\ Restart = "Never"
       /\ Shown(u)' # NoPod
       /\ ~Shown(u).deletion
       /\ written[u] = acked[u]
       /\ IsTerminated(Shown(u).status.container)
       => IsTerminated(Shown(u)'.status.container)]_vars

\* The API server's object agrees with the cached status, except for a terminal
\* phase, which mergePodStatus holds back.
Reported(u) ==
  LET s == podStatuses[u].status
      a == Shown(u).status
  IN  /\ a.container = s.container
      /\ a.cond = s.cond
      /\ a.phase = s.phase \/ IsTerminalPhase(s.phase)

\* Once calls stop failing and statuses stop changing, the API server shows the
\* cached container status and Ready condition: neither a full channel, a
\* drained request nor a failed call loses them for good.
EventuallyReported ==
  \A u \in UIDs :
    <>[](Shown(u) # NoPod /\ podStatuses[u].version # 0 => Reported(u))

\* A pod that is being deleted and has a cached status leaves the API server,
\* also when the first Delete fails (needsUpdate asks canBeDeleted for that).
DeletionCompletes ==
  \A u \in UIDs :
    (Shown(u).deletion /\ podStatuses[u].version # 0) ~> (Shown(u) = NoPod)

\* A terminal phase that the status manager caches reaches the API server, or
\* the pod goes away.  (podworker.go says that terminated pods ensure that the
\* most recent status makes it to the API server.)
TerminalReachesAPI ==
  \A u \in UIDs :
    IsTerminalPhase(podStatuses[u].status.phase)
      ~> (IsTerminalPhase(Shown(u).status.phase) \/ Shown(u) = NoPod)
=============================================================================
