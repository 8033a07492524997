# Verification of the sample kubelet

TLA+ models of the kubelet in `src/`, the TLC runs that check them on small
instances, and TLAPS proofs of the invariants that hold for every instance.
`PROJECT.json` maps every definition to the lines it models, lists the runs, the
mutants (one plausible bug per checked property, each caught), the hazards and
the theorems.

## 1. The system

The program is a kubelet without a container runtime. It watches the pods bound
to its node; the "containers" are shell commands that a callback runs. Its own
code is about 12 000 lines (`pkg/mycore`, `pkg/kubelet`, `pkg/node`,
`pkg/bootstrap`, `pkg/util`, `pkg/probe`, `cmd`); `pkg/api` and `pkg/apis` are
copies of Kubernetes packages.

```
 API server --watch--> PodConfig --ADD/UPDATE/DELETE/REMOVE/RECONCILE--> main loop
     ^                                                                      |
     |                                        pod manager <--add/update/del-+
     | Get, Patch, Delete                                                   |
     |                                        UpdatePod ---> pod workers <--+
  status manager <--SetPodStatus-- sync functions <--- goroutine per pod    |
  (cache, channel, sync thread)                           | GetNewerThan    |
                                        container cache <-+------ OnAdd <---+
```

### Inventory

| component | state | operations | what makes it correct |
|---|---|---|---|
| pod workers (`podworker.go`) | per pod: status flags, a channel of one, the last undelivered update, a goroutine; the static pod tables | UpdatePod, managePodLoop, completeXxx, SyncKnownPods | no send blocks under the lock; phases in order and never undone; newest pod object wins; termination completes |
| status manager (`status_manager.go`) | cached statuses with versions, a request channel, the versions sent | SetPodStatus, SetContainerReadiness/Startup, TerminatePod, RemoveOrphanedStatuses, syncBatch, syncPod | the API server ends up with the newest report, in order; a replacement pod is never touched; graceful deletion completes |
| main loop and handlers (`kubelet.go`, `pod_handler.go`) | none of its own | one handler per pod operation, then the callback | every event is handled; a callback does not stop the others |
| status generation (`podfn.go`) | none | generateAPIPodStatus, getPhase, convertToAPIContainerStatuses | phase and conditions follow from the container states |
| callbacks, container commands (`callbackFunc.go`, `context.go`, `container_cmd.go`, `status.go`) | entries of the container cache | OnAdd/OnUpdate/OnDelete, SetContainerExit, SetPodCompleted | exit codes are reported, not overwritten |
| container cache (`container/cache.go`) | status by pod, global timestamp, subscribers | Get, GetNewerThan, Set, Delete, UpdateTime | no wake-up is missed; what is delivered is new enough |
| pod configuration (`config/*.go`) | pods by source, sources seen | Merge, Sync, SeenAllSources | the consumer's set equals the sources' set |
| pod manager, mirror client (`kubelet/pod`) | pods by UID and by full name, mirror translation | SetPods, AddPod, UpdatePod, DeletePod | the maps agree |
| prober, results (`kubelet/prober`) | worker per probe, thresholds, a channel of 20 | AddPod, doProbe, Set | a result changes at its threshold; the consumer keeps up |
| object managers (`util/manager`) | reference counts, cached objects | RegisterPod, UnregisterPod, GetObject | counts match registered pods |
| work queue, reason cache | delayed UIDs; last reasons | Enqueue, GetWork; Update, Remove, Get | - |
| certificate bootstrap (`pkg/bootstrap`) | files on disk, the signing request | one sequence at start | a restart at any point recovers; key and certificate fit |
| node registration, lease (`pkg/node`) | the Node and the Lease on the API server | RegisterNode, StartLeaseController | the node ends up registered, its lease owned by its Node |
| clients, command line, probe handlers | none worth a model | - | - |

Parts of this code come from Kubernetes and are wired only in part: nothing
calls SyncKnownPods, WorkQueue.GetWork, the cache's UpdateTime and Delete,
the prober's AddPod, RemoveOrphanedStatuses or TerminatePod; the API server is
the only pod source, so static and mirror pods do not arise; SyncPodFn always
answers (true, nil). The models keep these operations where they belong to a
component's contract, and the runs say which of them they use.

### Hard behaviours

* a goroutine per pod against callers of UpdatePod, with the lock released
  between any two steps of the goroutine;
* a work item whose type was decided in an earlier phase and delivered later;
* a status channel that drops requests when it is full, beside a periodic batch;
* a pod deleted and replaced under its name between Get and Patch;
* API calls that fail, or that succeed and whose response is lost, and a pod
  manager that is refreshed by some events only;
* a main loop that runs the container commands itself, while the worker of the
  same pod waits in the cache that the loop writes;
* a cache of pointers, whose objects are changed after they were handed out;
* a consumer of the configuration that lags behind several sources;
* a status computed from the one before, over containers that come and go unseen;
* probe results read one by one while the workers behind them come and go;
* a start-up that leaves files and API objects behind at every point of failure.

`PROJECT.json` lists them as hazards, each at its line, with the properties that
would show it going wrong.

## 2. The modules

| module | content |
|---|---|
| `PodWorkers`, `MCPodWorkers` | the pod workers: state, actions, properties, mutants |
| `PodWorkersProofs` | type correctness; the inductive invariants and the safety theorems |
| `StatusManager`, `MCStatusManager` | the status manager, the API server it writes to, and the events that refresh the pod manager |
| `StatusManagerProofs` | types, safety of replacement, the order of reports |
| `ContainerCache` | the container status cache with the goroutines that wait in it |
| `ContainerCacheProofs` | its invariant and its promises |
| `SampleKubelet`, `MCSampleKubelet` | main loop, handlers and callbacks, composed with `PodWorkers` and `ContainerCache` |
| `SampleKubeletProofs` | the program's steps are steps of its two parts; its own invariant and the safety theorems |
| `PodManager` | the pod manager's indexes and the mirror translation |
| `PodConfig`, `MCPodConfig` | sources, Merge, the updates channel, and the handlers that keep `PodManager` |
| `Follow` | what the configuration promises its consumer; `PodConfig` refines it |
| `PodConfigProofs` | the changes under way as one queue; the indexes, the translation, the safety part of `Follow`, rest means agreement |
| `PodStatusGen`, `MCPodStatusGen` | the status computed for a pod with init containers, restarts and history |
| `PodStatusGenProofs` | its invariant and the four properties, for any containers |
| `Prober`, `MCProber` | probe workers, results managers, UpdatePodStatus |
| `ProberProofs` | its invariant and the two properties, for any thresholds |
| `Startup`, `MCStartup` | bootstrap, node registration and lease over crashes and restarts |
| `StartupProofs` | the files of a finished bootstrap fit together |

### PodWorkers

The state of a pod is the record `podSyncStatus` of the code, with timestamps
reduced to "is set" and pod objects to the number of the UpdatePod call that
brought them. An action is one critical section of `podLock`, or a step of
`managePodLoop` between two of them; a goroutine's program counter is

    none -> range -> start -> (unstarted | status) -> context -> acknowledge
         -> sync -> queueNext -> range

`UpdatePod` is one action because the code holds the lock throughout; it
includes the start of the goroutine, the send, and the cancellation of the
running context. The three injected sync functions and GetNewerThan are
represented by the outcomes they may have (`SyncOutcomes`: active, terminal,
cancelled, error); `SampleKubelet` says which of them the real functions
produce. `SyncKnownPods` is an action although nothing in the program
calls it.

### StatusManager

State: `podStatuses` (version 0 when absent), `podStatusChannel` (bounded),
`apiStatusVersions`, the sync thread, the pods held by the pod manager and by
the workers, the status a sync function has computed and not yet handed in, the
API server's pod by name, and, as history, the version last written and the last
one whose write was answered (`written`, `acked`). A sync function reads the
cached status and calls SetPodStatus in two steps, because other callers may get
in between. A call of the API server succeeds, fails without effect, or takes
effect and loses its response; the last two are the same error to syncPod, which
returns without recording the version. `syncPod` is three actions, because the API server and the cache may
change between its Get, its Patch and its Delete. The ticker's case is two
(`Drain`, `SyncBatch`), because the lock is taken only for the second.

A pod has one container. The list of conditions is the Ready condition and
one condition ("gate") of another controller. Timestamps, messages, init
containers and mirror pods are left out. Environment actions: `ApiCreate`, `ApiDelete` (a
user's graceful deletion), `ApiGate` and `ApiNotReady` (the controller of
the gate, the node controller), and the handlers `HandlePodAdd/Update/Delete/Remove` as far as they
refresh the pod manager. A change of the status alone arrives as RECONCILE,
which the main loop ignores: no action refreshes the pod manager then.
`WorkerTakes` is the moment at which a pod worker takes over the pod manager's
object; reports until the next one are computed from that object.

### ContainerCache and SampleKubelet

`ContainerCache` has one action per critical section of `cache.lock`; a call of
GetNewerThan is two, the subscription and the receive. The caller reads its
clock before it takes the lock, so calls of Set may carry their times in any
order. `SampleKubelet` INSTANCEs it together with `PodWorkers`, without static
pods and with "terminal" as the only outcome, which is what SyncPodFn answers.
The main loop is one process: it takes an event, calls the handler (UpdatePod),
then runs the callback's commands one by one; each of `SetContainerExit` and
`SetPodCompleted` is split where it takes or releases the cache's lock. The
cache holds pointers, so `heap` keeps the containers of the object that
SetContainerExit changes in place. A command may exit with any code; the object
that SetPodCompleted puts in its place says zero for every container.

### PodConfig, PodManager, Follow

A source sends its whole list over its own unbuffered channel. `Merge` is split
at `updateLock`: it computes all messages at once and then sends them one by one,
blocking on a full channel with the lock held. The consumer handles one pod of
a message at a time and keeps `PodManager`, as in `pod_handler.go`. A pod is its
spec, deletion timestamp and status, each of two values: what Merge compares.
`merged` and `handled` count the changes of each pod that Merge has found and
the main loop has handled; `Follow`, with these as leader and follower, is the
abstract specification: every change, in order, once, eventually.

### PodStatusGen

`generateAPIPodStatus`, `convertToAPIContainerStatuses`, `getPhase` and the
condition generators as operators on names and states; the runtime (external)
starts, fails, exits, loses, restarts and collects containers between syncs, and
the reason cache has an entry or not. The status built on is the status
manager's, which refuses a new one that takes a container out of an end that its
restart policy makes final (`LegalTransition`); the sync that follows a refusal
builds on the status before. Another controller may fail the pod (`FailPod`), and
its phase then wins over any other. The model covers one life of the process: that the API
server's status is the basis of the first sync after a restart (`podfn.go:373`)
is left out.

Four facts that the model makes visible and that no property claims otherwise: a
container in the unknown state is reported terminated by one sync and waiting by
the next (`podfn.go:132`), except that under Never the status manager refuses the
second report, and with it everything else that it says of the pod; a container
collected under the policy Never is created again; a pod whose success is
overruled by FailPod may lose its Initialized condition, when it had it from its
phase; and pods with init containers stay Pending in this program, because
`status.go` lists regular containers only (`podfn.go:482`).

### Prober

One container, one worker per probe. `doProbe` is three actions, because it
copies the pod's status, then looks at its container, then probes, and other
goroutines run in between. `UpdatePodStatus` takes its four reads one at a time.
A results manager's channel is a number of unread updates with a capacity;
nothing in this program reads it, so that a worker whose update finds it full
stops for good. A container is created, runs and exits whether or not AddPod was
called; a created one, and an exited one that will be restarted, is waiting with
an ID. `watched` says of the status at hand that its UpdatePodStatus began after
AddPod. Nothing calls AddPod in this program, so that no status of it is watched
(section 5): `HealthIsEarned` is the contract of the component.

### Startup

The process is a program counter over the steps of `NewKubeletCommand`; the
three files of `./cert` survive a crash, and a crash during a write leaves the
file torn. A key is a model value, a certificate is the key it certifies. The
signing request, the Node and the Lease live on the API server, where the
operator (external) approves, denies and deletes requests, other clients change
or delete the Node, the node lifecycle controller may take its Ready condition
away, and a lease without owner is collected. The lease controller
is a library; what the program gives it, `SetNodeOwnerFunc` and
`heartbeatFailure`, is modelled. Keys and UIDs that nothing refers to are used
again, so that the number of starts needs no bound.

## 3. Runs

| run | instance | what it shows |
|---|---|---|
| `podworkers_core` | 1 pod, 10 kinds of request, 4 calls, every outcome | the channel protocol, the phases, the grace period, order of pod objects |
| `podworkers_static` | 2 static pods of one name, 3 calls | one pod holds a name; the holder will release it; terminations are never left without work, and complete unless the cache keeps the worker waiting |
| `status_replaced` | 2 pods of one name, policy OnFailure, 2 reports, outside writers | the replacement of a pod is never written to; conditions of others are kept |
| `status_live` | 1 pod found in any condition, policy Never, channel of 1, 2 reports, 1 call that fails or loses its response | nothing older than an acknowledged report is written, terminated for good once acknowledged, eventual report, deletion completes |
| `status_terminal` | 1 pod, restart policy Never | *violation*: no completed pod is ever shown as Succeeded |
| `kubelet` | 1 pod, 3 containers (2 with a command), 2 exit codes, 3 events | no missed wake-up, no exit reported before its command ended or with another command's failure, exits stay, the added pod is reported |
| `kubelet_stuck` | 1 pod, 1 command | *violation*: the worker waits for ever |
| `kubelet_running` | 1 pod, 2 commands | *violation*: terminated while a command runs |
| `podconfig` | 2 sources, 5 UIDs on 2 names (one mirror pod), 3 changes, channel of 2 | refinement of `Follow`; the indexes agree; convergence |
| `statusgen` | 1 init container, 2 containers, one of them created twice, every policy, refused reports, a pod failed by others | success is never invented, syncs settle, no way back to Pending |
| `prober` | a startup and a readiness probe, failure threshold 2 for the first, 2 containers in turn, channel of 3 | after AddPod, health is earned by the container that is reported; results live as long as their worker |
| `startup` | any number of starts, 6 faults | key and certificate fit; the node recovers, three exceptions apart |

**Bounds.** In PodWorkers an update can be in the goroutine's hands, in the
channel, or kept as undelivered; four calls fill all three places and bring one
more. Static pods interact only with those of their own name, pairwise, by
queueing for it. In StatusManager versions matter by their order only: what the
API server has, what the thread carries, and what is cached. A channel of one is
full as soon as one request waits in it. One faulty call is enough for a Get, a
Patch or a Delete to fail at every point, applied or not; after it, calls succeed. In
SampleKubelet pods meet only in the main loop, which one pod with several
commands already keeps busy; three events are an ADD, a change and a REMOVE. In
PodConfig three changes replace a pod under its name and change the new one; a
channel of two is full while Merge still has messages. In Prober the second
container is the one that can be mistaken for the first, and a channel of three
fills up before both probes have settled twice; workers are added once
(`MaxAdds` 1), so that adding a probe again after its removal is not exercised.
In Startup the longest recovery, a deleted Node whose old lease is adopted, takes
three faults; six leave room for two to combine. The bounds are constants and
the proofs do not depend on their values.

**Deadlock.** The runs of PodWorkers, SampleKubelet, PodConfig, PodStatusGen and
Prober disable the check: when the bounded inputs are used up and every
goroutine waits, nothing more happens, as in the program. In StatusManager the
ticker always fires and in Startup the process is always started again, so the
check stays on.

**Fairness.** PodWorkers: weak fairness of each pod's goroutine at every place but
the call of GetNewerThan: the sync functions of this program return, while a
newer status in the cache is owed by nobody (`kubelet_stuck`).
`TerminationCompletes` therefore allows for a worker that waits there for ever.
Nobody is obliged to call UpdatePod or SyncKnownPods. StatusManager: weak fairness of the sync thread (`wait.Forever`
around a select with a ticker) and of the main loop's ADD, DELETE and REMOVE
handlers for each pod; UPDATE handlers, reports, users and other controllers are
not fair. SampleKubelet: the main loop and the workers. The fairness of the main
loop, here and for the handlers of StatusManager and PodConfig, presumes that the
commands that the callback runs end: `cmd.Run` has no timeout, and a command that
never ends stops every handler, so that `DeletionCompletes`,
`EventuallyConverged` and `AddedPodIsReported` hold of a kubelet whose commands
end. PodConfig: each source's
send, Merge's sends and the handler weakly; Merge strongly for each source,
because it waits for a mutex that the other source keeps taking and Go's mutexes
do not starve a waiter. Startup: the process and the garbage collector run,
somebody starts the process again, and the operator does what the comment in
`bootstrap.go` shows, approve requests and delete the ones left over; faults are
finitely many. PodStatusGen and Prober claim safety only.

## 4. Proofs

Proved for every set of pods, requests, callers and keys, and every bound:

* PodWorkers: `TypeCorrect`; from the inductive invariant `IInv`, `SendSafe`,
  `WorkingSafe`, `LifecycleSafe`, `PhasesSafe`, `CanceledSafe`, `NotifySafe`,
  `TerminationSafe` (`LifecycleOrder` is only proved, no run checks it); with
  three smaller invariants beside it, `NamesSafe` (the holder of a name will
  release it), `OneStaticPodSafe`, `NewestSafe` and `GraceSafe`; and
  `AttendedSafe`, from `AttendedOK`;
* StatusManager: `StatusTypes`, `StatusInvariance`, `ReplacementSafe`,
  `ForeignConditionSafe`, `OrderInvariance`, `ReportsOrdered`, `TerminatedSafe`;
* ContainerCache, under its own specification: `CacheInvariance`, `CacheTypes`,
  `WakeupSafe`, `NotifySafe`, `AnswersSafe`;
* SampleKubelet: `ImplementsWorkers` and `ImplementsCache` (the program refines
  the safety part of both components), `Invariance`, `WakeupSafe`,
  `AnswersSafe`, `ExitReportsSafe`, `ExitsStay`, `TerminationAttended`;
* PodConfig: `ConfigInvariance`, `ConfigTypes`, `TranslationSafe`,
  `CaughtUpSafe`, `FollowsSafely` (every step of the configuration is a step of
  `Follow` or a stutter) and `RestSafe` (when nothing is left to send, merge or
  handle, the pod manager has the sources' pods); with one hypothesis,
  `RivalsSafe` and `IndexesSafe`;
* PodStatusGen: `Invariance`, `SucceededSafe`, `SyncIsIdempotent`,
  `RunningIsKept`, `InitializedStays`;
* Prober: `Invariance`, `HealthSafe`, `ResultsSafe`;
* Startup: `BootstrapInvariance` and `KeySafe`.

Assumptions: `PodsAssumption`, `RequestsAssumption` and `BoundsAssumption` of
PodWorkers (names are assigned to pods, requests are well formed, bounds are
naturals); `PodsAssumption`, `InputsAssumption` (the runtime's statuses name the
pod's container, as convertToAPIContainerStatuses sees to) and
`BoundsAssumption` of StatusManager; `KubeletAssumption` (an ADD is a Create of a
pod, not of a RunningPod), `PodSpecAssumption` (a pod has a container),
`ProberAssumption` (thresholds are at least one, as the API validates),
`StartupAssumption`, and `PodConfigAssumption` and `NoPodAssumption` of PodConfig
(pods, sources and names are as declared; the absent pod is none of them); TLC
evaluates all of them. The theorems on the cache assume that
`MaxTime` is a natural number. `OneStaticPodSafe` has one hypothesis: no request
kills a RunningPod. No call of UpdatePod in this program sets that option; without the hypothesis a goroutine first started that way runs
without holding its name.
`AttendedSafe` has one too: neither GetNewerThan nor a sync function fails. After
a failure a termination may be left alone, since nothing reads the work queue
(section 5); `TerminationAttended` shows that the composed program, whose sync
functions never fail, needs no such hypothesis. `RivalsSafe` and `IndexesSafe`
assume `OneSource`: the pods of one full name and kind come from one source.
Merge compares names within a source only, and this program has one source; the
instance of the run has two, and satisfies it. That a source has finitely many
pods at any time is proved.

**Why the invariants are needed.** `SendNeverBlocks` says a send finds the
channel empty, which no single step explains: the caller relies on `working`,
which the goroutine clears, and the goroutine relies on the caller not sending
while it is set. `ChannelOK` ties `working`, the channel and the goroutine's
place together. `FlagsOK` adds the order of started, terminating, terminated and
finished with what has been released at each; `ContextOK` says that a cancelled
context has an undelivered update behind it; `PhaseOK` bounds the type of every
work item, in hand, in the channel or undelivered, by the pod's phase.
`PhaseOK` is claimed for pods that are not static: a static pod that waits for its
name is not working and keeps an undelivered item, and that item is out of
date when the pod starts (section 5). A step changes one pod
except for SyncKnownPods, so the invariant is proved per pod with a frame
lemma and one lemma per action. Beside it, `NamesOK` and `StaticOK` tie the
table of started static pods to the goroutines: who has started holds its name,
and the holder has a goroutine that will release it. `VersionsOK` orders the pod
objects in a worker's hands, in its channel, undelivered and last seen.

`TerminationIsAttended` is what `TerminationCompletes` needs beside progress. The
work that ends a phase moves between three places, of which the last is written
by callers and by the goroutine. `AttendedOK` adds that nothing of an earlier
phase is left once the containers have stopped, and that a sync is cancelled only
for a termination, before that point: a cancelled sync therefore gives way to the
kill. It needs no exception for static pods: one that waits for its name lays its
work down, but only while it is not terminating.

`NoWriteToReplacement` needs that the pod the thread carries between Get and
Patch has the UID of its request, and that pods held by the pod manager and by the
workers have the UID they are filed under (`Keyed`), since SetPodStatus
takes the key of the request from the object.

`ReportsInOrder` speaks of one number and needs five. A request may wait in the
channel while a newer one is written by a batch, and the batch forgets the
version sent when it forces a reconciliation. `VersionsOK` therefore says that a
request older than the last acknowledged write finds its record in place, so that
needsUpdate skips it; the one moment at which the record is forgotten is between the drain
of the channel and the end of the batch, when everything in the channel is newer
(`thread.pc = "drained"`). It holds while the pod is shown and not being
deleted; that no stale record of an earlier life exists then is `UnusedOK`,
because UIDs are not used twice. A write whose response is lost leaves no record,
and nothing is claimed of it until a later one is acknowledged (section 5 says
what may follow). `TerminatedOK` lays the container states along
that order: shown, pending by version, cached.

The cache's promise that no wake-up is missed rests on where a waiting caller is
recorded: `NotifyNeverBlocks` says that a record belongs to one list, to a call
for that UID and to an empty channel, and `NoStrayAnswer` that a channel is
empty between calls. Set and UpdateTime share one lemma: whoever the new
contents would answer is among those woken, because notify wakes on `<=` where
getIfNewerThan answers on `<`.

Every step of SampleKubelet is a step of PodWorkers or leaves its variables
alone, and the same for the cache; hence `IInv` and `CacheIInv` hold of the
program without being proved again, and `NoMissedWakeup` and
`AnswersAreCurrent` follow. What is true of exits does not follow from either
part: the cache holds a pointer to the object that SetContainerExit changes in
place, and the worker may have read a container before the change and report
it after. `MainOK` says which commands have run at each position of OnAdd,
`SourceOK` and `HandsOK` which of the two objects (running, completed) each pod
and worker can have, and `ContainerOK` that whoever shows an exit shows the real
one, and that an exit not yet in the running object comes from the completed one,
which is the last (`PastRunning`).

The status of a pod is computed from the one before and from what the runtime
still remembers. `RuntimeOK` describes the runtime's histories, `ReportOK`
that the last report is as true as the runtime was, `PhaseOK` that the reported
phase is still the one its containers give, and `Settled` that right after a sync
the next one would leave the same: of an accepted status because the conversion
is idempotent on its results, of a refused one because the same is refused again.

A worker of the prober passes a status, a container and a result between three
actions. `WorkerOK` says what its position guarantees of each; `MayEnd` that a
worker leaves only for a reason that lasts, without which the absence of a
worker, which the code reads as health, could be temporary; `StatusOK` what
UpdatePodStatus has concluded after each of its reads. All of it is said of a
status that is computed after AddPod (`watched`).

A grace period, once on record, is never zero again, and `GraceSafe` says that it
grows only in the very call that brings a zero.

In PodConfig a change passes through the message that the main loop is handling,
the channel, and the messages that Merge has yet to send. `ConfigInv` takes the
three as one queue of changes (`Flight`): the entries of a pod carry the numbers
from `handled` to `merged`, in order, and none is missing; the last one is the
pod as Merge has stored it. `CaughtUpAgrees` and the refinement of `Follow` are
read off it. `IndexesAgree` needs more, because DeletePod removes a name whatever
pod it leads to: of the pods of one name at most one is stored, and wherever one
is about to be added, the removal of its rival comes before it in the queue, in
the same Merge or in an earlier one. Merge enters the proof through a summary of
the entries that it appends, where the order of its five messages is used.
`RestSafe` adds that a source which has nothing to send has sent
its pods as they are.

`CertifiedKey` needs to know what the process holds at each step: the request it
waits for, the certificate in memory and the one on disk all belong to the key
on disk (`BootstrapInv`). It fails as soon as a start takes over a request that
is already there.

**Only model-checked.** Liveness under fairness is out of this prover's reach:
`TerminationCompletes`, `EventuallyReported`, `DeletionCompletes`,
`AddedPodIsReported`, `EventuallyConverged`, `Recovers` and the
fairness part of the refinement of `Follow`. For three of them the part that is
safety is proved: `AttendedSafe` for the first, `RestSafe` for the convergence,
`WakeupSafe` for the report of an added pod. Every other property of a passing run
is stated by a theorem.

## 5. Findings

Three runs are refuted by TLC, each against a comment of the repository.

1. `TerminalReachesAPI` (`podfn.go:452`): PodCouldHaveRunningContainers always
   answers true, so mergePodStatus holds every terminal phase back for ever;
   `podworker.go:868` says that the most recent status reaches the API server.
2. `WaitEnds` (`podworker.go:888`): a worker waits for a cache entry newer than
   its last sync, only OnAdd and insertPodCache set one, and nothing calls
   UpdateTime; `podworker.go:878` expects a refresh within two seconds.
3. `StoppedMeansStopped` (`podfn.go:97`): SyncPodFn calls every pod terminal at
   once, so the worker declares it terminated while the main loop runs its
   commands; `podworker.go:167` promises that containers have stopped by then.

Four properties that the repository's comments state do not hold, and the passing
runs check what holds in their place. TLC refutes each of the four on a small
instance.

4. The grace period "can only decrease" (`podworker.go:581`, `:707`). A zero,
   requested by a forced deletion or an override, counts as "nothing requested"
   (`:726`) and falls back to the pod's default, so that the period on record
   grows. `GraceGrowsOnlyByZero` says that no other call lengthens it.
5. The version is there "to enforce that stale pod statuses are not sent to the
   API server" (`status_manager.go:46`). When the response of a Patch is lost its
   version is not recorded (`:724`), and an older request of the channel is written
   over it, a terminated container shown as running again. `ReportsInOrder` and
   `TerminatedStaysTerminated` protect what was acknowledged, and
   `EventuallyReported` says that a later batch puts it right.
6. "The check whether there is a probe which hasn't run yet"
   (`prober_manager.go:238`, `:251`) looks for a worker. Before AddPod there is
   none, and a container with probes is reported as started and ready. Nothing in
   this program calls AddPod, and the call that is commented out (`podfn.go:81`)
   comes after the status is computed (`:79`), so this is every status it
   reports. `HealthIsEarned` is what the component promises after AddPod.
7. The lease controller updates the node's status, without which the node becomes
   NotReady (`cmd/app/kubelet.go:50`). It renews the Lease only; RegisterNode
   writes Ready once, at the start (`:47`), and a Node that the node lifecycle
   controller marks Unknown under a running process stays so. `Recovers` names
   the case (`Marked`).

Further divergences that reading the code for the models shows, without a run of
their own:

* a kill of a pod that is already finished returns without closing the caller's
  CompletedCh (`podworker.go:546`), which `podworker.go:40-43` promises never to
  leave open;
* a static pod that waits for its name keeps its undelivered update and delivers
  it after a newer one (`podworker.go:758`), against "always sync the most recent
  data" (`:694`). For other pods `NewestPodWins` holds: a worker never goes back to
  an older object. That is less than the comment says, since completeSync may
  replace a newer undelivered object by the one it has just handled (`:1007`);
* SetPodCompleted replaces the object of a pod whose commands have ended by one in
  which every exit code is zero (`status.go:66`): a command that failed is
  reported as successful, unless a worker reports its exit before.
  `ExitReportsAreTrue` therefore speaks of codes other than zero;
* PodResourcesAreReclaimed always answers true (`podfn.go:447`), so a pod object
  is deleted while its container runs (`status_manager.go:739`);
* the main loop ignores RECONCILE (`kubelet.go:34`), so needsReconcile compares
  with a status as old as the last ADD, UPDATE or DELETE
  (`status_manager.go:807`), and an overwritten condition is not restored;
* a failed sync is enqueued for a retry that nothing ever takes from the queue
  (`podworker.go:1140`);
* a PodStatusFunc that comes after acknowledgeTerminating has read the last one
  is dropped (`podworker.go:982`), and completeSync replaces an undelivered kill
  by one without a grace period (`:1007`);
* statuses of removed pods stay cached, since nothing calls
  RemoveOrphanedStatuses (`status_manager.go:696`);
* a probe's failures of an old container count towards the threshold of the new
  one (`worker.go:248`), and a worker blocks on the 21st change that nobody
  reads (`results_manager.go:115`);
* renewInterval is 10 ns, for want of a unit (`lease.go:52`), so the lease is
  renewed without a pause, and two failed renewals in a row end the process.

Some properties are stated with exceptions that the code makes necessary.
`ReportsInOrder` and `TerminatedStaysTerminated` exclude pods being deleted,
because needsUpdate ignores versions for them (`status_manager.go:764-770`), and
protect acknowledged writes only (5 above); the second is stated for the policy
Never, because under OnFailure checkContainerStateTransition lets completed
become failed and failed become running (`status_manager.go:440`), and the API
server may see the first and the last only.
`HealthIsEarned` excludes statuses computed before AddPod (6), probes that were
told to stop and pods added while being deleted. `InitializedIsKept` excludes a
pod that has succeeded and that another controller fails. `TerminationCompletes`
excludes a worker that waits for ever in the cache (2). `Recovers` excludes a
kubelet.config torn by a crash, which switches the bootstrap off for good
(`csr.go:157`); a Node deleted after its registration and before its first lease,
which nobody registers again; and a Node marked Unknown under a running process
(7). TLC refutes `Recovers` without any one of the three.

## 6. Plan

The components are modelled, and every safety property that a run checks is
proved for all instances. What could follow:

1. proofs of the liveness properties, once the prover handles fairness and
   ENABLED; the safety they rest on is in place;
2. a run of PodConfig with a file or HTTP source, when the functions that read a
   manifest are written: `OneSource` is then a condition on the manifests, and
   `IndexesAgree` fails without it;
3. a property about retries after a failed sync, when something reads the work
   queue.

## 7. Not modelled

* Secret and config map managers: the program creates the simple ones, which keep
  no state and fetch every time; the cache- and watch-based ones are not reached.
* The API server's status as the basis of the first sync after a restart
  (`podfn.go:373`), and what the workers keep over one: nothing of it is stored
  by the program, so the models of pods cover one life of the process.
* File and HTTP pod sources: not wired in, and the functions that would read a
  manifest return nothing (`extractFromFile`, `extractFromURL`).
* Probe handlers (exec, http, tcp): pure I/O, an outcome in Prober.
* Runtime cache, container helpers and container GC: there is no runtime.
* Mirror client: two API calls that nothing makes, since no static pod arises.
* Flags and client construction: no state.
* `pkg/api` and `pkg/apis`: types, defaults, conversions and validation copied
  from Kubernetes, about 66 000 of the repository's 78 000 lines. They hold no
  state and are not this program's logic.

The map covers about 4 300 of the 12 000 lines of the program's own code, that
is 5.5 % of all lines. The rest of the own code is what the list above names,
interfaces, queries without effect, logging and constructors.
