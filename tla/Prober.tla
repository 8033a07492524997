-------------------------------- MODULE Prober --------------------------------
(***************************************************************************)
(* The prober (pkg/kubelet/prober) of a pod with one container: the        *)
(* manager's calls, one worker goroutine for each probe, the results       *)
(* managers, and the worker of the pod that asks for Started and Ready.    *)
(* The status manager's status and the pod's container change between any  *)
(* two steps.  Container IDs are numbers, 0 is no container.               *)
(***************************************************************************)
EXTENDS Naturals, FiniteSets

CONSTANTS
  Probes,            \* the container's probes
  SuccessThreshold,  \* of each probe
  FailureThreshold,
  UpdatesCap,        \* capacity of a results manager's channel (20 in the code)
  MaxID,             \* bound: containers started one after another
  MaxAdds            \* bound: calls of AddPod that add a worker

ASSUME ProberAssumption ==
  /\ Probes \subseteq {"startup", "readiness", "liveness"}
  /\ SuccessThreshold \in [Probes -> Nat \ {0}]
  /\ FailureThreshold \in [Probes -> Nat \ {0}]
  /\ MaxID \in Nat

VARIABLES
  container,  \* the newest container: its ID and state
  never,      \* the pod's restart policy is Never
  deleted,    \* the pod was being deleted when it was added
  status,     \* the pod's status in the status manager
  watched,    \* that status was computed after AddPod
  sync,       \* the UpdatePodStatus in progress, and whether AddPod was called before it
  adds,       \* calls of AddPod that added a worker
  workers,    \* probes that have a worker in the manager's map
  worker,     \* each probe's worker
  stopCh,     \* probes whose worker has a stop in its channel
  trigger,    \* probes whose worker has a manual trigger in its channel
  results,    \* each probe's results, by container ID
  updates,    \* number of unread updates of each results manager
  stopped,    \* probes that were ever told to stop
  earned      \* pairs of a probe and a container that it found successful

vars == <<container, never, deleted, status, watched, sync, adds, workers, worker, stopCh,
          trigger, results, updates, stopped, earned>>

IDs == 1..MaxID
None == "none"
Results == {None, "unknown", "failure", "success"}
Status == [id: 0..MaxID, state: {None, "waiting", "running", "terminated"},
           started: BOOLEAN, ready: BOOLEAN, over: BOOLEAN]
SyncAt == {"idle", "startup result", "startup worker", "readiness result", "readiness worker"}
Worker == [at: {None, "look", "check", "probe", "send", "select", "end", "remove"},
           id: 0..MaxID, last: {None, "success", "failure"}, run: Nat, onHold: BOOLEAN,
           seen: Status, then: {None, "check", "select", "end"}]

Sync == [at: SyncAt, id: 0..MaxID, started: BOOLEAN, added: BOOLEAN]

NoStatus == [id |-> 0, state |-> None, started |-> FALSE, ready |-> FALSE, over |-> FALSE]
Idle == [at |-> "idle", id |-> 0, started |-> FALSE, added |-> FALSE]

\* The threshold that counts for a result.
Threshold(t, result) == IF result = "success" THEN SuccessThreshold[t] ELSE FailureThreshold[t]

\* newWorker
InitialValue_Optimistic(t) == "success"

InitialValue(t) ==
  CASE t = "readiness" -> "failure" [] t = "liveness" -> "success" [] t = "startup" -> "unknown"

NewWorker == [at |-> "look", id |-> 0, last |-> None, run |-> 0, onHold |-> FALSE,
              seen |-> NoStatus, then |-> None]
NoWorker == [NewWorker EXCEPT !.at = None]

Init ==
  /\ container = [id |-> 0, state |-> None]
  /\ never \in BOOLEAN
  /\ deleted \in BOOLEAN
  /\ status = NoStatus
  /\ watched = FALSE
  /\ sync = Idle
  /\ adds = 0
  /\ workers = {}
  /\ worker = [t \in Probes |-> NoWorker]
  /\ stopCh = {}
  /\ trigger = {}
  /\ results = [t \in Probes |-> [i \in IDs |-> None]]
  /\ updates = [t \in Probes |-> 0]
  /\ stopped = {}
  /\ earned = {}

-----------------------------------------------------------------------------
(* The container *)

\* Containers come and go on their own: nothing makes them wait for AddPod.
ContainerCreated ==
  /\ container.id < MaxID
  /\ container.id = 0 \/ (container.state = "exited" /\ ~never)
  /\ container' = [id |-> container.id + 1, state |-> "created"]
  /\ UNCHANGED <<never, deleted, status, watched, sync, adds, workers, worker, stopCh,
                 trigger, results, updates, stopped, earned>>

ContainerStarts ==
  /\ container.state = "created"
  /\ container' = [container EXCEPT !.state = "running"]
  /\ UNCHANGED <<never, deleted, status, watched, sync, adds, workers, worker, stopCh,
                 trigger, results, updates, stopped, earned>>

ContainerExits ==
  /\ container.state = "running"
  /\ container' = [container EXCEPT !.state = "exited"]
  /\ UNCHANGED <<never, deleted, status, watched, sync, adds, workers, worker, stopCh, trigger,
                 results, updates, stopped, earned>>

-----------------------------------------------------------------------------
(* The manager *)

\* AddPod takes the probes in the order startup, readiness, liveness and returns
\* at the first that has a worker already.
Order == [t \in Probes |-> CASE t = "startup" -> 1 [] t = "readiness" -> 2 [] OTHER -> 3]
ToAdd == {t \in Probes : \A u \in workers : Order[t] < Order[u]}

AddPod ==
  /\ ToAdd # {}
  /\ adds < MaxAdds
  /\ adds' = adds + 1
  /\ workers' = workers \cup ToAdd
  /\ worker' = [t \in Probes |-> IF t \in ToAdd THEN NewWorker ELSE worker[t]]
  /\ stopCh' = stopCh \ ToAdd
  /\ trigger' = trigger \ ToAdd
  /\ UNCHANGED <<container, never, deleted, status, watched, sync, results, updates, stopped,
                 earned>>

\* worker.stop: a stop that is already in the channel is enough.
Stop(ts) ==
  /\ stopCh' = stopCh \cup (ts \cap workers)
  /\ stopped' = stopped \cup (ts \cap workers)
  /\ stopCh' # stopCh
  /\ UNCHANGED <<container, never, deleted, status, watched, sync, adds, workers, worker, trigger,
                 results, updates, earned>>

StopLivenessAndStartup == Stop({"liveness", "startup"})

\* RemovePod, and CleanupPods for a pod that is not wanted.
RemovePod == Stop(Probes)

\* UpdatePodStatus asks the results managers and the map one after another.
Writes(started, ready) ==
  /\ status' = [id |-> sync.id, state |-> "running", started |-> started, ready |-> ready,
                over |-> FALSE]
  /\ watched' = sync.added
  /\ sync' = Idle

Asks(at, started) ==
  /\ sync' = [sync EXCEPT !.at = at, !.started = started]
  /\ UNCHANGED <<status, watched>>

Result(t) == IF t \in Probes THEN results[t][sync.id] ELSE None

\* A container that does not run is neither started nor ready: it waits, newly
\* created or after a failed restart (when it keeps its ID), or has terminated.
SyncStarts ==
  /\ sync.at = "idle" /\ container.id # 0
  /\ \/ /\ container.state = "running"
        /\ sync' = [Idle EXCEPT !.at = "startup result", !.id = container.id, !.added = adds > 0]
        /\ UNCHANGED <<status, watched>>
     \/ /\ container.state = "created" \/ (container.state = "exited" /\ ~never)
        /\ status' = [NoStatus EXCEPT !.id = container.id, !.state = "waiting"]
        /\ watched' = (adds > 0)
        /\ UNCHANGED sync
     \/ /\ container.state = "exited"
        /\ \E over \in {FALSE, never} :
             status' = [NoStatus EXCEPT !.id = container.id, !.state = "terminated", !.over = over]
        /\ watched' = (adds > 0)
        /\ UNCHANGED sync
  /\ UNCHANGED trigger

AskStartupResult ==
  /\ sync.at = "startup result"
  /\ CASE Result("startup") = None -> Asks("startup worker", FALSE)
       [] Result("startup") = "success" -> Asks("readiness result", TRUE)
       [] OTHER -> Writes(FALSE, FALSE)
  /\ UNCHANGED trigger

AskStartupWorker ==
  /\ sync.at = "startup worker"
  /\ IF "startup" \in workers THEN Writes(FALSE, FALSE) ELSE Asks("readiness result", TRUE)
  /\ UNCHANGED trigger

AskReadinessResult ==
  /\ sync.at = "readiness result"
  /\ IF Result("readiness") = "success" THEN Writes(TRUE, TRUE)
     ELSE Asks("readiness worker", TRUE)
  /\ UNCHANGED trigger

\* A worker that has no success yet is triggered.
AskReadinessWorker ==
  /\ sync.at = "readiness worker"
  /\ Writes(TRUE, "readiness" \notin workers)
  /\ trigger' = trigger \cup ({"readiness"} \cap workers)

UpdatePodStatus ==
  /\ \/ SyncStarts \/ AskStartupResult \/ AskStartupWorker
     \/ AskReadinessResult \/ AskReadinessWorker
  /\ UNCHANGED <<container, never, deleted, adds, workers, worker, stopCh, results, updates,
                 stopped, earned>>

-----------------------------------------------------------------------------
(* A worker: run and doProbe *)

Goes(t, at) == worker' = [worker EXCEPT ![t].at = at]

\* results.Manager.Set stores a new result and then sends an update, which may
\* have to wait; w is the worker as it goes on.
Put(t, id, result, w, then) ==
  /\ results' = [results EXCEPT ![t][id] = result]
  /\ worker' = [worker EXCEPT ![t] =
       IF results[t][id] = result THEN [w EXCEPT !.at = then]
       ELSE [w EXCEPT !.at = "send", !.then = then]]

Send(t) ==
  /\ worker[t].at = "send"
  /\ updates[t] < UpdatesCap
  /\ updates' = [updates EXCEPT ![t] = @ + 1]
  /\ Goes(t, worker[t].then)
  /\ UNCHANGED <<workers, stopCh, trigger, results, earned>>

Adopt_KeepsOldResult(t) == results

\* A new container's result replaces the old one's.
Adopt(t) ==
  IF worker[t].id = 0 THEN results
  ELSE [results EXCEPT ![t][worker[t].id] = None]

\* doProbe reads the status; a new container starts with the initial value.
Look(t) ==
  LET w == [worker[t] EXCEPT !.seen = status] IN
  /\ w.at = "look"
  /\ \/ /\ status.id = 0 \/ status.over
        /\ worker' = [worker EXCEPT ![t] =
             [w EXCEPT !.at = IF status.over THEN "end" ELSE "select", !.seen = NoStatus]]
        /\ UNCHANGED results
     \/ /\ status.id # 0 /\ ~status.over
        /\ IF status.id = w.id
           THEN worker' = [worker EXCEPT ![t] = [w EXCEPT !.at = "check"]] /\ UNCHANGED results
           ELSE /\ results' = [Adopt(t) EXCEPT ![t][status.id] = InitialValue(t)]
                /\ worker' = [worker EXCEPT ![t] =
                     [w EXCEPT !.id = status.id, !.onHold = FALSE, !.at = "send", !.then = "check"]]
  /\ UNCHANGED <<workers, stopCh, trigger, updates, earned>>

\* The rest of doProbe up to the probe itself, on the status read before.
Check(t) ==
  LET w == [worker[t] EXCEPT !.seen = NoStatus]
      c == worker[t].seen
  IN
  /\ w.at = "check"
  /\ CASE w.onHold ->
            worker' = [worker EXCEPT ![t] = [w EXCEPT !.at = "select"]] /\ UNCHANGED results
       [] ~w.onHold /\ c.state # "running" ->
            Put(t, w.id, "failure", w,
                IF never /\ c.state = "terminated" THEN "end" ELSE "select")
       [] ~w.onHold /\ c.state = "running" /\ deleted /\ t # "readiness" ->
            Put(t, w.id, "success", w, "end")
       [] OTHER ->
            /\ \E at \in {"select"} \cup (IF c.started = (t # "startup") THEN {"probe"} ELSE {}) :
                 worker' = [worker EXCEPT ![t] = [w EXCEPT !.at = at]]
            /\ UNCHANGED results
  /\ UNCHANGED <<workers, stopCh, trigger, updates, earned>>

\* The probe ends, with a result or an error.  The run of equal results goes on
\* over a change of the container.
Probe(t, result) ==
  LET run == IF worker[t].last = result THEN worker[t].run + 1 ELSE 1
      limit == Threshold(t, result)
      w == [worker[t] EXCEPT !.last = result, !.run = IF run < limit THEN run ELSE limit]
      fails == t # "readiness" /\ result = "failure"
  IN
  /\ worker[t].at = "probe"
  /\ IF run < limit
     THEN worker' = [worker EXCEPT ![t] = [w EXCEPT !.at = "select"]] /\ UNCHANGED results
     ELSE Put(t, w.id, result,
              IF fails THEN [w EXCEPT !.onHold = TRUE, !.run = 0] ELSE w, "select")
  /\ earned' = IF result = "success" THEN earned \cup {<<t, worker[t].id>>} ELSE earned
  /\ UNCHANGED <<workers, stopCh, trigger, updates>>

ProbeError(t) ==
  /\ worker[t].at = "probe"
  /\ Goes(t, "select")
  /\ UNCHANGED <<workers, stopCh, trigger, results, updates, earned>>

\* run selects among the stop channel, the ticker and the manual trigger.
SelectStop(t) ==
  /\ worker[t].at = "select" /\ t \in stopCh
  /\ stopCh' = stopCh \ {t}
  /\ Goes(t, "end")
  /\ UNCHANGED <<workers, trigger, results, updates, earned>>

SelectTick(t) ==
  /\ worker[t].at = "select"
  /\ trigger' = trigger \/ (t \in trigger /\ trigger' = trigger \ {t})
  /\ Goes(t, "look")
  /\ UNCHANGED <<workers, stopCh, results, updates, earned>>

\* The deferred function: the result goes first, then the worker.
End(t) ==
  /\ worker[t].at = "end"
  /\ results' = Adopt(t)
  /\ Goes(t, "remove")
  /\ UNCHANGED <<workers, stopCh, trigger, updates, earned>>

RemoveWorker(t) ==
  /\ worker[t].at = "remove"
  /\ workers' = workers \ {t}
  /\ worker' = [worker EXCEPT ![t] = NoWorker]
  /\ stopCh' = stopCh \ {t}
  /\ trigger' = trigger \ {t}
  /\ UNCHANGED <<results, updates, earned>>

Outside == <<container, never, deleted, status, watched, sync, adds, stopped>>

WorkerStep(t) ==
  /\ \/ Send(t) \/ Look(t) \/ Check(t) \/ ProbeError(t) \/ SelectStop(t) \/ SelectTick(t)
     \/ End(t) \/ RemoveWorker(t)
     \/ \E result \in {"success", "failure"} : Probe(t, result)
  /\ UNCHANGED Outside

Next ==
  \/ ContainerCreated \/ ContainerStarts \/ ContainerExits
  \/ AddPod \/ StopLivenessAndStartup \/ RemovePod
  \/ UpdatePodStatus
  \/ \E t \in Probes : WorkerStep(t)

Spec == Init /\ [][Next]_vars

-----------------------------------------------------------------------------
(* Properties *)

\* The status says of its container no more than the probes have found out.  (A
\* worker that was told to stop leaves no probe to answer to, and the probes of
\* a pod added while being deleted succeed unasked.)
Earned ==
  status.state = "running" =>
    /\ status.started /\ "startup" \in Probes \ stopped /\ ~deleted
         => <<"startup", status.id>> \in earned
    /\ status.ready /\ "readiness" \in Probes \ stopped
         => <<"readiness", status.id>> \in earned

\* Started and Ready are earned: an UpdatePodStatus that begins after AddPod
\* reports a running container as started or ready only after that container's
\* own probe succeeded, though it puts the answer together from four reads while
\* workers start, probe, adopt a new container and end.  Before AddPod there is no
\* worker, and the code, which looks for a worker where its comment speaks of a
\* probe, reports health that nobody has earned.
HealthIsEarned == watched => Earned

\* Results live exactly as long as their worker: the only result a probe may
\* have is that of its worker's container.
ResultsHaveWorkers ==
  \A t \in Probes, i \in IDs : results[t][i] # None => t \in workers /\ worker[t].id = i

-----------------------------------------------------------------------------
(* The inductive invariant behind them *)

\* Type invariant.
ProberTypeOK ==
  /\ container \in [id: 0..MaxID, state: {None, "created", "running", "exited"}]
  /\ never \in BOOLEAN /\ deleted \in BOOLEAN
  /\ status \in Status
  /\ watched \in BOOLEAN
  /\ sync \in Sync
  /\ adds \in Nat
  /\ workers \in SUBSET Probes
  /\ worker \in [Probes -> Worker]
  /\ stopCh \in SUBSET Probes /\ trigger \in SUBSET Probes
  /\ results \in [Probes -> [IDs -> Results]]
  /\ updates \in [Probes -> Nat]

\* The only container of a pod that is never restarted has ended, and the pod's
\* status says so for good.
Over ==
  /\ never /\ container.state = "exited"
  /\ sync.at = "idle" /\ status.state = "terminated"

\* A worker ends, and leaves the map, only for a reason that lasts.
MayEnd(t) == t \in stopped \/ Over \/ (deleted /\ t # "readiness")

\* The worker is on its way out, or gone.
Ending(t) ==
  \/ worker[t].at \in {"end", "remove"}
  \/ worker[t].at = "send" /\ worker[t].then = "end"

\* What a worker's position says of its container, of the status it has read,
\* and of its results.
WorkerOK(t) ==
  LET w == worker[t] IN
  /\ t \in workers <=> w.at # None
  /\ w.at = None => w.id = 0
  /\ w.at = "send" => w.then \in {"check", "select", "end"}
  /\ w.at \in {"check", "send", "probe"} => w.id # 0
  /\ w.at = "check" \/ (w.at = "send" /\ w.then = "check") =>
       /\ w.seen.id = w.id
       /\ w.seen.state = "terminated" /\ never => Over
  /\ Ending(t) \/ (adds > 0 /\ t \notin workers) => MayEnd(t)
  /\ t \in stopCh => t \in stopped
  /\ \A i \in IDs : results[t][i] # None => w.id = i /\ w.at \notin {None, "remove"}
  /\ \A i \in IDs : results[t][i] = "success" /\ t # "liveness" =>
       <<t, i>> \in earned \/ (t = "startup" /\ deleted)

\* The startup probe of container i has been answered for.
StartedOK(i) == "startup" \in Probes \ stopped /\ ~deleted => <<"startup", i>> \in earned

StatusOK ==
  /\ workers # {} \/ sync.added => adds > 0
  /\ container.id = 0 <=> container.state = None
  /\ status.id = 0 <=> status.state = None
  /\ status.over => never /\ status.state = "terminated"
  /\ status.state = "terminated" /\ never => Over
  /\ sync.at # "idle" => sync.id # 0 /\ container.id # 0
  /\ sync.at \in {"readiness result", "readiness worker"} =>
       (sync.added => StartedOK(sync.id))

ProberIInv ==
  /\ ProberTypeOK /\ StatusOK /\ HealthIsEarned
  /\ \A t \in Probes : WorkerOK(t)

=============================================================================
