---------------------------- MODULE SampleKubelet ----------------------------
(***************************************************************************)
(* The kubelet of this program: the main loop (SampleKubelet.Start), the   *)
(* handlers and callbacks it runs (pod_handler.go, callbackFunc.go,        *)
(* context.go, status.go), composed with the pod workers (PodWorkers) and  *)
(* the container status cache (ContainerCache) they share.                 *)
(*                                                                         *)
(* The cache stores pointers.  A pod has three PodStatus objects: the one  *)
(* insertPodCache makes ("running"), whose containers SetContainerExit     *)
(* changes in place, the one SetPodCompleted makes ("completed"), and the  *)
(* one without containers that the cache returns for a miss ("empty").     *)
(***************************************************************************)
EXTENDS Integers, Sequences, FiniteSets

CONSTANTS
  UIDs,         \* pods, all of them from the API server
  NoUID,
  HasCommand,   \* for each pod, for each container: does it have a command?
  ExitCodes,    \* what commands may exit with
  AddRequests,  \* the UpdatePodOptions of the pods of ADD events
  SpecGrace,
  MaxCalls,     \* bound: events per pod
  MaxTime       \* bound: readings of the clock per pod

VARIABLES
  \* of PodWorkers
  status, podUpdates, undelivered, worker, started, waiting, workQueue,
  podsSynced, openCh, calls,
  \* of ContainerCache
  pods, timestamp, subscribers, call, ch,
  source,    \* what the last event said of each pod
  managed,   \* the pods PodManager knows
  main,      \* the main loop: position and local variables
  heap,      \* the containers of each pod's "running" object
  ended,     \* the commands that have run: their exit codes
  local,     \* local variables of each pod's managePodLoop
  reported,  \* the containers as last given to statusManager.SetPodStatus
  now        \* the last reading of the clock for each pod

workerVars == <<status, podUpdates, undelivered, worker, started, waiting,
                workQueue, podsSynced, openCh, calls>>
cacheVars == <<pods, timestamp, subscribers, call, ch>>
vars == <<workerVars, cacheVars, source, managed, main, heap, ended, local,
          reported, now>>

Containers(u) == DOMAIN HasCommand[u]

Update == [type |-> "Update", runtime |-> FALSE, deletion |-> FALSE,
           terminalPhase |-> FALSE, deletionGrace |-> -1, evict |-> FALSE,
           ch |-> FALSE, statusFn |-> FALSE, override |-> -1]
DeleteUpdate == [Update EXCEPT !.deletion = TRUE, !.deletionGrace = 3]

\* The pod of a REMOVE is the one the configuration last stored.
Kill(deleting) ==
  [IF deleting THEN DeleteUpdate ELSE Update EXCEPT !.type = "Kill"]

AllRequests ==
  AddRequests \cup {Update, DeleteUpdate, Kill(FALSE), Kill(TRUE)}

PW == INSTANCE PodWorkers WITH
        StaticPods <- {}, Fullnames <- UIDs, Fullname <- [u \in UIDs |-> u],
        Requests <- AllRequests, SyncOutcomes <- {"terminal"}

Cache == INSTANCE ContainerCache WITH
           Callers <- UIDs, Statuses <- {"running", "completed", "empty"}, Empty <- "empty"

ASSUME KubeletAssumption ==
  /\ NoUID \notin UIDs
  /\ \A u \in UIDs : HasCommand[u] \in Seq(BOOLEAN)
  /\ ExitCodes \subseteq Int
  /\ AddRequests \subseteq PW!Options
  /\ \A r \in AddRequests : r.type = "Create" /\ ~r.runtime
  /\ SpecGrace \in Nat \ {0}
  /\ MaxCalls \in Nat /\ MaxTime \in Nat

-----------------------------------------------------------------------------
(* Container statuses *)

Running == [state |-> "running", code |-> 0]
Exited(code) == [state |-> "exited", code |-> code]
Absent == [state |-> "absent", code |-> 0]  \* no status in the object
Waiting == [state |-> "waiting", code |-> 0]
Lost == [state |-> "lost", code |-> 137]    \* waiting, last termination unknown

\* What the object that p points to says about container c now.
Look(u, p, c) ==
  CASE p = "running" -> heap[u][c]
    [] p = "completed" -> Exited(0)
    [] OTHER -> Absent

\* convertToAPIContainerStatuses for one container, given the status reported
\* before: a termination is kept, a container that was running is lost.
Convert(seen, old) ==
  CASE seen # Absent -> seen
    [] seen = Absent /\ old = Running -> Lost
    [] seen = Absent /\ old.state \in {"exited", "lost"} -> old
    [] OTHER -> Waiting

\* isPodStatusCacheTerminal: nothing runs; the sandbox of a "running" object is
\* ready until SetContainerExit has been called for a pod of one container.
StatusCacheTerminal(u) ==
  LET p == Cache!Get(u).status IN
  \/ p \in {"empty", "completed"}
  \/ /\ Cardinality(Containers(u)) = 1
     /\ \A c \in Containers(u) : heap[u][c].state = "exited"

-----------------------------------------------------------------------------
NoMain == [pc |-> "range", uid |-> NoUID, request |-> Update, next |-> 0,
           code |-> 0, ptr |-> "none", time |-> 0]

NoLocal == [insert |-> "todo", time |-> 0, lastSync |-> 0, ptr |-> "none",
            seen |-> <<>>]

Init ==
  /\ PW!Init
  /\ Cache!CacheInit
  /\ source = [u \in UIDs |-> "absent"]
  /\ managed = {}
  /\ main = NoMain
  /\ heap = [u \in UIDs |-> [c \in Containers(u) |-> Running]]
  /\ ended = [u \in UIDs |-> [c \in Containers(u) |-> Absent]]
  /\ local = [u \in UIDs |-> NoLocal]
  /\ reported = [u \in UIDs |-> [c \in Containers(u) |-> Absent]]
  /\ now = [u \in UIDs |-> 0]

\* time.Now: not before the last reading, and maybe equal to it.
ReadClock(u, t) ==
  /\ t \in {now[u], now[u] + 1}
  /\ t \in 1..MaxTime
  /\ now' = [now EXCEPT ![u] = t]

-----------------------------------------------------------------------------
(* The main loop *)

\* The next event, for one pod, and the handler's call of PodManager.
TakeEvent(u, request, src, manages) ==
  /\ main.pc = "range"
  /\ calls[u] < MaxCalls
  /\ main' = [main EXCEPT !.pc = "workers", !.uid = u, !.request = request]
  /\ source' = [source EXCEPT ![u] = src]
  /\ managed' = IF manages THEN managed \cup {u} ELSE managed \ {u}
  /\ UNCHANGED <<workerVars, cacheVars, heap, ended, local, reported, now>>

HandlerPodAdd(u) ==
  /\ source[u] = "absent"
  /\ \E r \in AddRequests :
       TakeEvent(u, r, IF r.deletion THEN "deleting" ELSE "added", TRUE)

\* UPDATE and DELETE; a pod being deleted that changes again is a DELETE again.
HandlePodUpdate(u) ==
  \/ source[u] = "added" /\ TakeEvent(u, Update, "added", TRUE)
  \/ source[u] \in {"added", "deleting"} /\ TakeEvent(u, DeleteUpdate, "deleting", TRUE)

HandlePodRemove(u) ==
  /\ source[u] \in {"added", "deleting"}
  /\ TakeEvent(u, Kill(source[u] = "deleting"), "removed", FALSE)

\* The containers that ExecPodCommands returns a command for, from i on.
Commands(u, i) == {c \in Containers(u) : c >= i /\ HasCommand[u][c]}

\* OnAdd's loop: on to the next command, or to the event and the sleep.
NextCommand(m, u, i) ==
  IF Commands(u, i) = {} THEN [m EXCEPT !.pc = "sleep"]
  ELSE [m EXCEPT !.pc = "command",
                 !.next = CHOOSE c \in Commands(u, i) : \A d \in Commands(u, i) : c <= d]

\* The handler's call of PodWorkers.UpdatePod, then its callback; OnUpdate,
\* OnDelete and OnRemove only record an event.
CallUpdatePod ==
  LET u == main.uid IN
  /\ main.pc = "workers"
  /\ PW!UpdatePod(u, main.request)
  /\ ~status[u].known /\ main.request.terminalPhase =>
       (status'[u].finished <=> StatusCacheTerminal(u))
  /\ main' = IF main.request.type = "Create" THEN NextCommand(main, u, 1) ELSE NoMain
  /\ UNCHANGED <<cacheVars, source, managed, heap, ended, local, reported, now>>

\* ContainerCmd.Run: the command of a container ends.
RunCommand ==
  /\ main.pc = "command"
  /\ \E code \in ExitCodes :
       /\ main' = [main EXCEPT !.pc = "get", !.code = code]
       /\ ended' = [ended EXCEPT ![main.uid][main.next] = Exited(code)]
  /\ UNCHANGED <<workerVars, cacheVars, source, managed, heap, local, reported, now>>

\* CallBackContext.SetContainerExit, step by step: get the cached object,
ExitGet ==
  /\ main.pc = "get"
  /\ main' = [main EXCEPT !.pc = "mark", !.ptr = Cache!Get(main.uid).status]
  /\ UNCHANGED <<workerVars, cacheVars, source, managed, heap, ended, local, reported, now>>

Named_Any(u, c) == Containers(u)

\* The containers of the object that have the name SetContainerExit is given.
Named(u, c) == {c}

WriteHeap(u, value) ==
  heap' = [heap EXCEPT ![u] =
             [c \in Containers(u) |-> IF main.ptr = "running" /\ c \in Named(u, main.next)
                                      THEN value ELSE heap[u][c]]]

\* write the state of the container in place (not for an object it is not in),
ExitMark ==
  /\ main.pc = "mark"
  /\ main' = [main EXCEPT !.pc = "code"]
  /\ WriteHeap(main.uid, Exited(0))
  /\ UNCHANGED <<workerVars, cacheVars, source, managed, ended, local, reported, now>>

\* then its exit code,
ExitCode ==
  /\ main.pc = "code"
  /\ main' = [main EXCEPT !.pc = "stamp"]
  /\ WriteHeap(main.uid, Exited(main.code))
  /\ UNCHANGED <<workerVars, cacheVars, source, managed, ended, local, reported, now>>

\* read the clock for Set; SetPodCompleted does so too, with its own object,
ReadMainClock ==
  /\ main.pc \in {"stamp", "sleep"}
  /\ \E t \in 1..MaxTime :
       /\ ReadClock(main.uid, t)
       /\ main' = IF main.pc = "sleep"
                  THEN [main EXCEPT !.pc = "completed", !.ptr = "completed", !.time = t]
                  ELSE [main EXCEPT !.pc = "set", !.time = t]
  /\ UNCHANGED <<workerVars, cacheVars, source, managed, heap, ended, local, reported>>

\* and store the object; OnAdd goes on with the next command or returns.
MainSet ==
  /\ main.pc \in {"set", "completed"}
  /\ Cache!Set(main.uid, main.ptr, main.time)
  /\ main' = IF main.pc = "completed" THEN NoMain
             ELSE NextCommand([main EXCEPT !.code = 0, !.ptr = "none", !.time = 0],
                              main.uid, main.next + 1)
  /\ UNCHANGED <<workerVars, source, managed, heap, ended, local, reported, now>>

MainStep ==
  \/ CallUpdatePod \/ RunCommand \/ ExitGet \/ ExitMark \/ ExitCode
  \/ ReadMainClock \/ MainSet

-----------------------------------------------------------------------------
(* managePodLoop, as far as it uses the cache and the pod manager *)

InsertDue_EveryUpdate(u) ==
  \/ PW!At(u, "start") /\ local[u].insert = "todo"
  \/ PW!At(u, "status") /\ call[u] = Cache!Idle /\ local[u].insert = "done"

\* insertPodCache is called before the pod's first start only.
InsertDue(u) == PW!At(u, "start") /\ local[u].insert = "todo"

\* insertPodCache: ask PodManager for the pod, and give up if it is gone,
InsertGet(u) ==
  /\ InsertDue(u)
  /\ \/ /\ u \in managed
        /\ \E t \in 1..MaxTime :
             /\ ReadClock(u, t)
             /\ local' = [local EXCEPT ![u].insert = "set", ![u].time = t]
     \/ /\ u \notin managed
        /\ local' = [local EXCEPT ![u].insert = "done"]
        /\ UNCHANGED now
  /\ UNCHANGED <<workerVars, cacheVars, source, managed, main, heap, ended, reported>>

\* else store a new object whose containers are running.
InsertSet(u) ==
  /\ local[u].insert = "set"
  /\ Cache!Set(u, "running", local[u].time)
  /\ heap' = [heap EXCEPT ![u] = [c \in Containers(u) |-> Running]]
  /\ local' = [local EXCEPT ![u].insert = "done", ![u].time = 0]
  /\ UNCHANGED <<workerVars, source, managed, main, ended, reported, now>>

\* GetNewerThan, up to the wait for the answer.
WaitForStatus(u) ==
  /\ PW!At(u, "status")
  /\ Cache!Subscribe(u, u, local[u].lastSync)
  /\ UNCHANGED <<workerVars, source, managed, main, heap, ended, local, reported, now>>

GetNewerThan(u) ==
  /\ PW!GetNewerThan(u)
  /\ local' = [local EXCEPT ![u].ptr = ch[u].status]
  /\ Cache!Receive(u)
  /\ UNCHANGED <<source, managed, main, heap, ended, reported, now>>

AllRead(u) == Len(local[u].seen) = Cardinality(Containers(u))

\* A sync function: generateAPIPodStatus reads the containers of the object it
\* was given, without a lock, one after the other,
ReadContainer(u) ==
  /\ PW!At(u, "sync") /\ ~AllRead(u)
  /\ local' = [local EXCEPT ![u].seen =
                 Append(@, Look(u, local[u].ptr, Len(@) + 1))]
  /\ UNCHANGED <<workerVars, cacheVars, source, managed, main, heap, ended, reported, now>>

\* and the result goes to the status manager.
Report(u) ==
  /\ PW!At(u, "sync") /\ AllRead(u) /\ local[u].ptr # "none"
  /\ reported' = [reported EXCEPT ![u] =
                    [c \in Containers(u) |-> Convert(local[u].seen[c], reported[u][c])]]
  /\ local' = [local EXCEPT ![u].ptr = "none"]
  /\ UNCHANGED <<workerVars, cacheVars, source, managed, main, heap, ended, now>>

\* lastSyncTime is read after the sync function has returned.
SyncReturns(u) ==
  /\ PW!At(u, "sync") /\ AllRead(u) /\ local[u].ptr = "none"
  /\ \/ PW!CompleteSync(u) \/ PW!CompleteTerminating(u) \/ PW!CompleteTerminated(u)
  /\ \E t \in 1..MaxTime :
       /\ ReadClock(u, t)
       /\ local' = [local EXCEPT ![u].lastSync = t, ![u].seen = <<>>]
  /\ UNCHANGED <<cacheVars, source, managed, main, heap, ended, reported>>

\* The steps of the worker that touch nothing but its own state.
WorkerOnly(u) ==
  /\ \/ PW!Receive(u)
     \/ local[u].insert = "done" /\ PW!AllowPodStart(u)
     \/ PW!ContextForWorker(u)
     \/ PW!AcknowledgeTerminating(u)
     \/ PW!At(u, "queueNext") /\ PW!CompleteWork(u)
  /\ UNCHANGED <<cacheVars, source, managed, main, heap, ended, local, reported, now>>

WorkerStep(u) ==
  \/ InsertGet(u) \/ InsertSet(u) \/ WaitForStatus(u) \/ GetNewerThan(u)
  \/ ReadContainer(u) \/ Report(u) \/ SyncReturns(u) \/ WorkerOnly(u)

Next ==
  \/ \E u \in UIDs : HandlerPodAdd(u) \/ HandlePodUpdate(u) \/ HandlePodRemove(u)
  \/ MainStep
  \/ \E u \in UIDs : WorkerStep(u)

\* Goroutines that can run are scheduled, and every command ends.  Events may
\* or may not come.
Fairness == WF_vars(MainStep) /\ \A u \in UIDs : WF_vars(WorkerStep(u))

Spec == Init /\ [][Next]_vars /\ Fairness

-----------------------------------------------------------------------------
(* Properties *)

\* ContainerCache!NoMissedWakeup: a worker that waits in GetNewerThan is known
\* to the cache, which has nothing newer than the worker's last sync.
NoMissedWakeup == Cache!NoMissedWakeup

\* ContainerCache!AnswersAreCurrent: a worker is given the latest status, and
\* not one from before its last sync.
AnswersAreCurrent == Cache!AnswersAreCurrent

\* A container that the worker has once reported as exited is never reported as
\* running, waiting or lost later, although the worker's insertPodCache, the
\* main loop's writes to the cached object and its Sets race with each other.
ExitedStaysExited ==
  [][\A u \in UIDs : \A c \in Containers(u) :
       reported[u][c].state = "exited" => reported'[u][c].state = "exited"]_vars

\* OnAdd has run all commands of u.
CommandsDone(u) == \A c \in Commands(u, 1) : ended[u][c] # Absent

\* A container that r calls exited is one whose command has ended (or, if it
\* has none, all of the pod's have), and a code other than zero is that
\* command's.
ExitIsTrue(u, c, r) ==
  r.state = "exited" =>
    /\ IF HasCommand[u][c] THEN ended[u][c] # Absent ELSE CommandsDone(u)
    /\ r.code # 0 => r = ended[u][c]

\* A container is reported as exited only when that is true.  A code of zero
\* proves nothing: it may be SetPodCompleted's, or what stands in the object
\* between the writes of the state and of the code.
ExitReportsAreTrue ==
  \A u \in UIDs : \A c \in Containers(u) : ExitIsTrue(u, c, reported[u][c])

\* Whatever insertPodCache found, and in whatever order it and OnAdd write the
\* cache, a worker that was started gets to report its pod once.
AddedPodIsReported ==
  \A u \in UIDs : worker[u].pc # "none" ~> \A c \in Containers(u) : reported[u][c] # Absent

\* The worker's wait for a newer status ends ("max 2s").
WaitEnds == \A u \in UIDs : PW!At(u, "status") ~> ~PW!At(u, "status")

\* CouldHaveRunningContainers "returns false after the pod has been terminated
\* (running containers guaranteed stopped)".
StoppedMeansStopped ==
  \A u \in UIDs :
    main.pc = "command" /\ main.uid = u => PW!CouldHaveRunningContainers(u)

-----------------------------------------------------------------------------
(* The inductive invariant behind the safety properties *)

Pointers == {"none", "running", "completed", "empty"}

Exits == {Exited(code) : code \in ExitCodes \cup {0}}

Times == 0..MaxTime

\* Positions of the main loop between ContainerCmd.Run and the next command.
ExitPCs == {"get", "mark", "code", "stamp", "set"}

OnAddPCs == {"command", "sleep", "completed"} \cup ExitPCs

Main == [pc: {"range", "workers"} \cup OnAddPCs, uid: UIDs \cup {NoUID},
         request: AllRequests, next: Nat, code: ExitCodes \cup {0},
         ptr: Pointers, time: Times]

Local == [insert: {"todo", "set", "done"}, time: Times, lastSync: Times,
          ptr: Pointers, seen: Seq({Running, Absent} \cup Exits)]

\* f has a value of S for every container of every pod.
PerContainer(f, S) ==
  /\ f = [u \in UIDs |-> [c \in Containers(u) |-> f[u][c]]]
  /\ \A u \in UIDs : \A c \in Containers(u) : f[u][c] \in S

KubeletTypeOK ==
  /\ source \in [UIDs -> {"absent", "added", "deleting", "removed"}]
  /\ main \in Main
  /\ local \in [UIDs -> Local]
  /\ \A u \in UIDs : Len(local[u].seen) <= Cardinality(Containers(u))
  /\ now \in [UIDs -> Times]
  /\ PerContainer(heap, {Running} \cup Exits)
  /\ PerContainer(ended, {Absent} \cup Exits)
  /\ PerContainer(reported, {Running, Absent, Waiting, Lost} \cup Exits)

\* The main loop is in the handler of u's ADD, which comes once.
Adding(u) ==
  /\ main.uid = u
  /\ main.pc \in OnAddPCs \/ (main.pc = "workers" /\ main.request.type = "Create")

\* OnAdd has run the commands up to its position, and no others.
MainOK ==
  LET u == main.uid IN
  /\ main.pc # "range" => u \in UIDs /\ source[u] # "absent"
  /\ main.pc = "workers" /\ main.request.type = "Create" =>
       \A c \in Containers(u) : ended[u][c] = Absent
  /\ main.pc \in {"command"} \cup ExitPCs =>
       /\ main.next \in Commands(u, 1)
       /\ \A c \in Commands(u, 1) :
            ended[u][c] # Absent <=> c < main.next \/ (c = main.next /\ main.pc # "command")
  /\ main.pc \in ExitPCs => ended[u][main.next] = Exited(main.code)
  /\ main.pc \in ExitPCs \ {"get"} => main.ptr \in {"running", "empty"}
  /\ main.pc \in {"sleep", "completed"} => CommandsDone(u)
  /\ main.pc = "completed" => main.ptr = "completed"

\* Nothing runs before the ADD, and the completed object is stored after it.
SourceOK(u) ==
  /\ source[u] = "absent" => \A c \in Containers(u) : ended[u][c] = Absent
  /\ pods[u].status = "completed" => /\ ~Adding(u) /\ source[u] # "absent"
                                     /\ CommandsDone(u)

\* A worker uses the cache and reports after insertPodCache only, it is where
\* its local variables say, and the completed object is the last one.
HandsOK(u) ==
  LET w == worker[u]
      l == local[u]
  IN
  /\ "completed" \in {ch[u].status, l.ptr} => pods[u].status = "completed"
  /\ w.podStarted \/ w.pc \notin {"none", "range", "start"} => l.insert = "done"
  /\ call[u] # Cache!Idle => call[u].uid = u /\ w.pc = "status"
  /\ l.ptr # "none" => w.pc \in {"context", "acknowledge", "sync"}
  /\ l.insert # "done" => l.seen = <<>> /\ \A c \in Containers(u) : reported[u][c] = Absent

PodOK(u) == SourceOK(u) /\ HandsOK(u)

\* What the worker has read of container c in this sync.
Seen(u, c) == IF c \in DOMAIN local[u].seen THEN local[u].seen[c] ELSE Absent

\* The running object is neither in the cache nor in the worker's hands.
PastRunning(u) ==
  pods[u].status = "completed" /\ ch[u].status # "running" /\ local[u].ptr # "running"

\* Who says that a container has exited says so truly, and an exit that the
\* running object does not show comes from the completed one, which stays.
ContainerOK(u, c) ==
  LET h == heap[u][c]
      s == Seen(u, c)
      r == reported[u][c]
  IN
  /\ ExitIsTrue(u, c, h) /\ ExitIsTrue(u, c, s) /\ ExitIsTrue(u, c, r)
  /\ h = Running /\ "exited" \in {s.state, r.state} => PastRunning(u)
  /\ r.state = "exited" => s # Running

KubeletIInv ==
  /\ KubeletTypeOK
  /\ MainOK
  /\ \A u \in UIDs : PodOK(u) /\ \A c \in Containers(u) : ContainerOK(u, c)

=============================================================================
