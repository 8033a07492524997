---------------------------- MODULE ProberProofs ----------------------------
(***************************************************************************)
(* What the prober promises, for every choice of probes, thresholds and    *)
(* channel capacities and for any number of containers and of AddPod and   *)
(* RemovePod calls: health is earned, and results live as long as their    *)
(* worker.                                                                 *)
(***************************************************************************)
EXTENDS Prober, TLAPS

\* The constant records have their types.
LEMMA ZeroValues ==
  /\ NoStatus \in Status
  /\ NewWorker \in Worker /\ NoWorker \in Worker
  /\ NewWorker.at = "look" /\ NewWorker.id = 0
  /\ NoWorker.at = None /\ NoWorker.id = 0
<1>1. 0 \in 0..MaxID
  BY ProberAssumption
<1>2. NoStatus \in Status
  BY <1>1 DEF NoStatus, Status, None
<1>3. NewWorker \in Worker
  BY <1>1, <1>2 DEF NewWorker, Worker, None
<1>4. NoWorker \in Worker
  BY <1>3 DEF NoWorker, Worker
<1> QED
  BY <1>2, <1>3, <1>4 DEF NewWorker, NoWorker, None, Worker

\* The steps of WorkerStep(t), with what they leave alone.
LEMMA WorkerStepType ==
  ASSUME ProberTypeOK, NEW t \in Probes, WorkerStep(t)
  PROVE  ProberTypeOK'
<1> USE ProberAssumption, ZeroValues
<1>0. /\ worker[t] \in Worker /\ status \in Status /\ worker \in [Probes -> Worker]
      /\ results \in [Probes -> [IDs -> Results]]
      /\ workers \in SUBSET Probes /\ stopCh \in SUBSET Probes /\ trigger \in SUBSET Probes
      /\ updates \in [Probes -> Nat]
  BY DEF ProberTypeOK
<1>1. /\ worker' \in [Probes -> Worker]
      /\ results' \in [Probes -> [IDs -> Results]]
      /\ workers' \in SUBSET Probes /\ stopCh' \in SUBSET Probes /\ trigger' \in SUBSET Probes
      /\ updates' \in [Probes -> Nat]
      => ProberTypeOK'
  BY DEF ProberTypeOK, WorkerStep, Outside
<1>2. ASSUME NEW at \in {"look", "check", "probe", "send", "select", "end", "remove"},
             Goes(t, at)
      PROVE  worker' \in [Probes -> Worker]
  BY <1>0, <1>2 DEF Goes, Worker
<1>3. ASSUME NEW id \in 0..MaxID, NEW r \in Results
      PROVE  [results EXCEPT ![t][id] = r] \in [Probes -> [IDs -> Results]]
  BY <1>0
<1>4. ASSUME NEW id \in 0..MaxID, NEW r \in Results, NEW w \in Worker,
             NEW then \in {"select", "end"}, Put(t, id, r, w, then)
      PROVE  /\ worker' \in [Probes -> Worker]
             /\ results' \in [Probes -> [IDs -> Results]]
  <2>1. [w EXCEPT !.at = then] \in Worker /\ [w EXCEPT !.at = "send", !.then = then] \in Worker
    BY DEF Worker
  <2> QED
    BY <2>1, <1>0, <1>3, <1>4 DEF Put
<1>5. Adopt(t) \in [Probes -> [IDs -> Results]]
  BY <1>0, <1>3 DEF Adopt, Worker, Results
<1>6. CASE Send(t)
  <2>1. worker[t].then \in {None, "check", "select", "end"}
    BY <1>0 DEF Worker
  <2>2. [worker[t] EXCEPT !.at = worker[t].then] \in Worker
    BY <2>1, <1>0 DEF Worker
  <2>3. worker' \in [Probes -> Worker]
    BY <2>2, <1>0, <1>6 DEF Send, Goes
  <2>4. updates' \in [Probes -> Nat]
    BY <1>0, <1>6 DEF Send
  <2> QED
    BY <2>3, <2>4, <1>0, <1>1, <1>6 DEF Send
<1>7. CASE Look(t)
  <2> DEFINE w == [worker[t] EXCEPT !.seen = status]
  <2>2. /\ [w EXCEPT !.at = "end", !.seen = NoStatus] \in Worker
        /\ [w EXCEPT !.at = "select", !.seen = NoStatus] \in Worker
        /\ [w EXCEPT !.at = "check"] \in Worker
        /\ [w EXCEPT !.id = status.id, !.onHold = FALSE, !.at = "send", !.then = "check"] \in Worker
    <3>1. w \in Worker /\ status.id \in 0..MaxID
      BY <1>0 DEF Worker, Status
    <3> HIDE DEF w
    <3>2. [w EXCEPT !.at = "end", !.seen = NoStatus] \in Worker
      BY <3>1 DEF Worker
    <3>3. [w EXCEPT !.at = "select", !.seen = NoStatus] \in Worker
      BY <3>1 DEF Worker
    <3>4. [w EXCEPT !.at = "check"] \in Worker
      BY <3>1 DEF Worker
    <3>5. [w EXCEPT !.id = status.id, !.onHold = FALSE, !.at = "send", !.then = "check"] \in Worker
      BY <3>1 DEF Worker
    <3> QED
      BY <3>2, <3>3, <3>4, <3>5
  <2>3. InitialValue(t) \in Results /\ status.id \in 0..MaxID
    BY <1>0 DEF InitialValue, Results, Status
  <2>4. [Adopt(t) EXCEPT ![t][status.id] = InitialValue(t)] \in [Probes -> [IDs -> Results]]
    BY <2>3, <1>5
  <2>5. worker' \in [Probes -> Worker] /\ results' \in [Probes -> [IDs -> Results]]
    <3> DEFINE new(x) == worker' = [worker EXCEPT ![t] = x]
    <3>1. \/ UNCHANGED results
          \/ results' = [Adopt(t) EXCEPT ![t][status.id] = InitialValue(t)]
      BY <1>7 DEF Look
    <3>2. \/ new([w EXCEPT !.at = "end", !.seen = NoStatus])
          \/ new([w EXCEPT !.at = "select", !.seen = NoStatus])
          \/ new([w EXCEPT !.at = "check"])
          \/ new([w EXCEPT !.id = status.id, !.onHold = FALSE, !.at = "send", !.then = "check"])
      BY <1>7 DEF Look
    <3>3. PICK x \in Worker : worker' = [worker EXCEPT ![t] = x]
      BY <3>2, <2>2
    <3>4. worker' \in [Probes -> Worker]
      BY <3>3, <1>0
    <3>5. results' \in [Probes -> [IDs -> Results]]
      BY <3>1, <2>4, <1>0
    <3> QED
      BY <3>4, <3>5
  <2> QED
    BY <2>5, <1>0, <1>1, <1>7 DEF Look
<1>8. CASE Check(t)
  <2> DEFINE w == [worker[t] EXCEPT !.seen = NoStatus]
  <2>1. w \in Worker /\ w.id \in 0..MaxID
    BY <1>0 DEF Worker
  <2>2. \A a \in {"select", "probe"} : [w EXCEPT !.at = a] \in Worker
    BY <2>1 DEF Worker
  <2>3. worker' \in [Probes -> Worker] /\ results' \in [Probes -> [IDs -> Results]]
    <3>1. \/ \E a \in {"select", "probe"} : worker' = [worker EXCEPT ![t] = [w EXCEPT !.at = a]]
                                             /\ UNCHANGED results
          \/ \E r \in {"failure", "success"}, then \in {"select", "end"} :
               Put(t, w.id, r, w, then)
      BY <1>8 DEF Check
    <3>2. CASE \E r \in {"failure", "success"}, then \in {"select", "end"} :
                 Put(t, w.id, r, w, then)
      <4>1. PICK r \in {"failure", "success"}, then \in {"select", "end"} :
              Put(t, w.id, r, w, then)
        BY <3>2
      <4>2. r \in Results
        BY DEF Results
      <4> QED
        BY <4>1, <4>2, <2>1, <1>4
    <3>3. CASE \E a \in {"select", "probe"} : worker' = [worker EXCEPT ![t] = [w EXCEPT !.at = a]]
                                               /\ UNCHANGED results
      <4>1. PICK x \in Worker : worker' = [worker EXCEPT ![t] = x]
        BY <3>3, <2>2
      <4> QED
        BY <3>3, <4>1, <1>0
    <3> QED
      BY <3>1, <3>2, <3>3
  <2> QED
    BY <2>3, <1>0, <1>1, <1>8 DEF Check
<1>9. ASSUME NEW r \in {"success", "failure"}, Probe(t, r)
      PROVE  ProberTypeOK'
  <2> DEFINE run == IF worker[t].last = r THEN worker[t].run + 1 ELSE 1
             limit == Threshold(t, r)
             w == [worker[t] EXCEPT !.last = r, !.run = IF run < limit THEN run ELSE limit]
             v == IF t # "readiness" /\ r = "failure"
                  THEN [w EXCEPT !.onHold = TRUE, !.run = 0] ELSE w
  <2>1. run \in Nat /\ limit \in Nat
    BY <1>0 DEF Threshold, Worker
  <2>2. w \in Worker /\ w.id \in 0..MaxID
    <3> HIDE DEF run, limit
    <3> QED
      BY <2>1, <1>0 DEF Worker
  <2>3. [w EXCEPT !.at = "select"] \in Worker /\ v \in Worker
    <3> HIDE DEF w
    <3> QED
      BY <2>2 DEF Worker
  <2>4. \/ worker' = [worker EXCEPT ![t] = [w EXCEPT !.at = "select"]] /\ UNCHANGED results
        \/ Put(t, w.id, r, v, "select")
    BY <1>9 DEF Probe
  <2>5. worker' \in [Probes -> Worker] /\ results' \in [Probes -> [IDs -> Results]]
    BY <2>2, <2>3, <2>4, <1>0, <1>4 DEF Results
  <2> QED
    BY <2>5, <1>0, <1>1, <1>9 DEF Probe
<1>10. CASE ProbeError(t) \/ SelectStop(t) \/ SelectTick(t)
  BY <1>0, <1>1, <1>2, <1>10 DEF ProbeError, SelectStop, SelectTick
<1>11. CASE End(t)
  BY <1>0, <1>1, <1>2, <1>5, <1>11 DEF End
<1>12. CASE RemoveWorker(t)
  BY <1>0, <1>1, <1>12 DEF RemoveWorker
<1> QED
  BY <1>6, <1>7, <1>8, <1>9, <1>10, <1>11, <1>12 DEF WorkerStep

\* The other steps keep the types.
LEMMA OutsideStepType ==
  ASSUME ProberTypeOK,
         ContainerCreated \/ ContainerStarts \/ ContainerExits \/ AddPod \/ StopLivenessAndStartup \/ RemovePod
           \/ UpdatePodStatus
  PROVE  ProberTypeOK'
<1> USE ProberAssumption, ZeroValues
<1>1. CASE ContainerCreated \/ ContainerStarts
  BY <1>1 DEF ContainerCreated, ContainerStarts, ProberTypeOK
<1>2. CASE ContainerExits
  BY <1>2 DEF ContainerExits, ProberTypeOK
<1>3. CASE AddPod
  <2>1. worker' \in [Probes -> Worker]
    BY <1>3 DEF AddPod, ProberTypeOK
  <2>2. adds' \in Nat /\ workers' \in SUBSET Probes
        /\ stopCh' \in SUBSET Probes /\ trigger' \in SUBSET Probes
    <3>1. ToAdd \in SUBSET Probes
      BY DEF ToAdd
    <3> QED
      BY <3>1, <1>3 DEF AddPod, ProberTypeOK
  <2> QED
    BY <2>1, <2>2, <1>3 DEF AddPod, ProberTypeOK
<1>4. CASE StopLivenessAndStartup \/ RemovePod
  BY <1>4 DEF StopLivenessAndStartup, RemovePod, Stop, ProberTypeOK
<1>5. CASE UpdatePodStatus
  <2>1. sync \in Sync /\ status \in Status
        /\ container \in [id: 0..MaxID, state: {None, "created", "running", "exited"}]
        /\ trigger \in SUBSET Probes /\ workers \in SUBSET Probes /\ never \in BOOLEAN
        /\ watched \in BOOLEAN
    BY DEF ProberTypeOK
  <2>2. ASSUME NEW st \in BOOLEAN, NEW re \in BOOLEAN, Writes(st, re)
        PROVE  status' \in Status /\ watched' \in BOOLEAN /\ sync' \in Sync
    <3>1. sync.id \in 0..MaxID /\ 0 \in 0..MaxID
      BY <2>1 DEF Sync
    <3>2. status' \in Status
      BY <3>1, <2>2 DEF Writes, Status
    <3>3. Idle \in Sync
      BY <3>1 DEF Idle, Sync, SyncAt
    <3>4. watched' \in BOOLEAN
      BY <2>1, <2>2 DEF Writes, Sync
    <3> QED
      BY <3>2, <3>3, <3>4, <2>2 DEF Writes
  <2>3. ASSUME NEW at \in SyncAt, NEW st \in BOOLEAN, Asks(at, st)
        PROVE  status' \in Status /\ watched' \in BOOLEAN /\ sync' \in Sync
    BY <2>1, <2>3 DEF Asks, Sync
  <2>4. CASE SyncStarts
    <3> DEFINE asked == [Idle EXCEPT !.at = "startup result", !.id = container.id,
                                     !.added = adds > 0]
               waits == [NoStatus EXCEPT !.id = container.id, !.state = "waiting"]
               ended(over) == [NoStatus EXCEPT !.id = container.id, !.state = "terminated",
                                               !.over = over]
    <3>a. container.id \in 0..MaxID /\ (adds > 0) \in BOOLEAN /\ NoStatus \in Status
      BY <2>1
    <3>b. asked \in Sync
      BY <3>a DEF Idle, Sync, SyncAt
    <3>c. waits \in Status /\ \A over \in BOOLEAN : ended(over) \in Status
      BY <3>a DEF Status
    <3>d. \/ sync' = asked /\ UNCHANGED <<status, watched>>
          \/ sync' = sync /\ watched' = (adds > 0) /\ status' = waits
          \/ sync' = sync /\ watched' = (adds > 0) /\ \E over \in {FALSE, never} : status' = ended(over)
      BY <2>4 DEF SyncStarts
    <3> HIDE DEF asked, waits, ended
    <3>1. sync' \in Sync
      BY <3>b, <3>d, <2>1
    <3>2. status' \in Status /\ watched' \in BOOLEAN
      BY <3>a, <3>c, <3>d, <2>1
    <3> QED
      BY <3>1, <3>2, <2>4, <1>5 DEF SyncStarts, UpdatePodStatus, ProberTypeOK
  <2>5. CASE AskStartupResult \/ AskStartupWorker \/ AskReadinessResult \/ AskReadinessWorker
    <3>1. status' \in Status /\ watched' \in BOOLEAN /\ sync' \in Sync
      <4>1. \/ \E st \in BOOLEAN, re \in BOOLEAN : Writes(st, re)
            \/ \E at \in SyncAt, st \in BOOLEAN : Asks(at, st)
        BY <2>5 DEF AskStartupResult, AskStartupWorker, AskReadinessResult,
                    AskReadinessWorker, SyncAt
      <4> QED
        BY <4>1, <2>2, <2>3
    <3>2. trigger' \in SUBSET Probes
      BY <2>1, <2>5 DEF AskStartupResult, AskStartupWorker, AskReadinessResult,
                        AskReadinessWorker
    <3> QED
      BY <3>1, <3>2, <1>5 DEF UpdatePodStatus, ProberTypeOK
  <2> QED
    BY <2>4, <2>5, <1>5 DEF UpdatePodStatus
<1> QED
  BY <1>1, <1>2, <1>3, <1>4, <1>5

\* The workers' part of the invariant survives a step that takes no worker
\* anywhere: it may only add reasons to end, and successes.
LEMMA WorkerFrame ==
  ASSUME NEW t \in Probes, WorkerOK(t), Over => Over',
         worker'[t] = worker[t], results'[t] = results[t],
         t \in workers' <=> t \in workers, adds' > 0 /\ t \notin workers => adds > 0,
         t \in stopCh' => t \in stopCh \/ t \in stopped',
         stopped \subseteq stopped', earned \subseteq earned',
         never' = never, deleted' = deleted
  PROVE  WorkerOK(t)'
BY DEF WorkerOK, Ending, MayEnd

\* Over is for good.
LEMMA OverStays ==
  ASSUME ProberTypeOK, StatusOK, [Next]_vars, Over
  PROVE  Over'
<1>1. ASSUME NEW t \in Probes, WorkerStep(t) PROVE Over'
  BY <1>1 DEF WorkerStep, Outside, Over
<1>2. CASE ContainerCreated \/ ContainerStarts \/ ContainerExits
  BY <1>2 DEF ContainerCreated, ContainerStarts, ContainerExits, Over, ProberTypeOK, StatusOK, None
<1>3. CASE AddPod \/ StopLivenessAndStartup \/ RemovePod
  BY <1>3 DEF AddPod, StopLivenessAndStartup, RemovePod, Stop, Over
<1>4. CASE UpdatePodStatus
  <2>1. SyncStarts
    BY <1>4 DEF UpdatePodStatus, Over, AskStartupResult, AskStartupWorker,
                AskReadinessResult, AskReadinessWorker
  <2>2. sync' = sync /\ status'.state = "terminated"
    BY <2>1 DEF SyncStarts, Over, NoStatus
  <2> QED
    BY <2>2, <1>4 DEF UpdatePodStatus, Over
<1>5. CASE UNCHANGED vars
  BY <1>5 DEF vars, Over
<1> QED
  BY <1>1, <1>2, <1>3, <1>4, <1>5 DEF Next

\* The steps of one worker keep its part of the invariant.
LEMMA WorkerStepOK ==
  ASSUME ProberTypeOK, ProberTypeOK', StatusOK, NEW t \in Probes, WorkerOK(t), WorkerStep(t)
  PROVE  WorkerOK(t)'
<1> USE ProberAssumption
<1>0. /\ worker[t] \in Worker /\ worker \in [Probes -> Worker] /\ status \in Status
      /\ results \in [Probes -> [IDs -> Results]]
      /\ results[t] \in [IDs -> Results]
  BY DEF ProberTypeOK
<1>1. UNCHANGED Outside /\ (Over <=> Over') /\ never' = never /\ deleted' = deleted
      /\ adds' = adds /\ stopped' = stopped
  BY DEF WorkerStep, Outside, Over
<1>2. CASE Send(t)
  BY <1>0, <1>1, <1>2 DEF Send, Goes, WorkerOK, Ending, MayEnd, Worker, None
<1>3. CASE ProbeError(t)
  BY <1>0, <1>1, <1>3 DEF ProbeError, Goes, WorkerOK, Ending, MayEnd, Worker, None
<1>4. CASE SelectStop(t)
  BY <1>0, <1>1, <1>4 DEF SelectStop, Goes, WorkerOK, Ending, MayEnd, Worker, None
<1>5. CASE SelectTick(t)
  BY <1>0, <1>1, <1>5 DEF SelectTick, Goes, WorkerOK, Ending, MayEnd, Worker, None
<1>6. CASE End(t)
  BY <1>0, <1>1, <1>6 DEF End, Adopt, Goes, WorkerOK, Ending, MayEnd, Worker, None, IDs
<1>7. CASE RemoveWorker(t)
  BY <1>0, <1>1, <1>7, ZeroValues DEF RemoveWorker, WorkerOK, Ending, MayEnd, Worker, None
<1>8. CASE Look(t)
  <2>0. /\ UNCHANGED <<workers, stopCh, earned>> /\ worker[t].at = "look"
    BY <1>8 DEF Look
  <2> DEFINE w == [worker[t] EXCEPT !.seen = status]
  <2>w. w \in Worker /\ w.id = worker[t].id /\ w.seen = status
    BY <1>0 DEF Worker
  <2>u. ASSUME NEW x PROVE [worker EXCEPT ![t] = x][t] = x
    BY <1>0
  <2>1. CASE status.id = 0 \/ status.over
    <3>1. /\ UNCHANGED results
          /\ worker'[t].at = IF status.over THEN "end" ELSE "select"
          /\ worker'[t].id = worker[t].id
      <4> DEFINE at == IF status.over THEN "end" ELSE "select"
      <4>1. /\ UNCHANGED results
            /\ worker' = [worker EXCEPT ![t] = [w EXCEPT !.at = at, !.seen = NoStatus]]
        BY <2>1, <1>8 DEF Look
      <4>2. worker'[t] = [w EXCEPT !.at = at, !.seen = NoStatus]
        BY <4>1, <2>u
      <4>3. ASSUME NEW a, NEW x
            PROVE  /\ [w EXCEPT !.at = a, !.seen = x].at = a
                   /\ [w EXCEPT !.at = a, !.seen = x].id = w.id
        <5> HIDE DEF w
        <5> QED
          BY <2>w DEF Worker
      <4>4. worker'[t].at = at /\ worker'[t].id = w.id
        <5> HIDE DEF w, at
        <5> QED
          BY <4>2, <4>3
      <4> QED
        BY <4>1, <4>4, <2>w
    <3>2. status.over => Over
      BY DEF StatusOK
    <3> QED
      BY <3>1, <3>2, <2>0, <1>1 DEF WorkerOK, Ending, MayEnd, None
  <2>2. CASE status.id # 0 /\ ~status.over /\ status.id = worker[t].id
    <3>1. /\ UNCHANGED results
          /\ worker'[t].at = "check" /\ worker'[t].id = worker[t].id
          /\ worker'[t].seen = status
      <4>1. UNCHANGED results /\ worker' = [worker EXCEPT ![t] = [w EXCEPT !.at = "check"]]
        BY <2>2, <2>w, <1>8 DEF Look
      <4>2. worker'[t] = [w EXCEPT !.at = "check"]
        BY <4>1, <2>u
      <4> HIDE DEF w
      <4> QED
        BY <4>1, <4>2, <2>w DEF Worker
    <3>2. status.state = "terminated" /\ never => Over
      BY <2>2, <1>0 DEF StatusOK, Status
    <3> QED
      BY <3>1, <3>2, <2>0, <2>2, <1>1 DEF WorkerOK, Ending, MayEnd, None
  <2>3. CASE status.id # 0 /\ ~status.over /\ status.id # worker[t].id
    <3>1. /\ worker'[t].at = "send" /\ worker'[t].then = "check"
          /\ worker'[t].id = status.id /\ worker'[t].seen = status
      <4>1. worker' = [worker EXCEPT ![t] =
              [w EXCEPT !.id = status.id, !.onHold = FALSE, !.at = "send", !.then = "check"]]
        BY <2>3, <2>w, <1>8 DEF Look
      <4>2. worker'[t] =
              [w EXCEPT !.id = status.id, !.onHold = FALSE, !.at = "send", !.then = "check"]
        BY <4>1, <2>u
      <4> HIDE DEF w
      <4> QED
        BY <4>2, <2>w DEF Worker
    <3>2. results' = [Adopt(t) EXCEPT ![t][status.id] = InitialValue(t)]
      BY <2>3, <2>w, <1>8 DEF Look
    <3>3. status.state = "terminated" /\ never => Over
      BY <2>3, <1>0 DEF StatusOK, Status
    <3>4. \A i \in IDs : i # worker[t].id => results[t][i] = None
      BY DEF WorkerOK
    <3>5. \A i \in IDs : Adopt(t)[t][i] = None
      <4>1. CASE worker[t].id = 0
        BY <4>1, <3>4, <1>0 DEF Adopt, IDs
      <4>2. CASE worker[t].id # 0
        <5>1. worker[t].id \in IDs
          BY <4>2, <1>0 DEF Worker, IDs
        <5> QED
          BY <4>2, <5>1, <3>4, <1>0 DEF Adopt
      <4> QED
        BY <4>1, <4>2
    <3>6. Adopt(t) \in [Probes -> [IDs -> Results]]
      BY <1>0 DEF Adopt, Results
    <3>7. \A i \in IDs : i # status.id => results'[t][i] = None
      BY <3>2, <3>5, <3>6
    <3>8. results'[t][status.id] = "success" => t = "liveness"
      BY <3>2, <3>6, <2>3, <1>0 DEF InitialValue, Status, IDs
    <3> QED
      BY <3>1, <3>3, <3>7, <3>8, <2>0, <2>3, <1>1 DEF WorkerOK, Ending, MayEnd, None
  <2> QED
    BY <2>1, <2>2, <2>3
<1>9. ASSUME NEW r \in {"success", "failure"}, NEW w \in Worker, NEW then \in {"select", "end"},
             w.id = worker[t].id, worker[t].at \in {"check", "probe"},
             Put(t, worker[t].id, r, w, then),
             UNCHANGED <<workers, stopCh>>, earned \subseteq earned',
             then = "end" => MayEnd(t),
             r = "success" /\ t # "liveness" =>
               <<t, worker[t].id>> \in earned' \/ (t = "startup" /\ deleted)
      PROVE  WorkerOK(t)'
  <2>1. /\ worker'[t].id = worker[t].id
        /\ \/ worker'[t].at = then
           \/ worker'[t].at = "send" /\ worker'[t].then = then
    BY <1>0, <1>9 DEF Put, Worker
  <2>2. worker[t].id \in IDs
    BY <1>0, <1>9 DEF WorkerOK, Worker, IDs
  <2>3. /\ results'[t][worker[t].id] = r
        /\ \A i \in IDs : i # worker[t].id => results'[t][i] = results[t][i]
    BY <2>2, <1>0, <1>9 DEF Put
  <2>4. \A i \in IDs : i # worker[t].id => results[t][i] = None
    BY DEF WorkerOK
  <2>5. worker[t].id # 0 /\ t \in workers
    BY <1>9 DEF WorkerOK, None
  <2>6. MayEnd(t) => MayEnd(t)'
    BY <1>1 DEF MayEnd
  <2>7. t \in stopCh' => t \in stopped'
    BY <1>1, <1>9 DEF WorkerOK
  <2> QED
    BY <2>1, <2>2, <2>3, <2>4, <2>5, <2>6, <2>7, <1>1, <1>9 DEF WorkerOK, Ending, None
<1>10. CASE Check(t)
  <2> DEFINE w == [worker[t] EXCEPT !.seen = NoStatus]
             c == worker[t].seen
  <2>0. /\ UNCHANGED <<workers, stopCh, earned>> /\ worker[t].at = "check"
        /\ w.id = worker[t].id /\ w.onHold = worker[t].onHold
    BY <1>0, <1>10 DEF Check, Worker
  <2>1. w \in Worker
    BY <1>0, ZeroValues DEF Worker
  <2>2. CASE /\ ~w.onHold /\ c.state # "running"
             /\ Put(t, w.id, "failure", w,
                    IF never /\ c.state = "terminated" THEN "end" ELSE "select")
    <3> DEFINE then == IF never /\ c.state = "terminated" THEN "end" ELSE "select"
    <3>1. then \in {"select", "end"} /\ (then = "end" => MayEnd(t))
      BY <2>0, <2>2 DEF WorkerOK, MayEnd
    <3>2. Put(t, worker[t].id, "failure", w, then)
      BY <2>0, <2>2
    <3> HIDE DEF then, w
    <3> QED
      BY <3>1, <3>2, <2>0, <2>1, <1>9
  <2>3. CASE deleted /\ t # "readiness" /\ Put(t, w.id, "success", w, "end")
    <3>1. MayEnd(t) /\ (t # "liveness" => t = "startup")
      BY <2>3 DEF MayEnd
    <3>2. Put(t, worker[t].id, "success", w, "end")
      BY <2>0, <2>3
    <3> QED
      BY <3>1, <3>2, <2>0, <2>1, <2>3, <1>9
  <2>4. CASE \E at \in {"select", "probe"} :
               worker' = [worker EXCEPT ![t] = [w EXCEPT !.at = at]] /\ UNCHANGED results
    <3>1. worker'[t].at \in {"select", "probe"} /\ worker'[t].id = worker[t].id
      BY <2>4, <1>0 DEF Worker
    <3> QED
      BY <3>1, <2>0, <2>4, <1>1 DEF WorkerOK, Ending, MayEnd, None
  <2> QED
    BY <2>2, <2>3, <2>4, <1>10 DEF Check
<1>11. ASSUME NEW r \in {"success", "failure"}, Probe(t, r)
       PROVE  WorkerOK(t)'
  <2> DEFINE run == IF worker[t].last = r THEN worker[t].run + 1 ELSE 1
             limit == Threshold(t, r)
             w == [worker[t] EXCEPT !.last = r, !.run = IF run < limit THEN run ELSE limit]
             v == IF t # "readiness" /\ r = "failure"
                  THEN [w EXCEPT !.onHold = TRUE, !.run = 0] ELSE w
  <2>0. /\ UNCHANGED <<workers, stopCh>> /\ worker[t].at = "probe" /\ earned \subseteq earned'
        /\ r = "success" => <<t, worker[t].id>> \in earned'
    BY <1>11 DEF Probe
  <2>1. run \in Nat /\ limit \in Nat
    BY <1>0 DEF Threshold, Worker
  <2>2. w \in Worker /\ w.id = worker[t].id
    <3> HIDE DEF run, limit
    <3> QED
      BY <2>1, <1>0 DEF Worker
  <2>3. v \in Worker /\ v.id = worker[t].id /\ [w EXCEPT !.at = "select"].at = "select"
        /\ [w EXCEPT !.at = "select"].id = worker[t].id
    <3> HIDE DEF w
    <3> QED
      BY <2>2 DEF Worker
  <2>4. CASE worker' = [worker EXCEPT ![t] = [w EXCEPT !.at = "select"]] /\ UNCHANGED results
    <3>1. worker'[t].at = "select" /\ worker'[t].id = worker[t].id
      BY <2>3, <2>4, <1>0
    <3> QED
      BY <3>1, <2>0, <2>4, <1>1 DEF WorkerOK, Ending, MayEnd, None
  <2>5. CASE Put(t, w.id, r, v, "select")
    <3>1. Put(t, worker[t].id, r, v, "select")
      BY <2>2, <2>5
    <3> QED
      BY <3>1, <2>0, <2>3, <1>9
  <2> QED
    BY <2>4, <2>5, <1>11 DEF Probe
<1> QED
  BY <1>2, <1>3, <1>4, <1>5, <1>6, <1>7, <1>8, <1>10, <1>11 DEF WorkerStep

LEMMA InitInv == Init => ProberIInv
<1> SUFFICES ASSUME Init PROVE ProberIInv
  OBVIOUS
<1> USE ProberAssumption, ZeroValues
<1>1. ProberTypeOK
  <2>1. results \in [Probes -> [IDs -> Results]]
    BY DEF Init, Results
  <2>2. 0 \in 0..MaxID
    OBVIOUS
  <2>3. sync \in Sync
    BY <2>2 DEF Init, Idle, Sync, SyncAt
  <2>4. worker \in [Probes -> Worker] /\ status \in Status
    BY DEF Init
  <2>5. container \in [id: 0..MaxID, state: {None, "created", "running", "exited"}]
    BY <2>2 DEF Init
  <2> QED
    BY <2>1, <2>3, <2>4, <2>5 DEF Init, ProberTypeOK
<1>2. StatusOK /\ HealthIsEarned
  BY DEF Init, StatusOK, HealthIsEarned, Earned, NoStatus, Idle, None, Over
<1>3. ASSUME NEW t \in Probes PROVE WorkerOK(t)
  <2>1. worker[t] = NoWorker /\ adds = 0 /\ workers = {} /\ stopCh = {}
        /\ \A i \in IDs : results[t][i] = None
    BY DEF Init
  <2> QED
    BY <2>1 DEF WorkerOK, Ending, None
<1> QED
  BY <1>1, <1>2, <1>3 DEF ProberIInv

\* A step of a worker: of the status and its answers nothing is taken back.
LEMMA WorkerStepInv ==
  ASSUME ProberIInv, NEW t \in Probes, WorkerStep(t)
  PROVE  ProberIInv'
<1>0. ProberTypeOK /\ StatusOK /\ HealthIsEarned /\ \A u \in Probes : WorkerOK(u)
  BY DEF ProberIInv
<1>1. ProberTypeOK'
  BY <1>0, WorkerStepType
<1>2. UNCHANGED Outside /\ earned \subseteq earned' /\ workers' \subseteq workers
  BY DEF WorkerStep, Send, Look, Check, Probe, ProbeError, SelectStop, SelectTick, End,
         RemoveWorker
<1>3. StatusOK' /\ HealthIsEarned'
  BY <1>0, <1>2 DEF StatusOK, StartedOK, HealthIsEarned, Earned, Over, Outside
<1>4. ASSUME NEW u \in Probes, u # t PROVE WorkerOK(u)'
  <2>1. worker'[u] = worker[u]
    BY <1>0, <1>4 DEF WorkerStep, Send, Look, Check, Probe, ProbeError, SelectStop, SelectTick,
                      End, RemoveWorker, Goes, Put, ProberTypeOK
  <2>2. results'[u] = results[u]
    BY <1>0, <1>4 DEF WorkerStep, Send, Look, Check, Probe, ProbeError, SelectStop, SelectTick,
                      End, RemoveWorker, Adopt, Put, ProberTypeOK
  <2>3. (u \in workers' <=> u \in workers) /\ (u \in stopCh' => u \in stopCh)
    BY <1>4 DEF WorkerStep, Send, Look, Check, Probe, ProbeError, SelectStop, SelectTick, End,
                RemoveWorker
  <2> QED
    BY <2>1, <2>2, <2>3, <1>0, <1>2, WorkerFrame DEF Outside, Over
<1>5. WorkerOK(t)'
  BY <1>0, <1>1, WorkerStepOK
<1> QED
  BY <1>1, <1>3, <1>4, <1>5 DEF ProberIInv

\* The container and the manager.
LEMMA OutsideStepInv ==
  ASSUME ProberIInv,
         ContainerCreated \/ ContainerStarts \/ ContainerExits \/ AddPod \/ StopLivenessAndStartup \/ RemovePod
  PROVE  ProberIInv'
<1> USE ProberAssumption
<1>0. ProberTypeOK /\ StatusOK /\ HealthIsEarned /\ \A u \in Probes : WorkerOK(u)
  BY DEF ProberIInv
<1>1. ProberTypeOK'
  BY <1>0, OutsideStepType
<1>2. Over => Over'
  BY <1>0, OverStays DEF Next
<1>3. CASE ContainerCreated \/ ContainerStarts
  <2>1. ASSUME NEW u \in Probes PROVE WorkerOK(u)'
    BY <1>0, <1>2, <1>3, WorkerFrame DEF ContainerCreated, ContainerStarts
  <2>2. StatusOK'
    <3>1. /\ container'.id # 0 /\ container'.state \in {"created", "running"}
          /\ UNCHANGED <<never, deleted, status, sync, adds, workers, stopped, earned>>
      <4>1. container.id \in 0..MaxID /\ container \in [id: 0..MaxID,
              state: {None, "created", "running", "exited"}]
        BY <1>0 DEF ProberTypeOK
      <4>2. CASE ContainerCreated
        BY <4>1, <4>2 DEF ContainerCreated
      <4>3. CASE ContainerStarts
        BY <4>1, <4>3, <1>0 DEF ContainerStarts, StatusOK, None
      <4> QED
        BY <4>2, <4>3, <1>3
    <3> QED
      BY <3>1, <1>0, <1>2 DEF StatusOK, StartedOK, None
  <2>3. HealthIsEarned'
    <3>1. UNCHANGED <<deleted, status, watched, stopped, earned>>
      BY <1>3 DEF ContainerCreated, ContainerStarts
    <3> QED
      BY <3>1, <1>0 DEF HealthIsEarned, Earned
  <2> QED
    BY <2>1, <2>2, <2>3, <1>1 DEF ProberIInv
<1>4. CASE ContainerExits
  <2>1. ASSUME NEW u \in Probes PROVE WorkerOK(u)'
    BY <1>0, <1>2, <1>4, WorkerFrame DEF ContainerExits
  <2>2. StatusOK'
    BY <1>0, <1>1, <1>2, <1>4 DEF ContainerExits, StatusOK, StartedOK, ProberTypeOK, None
  <2>3. HealthIsEarned'
    BY <1>0, <1>4 DEF ContainerExits, HealthIsEarned, Earned
  <2> QED
    BY <2>1, <2>2, <2>3, <1>1 DEF ProberIInv
<1>5. CASE StopLivenessAndStartup \/ RemovePod
  <2>1. /\ stopped \subseteq stopped' /\ \A u \in stopCh' : u \in stopCh \/ u \in stopped'
        /\ UNCHANGED <<container, never, deleted, status, watched, sync, adds, workers,
                       worker, results, earned>>
    BY <1>5 DEF StopLivenessAndStartup, RemovePod, Stop
  <2>2. ASSUME NEW u \in Probes PROVE WorkerOK(u)'
    BY <2>1, <1>0, <1>2, WorkerFrame
  <2>3. StatusOK' /\ HealthIsEarned'
    BY <2>1, <1>0 DEF StatusOK, StartedOK, HealthIsEarned, Earned, Over
  <2> QED
    BY <2>2, <2>3, <1>1 DEF ProberIInv
<1>6. CASE AddPod
  <2>1. /\ UNCHANGED <<container, never, deleted, status, watched, sync, results, stopped,
                       earned>>
        /\ adds' = adds + 1 /\ adds \in Nat
        /\ workers' = workers \cup ToAdd /\ stopCh' = stopCh \ ToAdd
        /\ worker' = [t \in Probes |-> IF t \in ToAdd THEN NewWorker ELSE worker[t]]
    BY <1>0, <1>6 DEF AddPod, ProberTypeOK
  <2>2. ASSUME NEW u \in ToAdd PROVE u \in Probes /\ WorkerOK(u)'
    <3>1. u \in Probes /\ u \notin workers
      <4>1. Order[u] \in Nat /\ u \in Probes
        BY DEF ToAdd, Order
      <4> QED
        BY <4>1 DEF ToAdd
    <3>2. \A i \in IDs : results'[u][i] = None
      BY <3>1, <2>1, <1>0 DEF WorkerOK
    <3>3. worker'[u] = NewWorker /\ u \in workers' /\ u \notin stopCh'
      BY <3>1, <2>1
    <3> QED
      BY <3>1, <3>2, <3>3, ZeroValues DEF WorkerOK, Ending, None
  <2>3. ASSUME NEW u \in Probes \ ToAdd PROVE WorkerOK(u)'
    <3>1. adds > 0
      BY <2>3, <1>0 DEF ToAdd, StatusOK
    <3> QED
      BY <3>1, <2>1, <1>0, <1>2, WorkerFrame
  <2>4. StatusOK' /\ HealthIsEarned'
    <3>1. adds' > 0
      BY <2>1
    <3> QED
      BY <3>1, <2>1, <1>0 DEF StatusOK, StartedOK, HealthIsEarned, Earned, Over
  <2> QED
    BY <2>2, <2>3, <2>4, <1>1 DEF ProberIInv
<1> QED
  BY <1>3, <1>4, <1>5, <1>6

\* UpdatePodStatus puts the answer together from up to four reads; what it has
\* found out before a read still holds after it.
LEMMA UpdatePodStatusInv ==
  ASSUME ProberIInv, UpdatePodStatus
  PROVE  ProberIInv'
<1> USE ProberAssumption
<1>0. ProberTypeOK /\ StatusOK /\ HealthIsEarned /\ \A u \in Probes : WorkerOK(u)
  BY DEF ProberIInv
<1>1. ProberTypeOK'
  BY <1>0, OutsideStepType
<1>2. Over => Over'
  BY <1>0, OverStays DEF Next
<1>3. UNCHANGED <<container, never, deleted, adds, workers, worker, stopCh, results, stopped,
                  earned>>
  BY DEF UpdatePodStatus
<1>4. ASSUME NEW u \in Probes PROVE WorkerOK(u)'
  BY <1>0, <1>2, <1>3, WorkerFrame
<1>5. /\ sync \in Sync /\ status \in Status
      /\ container \in [id: 0..MaxID, state: {None, "created", "running", "exited"}]
  BY <1>0 DEF ProberTypeOK
\* A probe that has no worker cannot be asked, and has no say any more.
<1>6. ASSUME sync.at # "idle", sync.added, NEW t \in {"startup", "readiness"}, t \in Probes \ stopped,
             t \notin workers
      PROVE  t = "startup" /\ deleted
  <2>1. adds > 0 /\ ~Over
    BY <1>0, <1>6 DEF StatusOK, Over
  <2> QED
    BY <2>1, <1>0, <1>6 DEF WorkerOK, MayEnd
<1>7. ASSUME sync.at # "idle", NEW t \in {"startup", "readiness"}, Result(t) = "success"
      PROVE  t \in Probes /\ (<<t, sync.id>> \in earned \/ (t = "startup" /\ deleted))
  <2>1. sync.id \in IDs
    <3>1. sync.id \in 0..MaxID
      BY <1>5 DEF Sync
    <3>2. sync.id # 0
      BY <1>0, <1>7 DEF StatusOK
    <3> QED
      BY <3>1, <3>2 DEF IDs
  <2> QED
    BY <2>1, <1>0, <1>7 DEF Result, WorkerOK, None
<1>8. ASSUME NEW st, NEW re, Writes(st, re), sync.at # "idle",
             sync.added /\ status'.started => StartedOK(sync.id),
             sync.added /\ status'.ready /\ "readiness" \in Probes \ stopped =>
               <<"readiness", sync.id>> \in earned
      PROVE  ProberIInv'
  <2>1. /\ status'.id = sync.id /\ status'.state = "running"
        /\ status'.over = FALSE /\ watched' = sync.added
        /\ sync'.at = "idle" /\ sync'.added = FALSE
    BY <1>8 DEF Writes, Idle
  <2>2. sync.id # 0
    BY <1>0, <1>8 DEF StatusOK
  <2>3. StatusOK'
    BY <2>1, <2>2, <1>0, <1>3 DEF StatusOK, None
  <2>4. HealthIsEarned'
    BY <2>1, <1>3, <1>8 DEF HealthIsEarned, Earned, StartedOK
  <2> QED
    BY <2>3, <2>4, <1>1, <1>4 DEF ProberIInv
<1>9. ASSUME NEW at, NEW st, Asks(at, st), sync.at # "idle",
             sync.added /\ at \in {"readiness result", "readiness worker"}
               => StartedOK(sync.id)
      PROVE  ProberIInv'
  <2>1. /\ UNCHANGED <<status, watched>>
        /\ sync'.at = at /\ sync'.id = sync.id /\ sync'.added = sync.added
    BY <1>5, <1>9 DEF Asks, Sync
  <2>2. status.state = "terminated" => ~never
    BY <1>0, <1>9 DEF StatusOK, Over
  <2>3. StatusOK'
    BY <2>1, <2>2, <1>0, <1>3, <1>9 DEF StatusOK, StartedOK
  <2>4. HealthIsEarned'
    BY <2>1, <1>0, <1>3 DEF HealthIsEarned, Earned
  <2> QED
    BY <2>3, <2>4, <1>1, <1>4 DEF ProberIInv
<1>10. CASE SyncStarts /\ container.state = "running"
  <2>1. /\ UNCHANGED <<status, watched>> /\ sync'.at = "startup result"
        /\ sync'.id = container.id /\ sync'.added = (adds > 0)
    BY <1>10 DEF SyncStarts, Idle
  <2>2. status.state = "terminated" => ~never
    BY <1>0, <1>10 DEF StatusOK, Over
  <2>3. StatusOK' /\ HealthIsEarned'
    BY <2>1, <2>2, <1>0, <1>3, <1>10 DEF StatusOK, HealthIsEarned, Earned, SyncStarts
  <2> QED
    BY <2>3, <1>1, <1>4 DEF ProberIInv
<1>11. CASE SyncStarts /\ container.state # "running"
  <2>1. /\ sync' = sync /\ sync.at = "idle" /\ container.id # 0
        /\ status'.id = container.id /\ (status'.over => never)
        /\ \/ status'.state = "waiting" /\ ~status'.over
           \/ status'.state = "terminated" /\ container.state = "exited"
    <3>1. CASE status' = [NoStatus EXCEPT !.id = container.id, !.state = "waiting"]
      BY <3>1, <1>11 DEF SyncStarts, NoStatus
    <3>2. ASSUME NEW over \in {FALSE, never}, container.state = "exited",
                 status' = [NoStatus EXCEPT !.id = container.id, !.state = "terminated",
                                            !.over = over]
          PROVE  /\ status'.id = container.id /\ (status'.over => never)
                 /\ status'.state = "terminated"
      <4>1. status'.id = container.id /\ status'.state = "terminated" /\ status'.over = over
        BY <3>2 DEF NoStatus
      <4> QED
        BY <4>1
    <3> QED
      BY <3>1, <3>2, <1>11 DEF SyncStarts
  <2>2. StatusOK' /\ HealthIsEarned'
    BY <2>1, <1>0, <1>3 DEF StatusOK, HealthIsEarned, Earned, Over, None
  <2> QED
    BY <2>2, <1>1, <1>4 DEF ProberIInv
<1>12. CASE AskStartupResult
  <2>1. sync.at # "idle"
    BY <1>12 DEF AskStartupResult
  <2>2. CASE Asks("startup worker", FALSE)
    BY <2>1, <2>2, <1>9
  <2>3. CASE Result("startup") = "success" /\ Asks("readiness result", TRUE)
    <3>1. StartedOK(sync.id)
      BY <2>1, <2>3, <1>7 DEF StartedOK
    <3> QED
      BY <3>1, <2>1, <2>3, <1>9
  <2>4. CASE Writes(FALSE, FALSE)
    <3>1. ~status'.started /\ ~status'.ready
      BY <2>4 DEF Writes
    <3> QED
      BY <3>1, <2>1, <2>4, <1>8
  <2> QED
    BY <2>2, <2>3, <2>4, <1>12 DEF AskStartupResult
<1>13. CASE AskStartupWorker
  <2>1. sync.at # "idle"
    BY <1>13 DEF AskStartupWorker
  <2>2. CASE Writes(FALSE, FALSE)
    <3>1. ~status'.started /\ ~status'.ready
      BY <2>2 DEF Writes
    <3> QED
      BY <3>1, <2>1, <2>2, <1>8
  <2>3. CASE "startup" \notin workers /\ Asks("readiness result", TRUE)
    <3>1. sync.added => StartedOK(sync.id)
      BY <2>1, <2>3, <1>6 DEF StartedOK
    <3> QED
      BY <3>1, <2>1, <2>3, <1>9
  <2> QED
    BY <2>2, <2>3, <1>13 DEF AskStartupWorker
<1>14. CASE AskReadinessResult
  <2>1. sync.at # "idle" /\ (sync.added => StartedOK(sync.id))
    BY <1>0, <1>14 DEF AskReadinessResult, StatusOK
  <2>2. CASE Result("readiness") = "success" /\ Writes(TRUE, TRUE)
    <3>1. <<"readiness", sync.id>> \in earned
      BY <2>1, <2>2, <1>7
    <3> QED
      BY <3>1, <2>1, <2>2, <1>8
  <2>3. CASE Asks("readiness worker", TRUE)
    BY <2>1, <2>3, <1>9
  <2> QED
    BY <2>2, <2>3, <1>14 DEF AskReadinessResult
<1>15. CASE AskReadinessWorker
  <2>1. /\ sync.at # "idle" /\ (sync.added => StartedOK(sync.id))
        /\ Writes(TRUE, "readiness" \notin workers)
    BY <1>0, <1>15 DEF AskReadinessWorker, StatusOK
  <2>2. sync.added => ~("readiness" \notin workers /\ "readiness" \in Probes \ stopped)
    BY <2>1, <1>6
  <2>3. status'.ready => "readiness" \notin workers
    BY <2>1 DEF Writes
  <2> QED
    BY <2>1, <2>2, <2>3, <1>8
<1> QED
  BY <1>10, <1>11, <1>12, <1>13, <1>14, <1>15 DEF UpdatePodStatus

\* The inductive invariant holds in every reachable state.
THEOREM Invariance == Spec => []ProberIInv
<1>1. ProberIInv /\ [Next]_vars => ProberIInv'
  <2> SUFFICES ASSUME ProberIInv, [Next]_vars PROVE ProberIInv'
    OBVIOUS
  <2>1. CASE UNCHANGED vars
    <3>1. ASSUME NEW t \in Probes PROVE WorkerOK(t)'
      BY <2>1, WorkerFrame DEF vars, ProberIInv, Over
    <3>2. ProberTypeOK'
      BY <2>1 DEF vars, ProberIInv, ProberTypeOK
    <3>3. StatusOK' /\ HealthIsEarned'
      BY <2>1 DEF vars, ProberIInv, StatusOK, StartedOK, HealthIsEarned, Earned, Over
    <3> QED
      BY <3>1, <3>2, <3>3 DEF ProberIInv
  <2> QED
    BY <2>1, WorkerStepInv, OutsideStepInv, UpdatePodStatusInv DEF Next
<1> QED
  BY <1>1, InitInv, PTL DEF Spec

\* A running container is reported as started or ready only on the word of its
\* own probe, though UpdatePodStatus asks for it in four reads while workers
\* are added, stopped and end.
THEOREM HealthSafe == Spec => []HealthIsEarned
<1>1. ProberIInv => HealthIsEarned
  BY DEF ProberIInv
<1> QED
  BY <1>1, Invariance, PTL

\* No result outlives its worker or belongs to another container than the
\* worker's.
THEOREM ResultsSafe == Spec => []ResultsHaveWorkers
<1>1. ProberIInv => ResultsHaveWorkers
  BY DEF ProberIInv, WorkerOK, ResultsHaveWorkers
<1> QED
  BY <1>1, Invariance, PTL

=============================================================================
