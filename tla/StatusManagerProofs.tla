------------------------- MODULE StatusManagerProofs -------------------------
(***************************************************************************)
(* Proofs about StatusManager: its variables keep their types, the sync    *)
(* thread never touches the pod that replaced the one it works for nor a   *)
(* condition of another writer, statuses reach the API server in order,    *)
(* and a terminated container that is not restarted stays terminated.      *)
(***************************************************************************)
EXTENDS StatusManager, TLAPS

-----------------------------------------------------------------------------
(* The statuses that are computed are statuses *)

LEMMA GeneratedType ==
  ASSUME NEW pod \in Pod, NEW cached \in Versioned, NEW c \in Container
  PROVE  GenerateAPIPodStatus(pod, cached, c) \in PodStatus
<1> DEFINE old == IF cached.version = 0 THEN pod.status ELSE cached.status
           phase == NextPhase(old.phase, pod.status.phase, GetPhase(c))
<1>1. pod.status \in PodStatus /\ cached.status \in PodStatus
  BY DEF Pod, Versioned
<1>2. old \in PodStatus
  BY <1>1
<1>3. GetPhase(c) \in Phases
  BY DEF GetPhase, Phases
<1>4. old.phase \in Phases /\ pod.status.phase \in Phases /\ pod.status.gate \in BOOLEAN
  BY <1>1, <1>2 DEF PodStatus
<1>5. phase \in Phases
  BY <1>3, <1>4 DEF NextPhase
<1>6. GeneratePodReadyCondition(c, phase, pod.status.gate) \in BOOLEAN
  BY <1>4 DEF GeneratePodReadyCondition, IsTerminalPhase
<1> HIDE DEF phase
<1>7. QED
  BY <1>4, <1>5, <1>6 DEF GenerateAPIPodStatus, PodStatus, phase

LEMMA MergedType ==
  ASSUME NEW old \in PodStatus, NEW new \in PodStatus, NEW b \in BOOLEAN
  PROVE  MergePodStatus(old, new, b) \in PodStatus
<1> DEFINE delayed == /\ ~IsTerminalPhase(old.phase) /\ IsTerminalPhase(new.phase)
                      /\ b
           phase == IF delayed THEN old.phase ELSE new.phase
           cond == new.cond /\ ~IsTerminalPhase(phase)
<1>1. phase \in Phases
  BY DEF PodStatus
<1>2. cond \in BOOLEAN
  OBVIOUS
<1> HIDE DEF phase, cond
<1>3. [new EXCEPT !.phase = phase, !.gate = old.gate, !.cond = cond] \in PodStatus
  BY <1>1, <1>2 DEF PodStatus
<1>4. QED
  BY <1>3 DEF MergePodStatus, phase, cond

LEMMA PatchedType ==
  ASSUME NEW current \in PodStatus, NEW got \in PodStatus, NEW merged \in PodStatus
  PROVE  Patched(current, got, merged) \in PodStatus
BY DEF Patched, Field, PodStatus

LEMMA NoneType == NoPod \in Pod /\ NotCached \in Versioned /\ NoStatus \in PodStatus
BY DEF NoPod, Pod, NotCached, Versioned, NoStatus, PodStatus, Phases, Container,
       ContainerStates

-----------------------------------------------------------------------------
(* Writing the cache *)

CacheType ==
  /\ podStatuses \in [UIDs -> Versioned]
  /\ podStatusChannel \in Seq(SyncRequest)
  /\ Len(podStatusChannel) <= ChannelCap

LEMMA SendType ==
  ASSUME NEW ch \in Seq(SyncRequest), Len(ch) <= ChannelCap, NEW r \in SyncRequest
  PROVE  Send(ch, r) \in Seq(SyncRequest) /\ Len(Send(ch, r)) <= ChannelCap
<1>1. ChannelCap \in Nat
  BY BoundsAssumption
<1>2. CASE Len(ch) < ChannelCap
  <2>1. Append(ch, r) \in Seq(SyncRequest) /\ Len(Append(ch, r)) = Len(ch) + 1
    OBVIOUS
  <2>2. Len(ch) + 1 <= ChannelCap
    BY <1>1, <1>2
  <2>3. QED
    BY <1>2, <2>1, <2>2 DEF Send
<1>3. CASE ~(Len(ch) < ChannelCap)
  BY <1>3 DEF Send
<1>4. QED
  BY <1>2, <1>3

LEMMA UpdateType ==
  ASSUME CacheType, NEW u \in UIDs, NEW pod \in Pod, pod.uid = u,
         NEW s \in PodStatus, NEW force \in BOOLEAN,
         UpdateStatusInternal(pod, s, force)
  PROVE  CacheType'
<1> DEFINE new == [status |-> s, version |-> podStatuses[u].version + 1]
           r == [uid |-> u, status |-> s, version |-> new.version]
<1>1. podStatuses[u].version + 1 \in Nat
  BY DEF CacheType, Versioned
<1>2. new \in Versioned /\ r \in SyncRequest
  BY <1>1 DEF Versioned, SyncRequest
<1>3. \/ /\ podStatuses' = [podStatuses EXCEPT ![u] = new]
         /\ podStatusChannel' = Send(podStatusChannel, r)
      \/ UNCHANGED <<podStatuses, podStatusChannel>>
  BY DEF UpdateStatusInternal
<1> HIDE DEF new, r
<1>4. CASE /\ podStatuses' = [podStatuses EXCEPT ![u] = new]
           /\ podStatusChannel' = Send(podStatusChannel, r)
  BY <1>2, <1>4, SendType DEF CacheType
<1>5. CASE UNCHANGED <<podStatuses, podStatusChannel>>
  BY <1>5 DEF CacheType
<1>6. QED
  BY <1>3, <1>4, <1>5

\* A pod is stored under its own UID.
Keyed(f) == \A u \in UIDs : f[u] = NoPod \/ f[u].uid = u

\* TypeOK, and the facts on UIDs that the code's lookups rely on: an object is
\* kept under its own UID, a status is computed for a pod that the worker
\* holds, and the sync thread carries the object of
\* the pod that its request names.
Inv ==
  /\ TypeOK
  /\ Keyed(podManager)
  /\ Keyed(held)
  /\ \A u \in UIDs : computed[u] # <<>> => held[u] # NoPod
                                        /\ computed[u].container.state # "none"
  /\ thread.pc \in {"patch", "delete"} =>
       thread.req \in SyncRequest /\ thread.pod.uid = thread.req.uid

LEMMA CallType ==
  ASSUME Inv, Calls, CacheType'
  PROVE  Inv'
<1>1. updates' \in Nat
  BY DEF Inv, TypeOK, Calls, MayUpdate
<1>2. UNCHANGED <<apiStatusVersions, thread, api, faults, written, acked, podManager,
                  held, used, computed>>
  BY DEF Calls, othersVars, history
<1>3. TypeOK'
  BY <1>1, <1>2 DEF Inv, TypeOK, CacheType
<1>4. QED
  BY <1>2, <1>3 DEF Inv, Keyed

LEMMA CallsInv ==
  ASSUME Inv, NEW u \in UIDs, NEW b \in BOOLEAN,
         \/ SetPodStatus(u) \/ SetContainerReadiness(u, b)
         \/ SetContainerStartup(u, b) \/ TerminatePod(u)
  PROVE  Inv'
<1>1. CacheType /\ held[u] \in Pod /\ podManager[u] \in Pod /\ podStatuses[u] \in Versioned
  BY DEF Inv, TypeOK, CacheType
<1>2. podStatuses[u].status \in PodStatus /\ held[u].status \in PodStatus
  BY <1>1 DEF Versioned, Pod
<1>3. CASE SetPodStatus(u)
  <2>1. held[u].uid = u /\ computed[u] # <<>>
    BY <1>3 DEF SetPodStatus, Inv, Keyed
  <2>2. computed[u] \in PodStatus /\ held[u].deletion \in BOOLEAN
    BY <1>1, <2>1 DEF Inv, TypeOK, Pod
  <2>3. UpdateStatusInternal(held[u], computed[u], held[u].deletion)
    BY <1>3 DEF SetPodStatus
  <2>4. CacheType'
    BY <1>1, <2>1, <2>2, <2>3, UpdateType
  <2>5. computed' = [computed EXCEPT ![u] = <<>>]
        /\ UNCHANGED <<updates, apiStatusVersions, thread, api, faults, written, acked,
                       podManager, held, used>>
    BY <1>3 DEF SetPodStatus, othersVars, history
  <2>6. TypeOK'
    BY <2>4, <2>5 DEF Inv, TypeOK, CacheType
  <2>7. \A v \in UIDs : computed'[v] # <<>> => computed'[v] = computed[v]
    BY <2>5 DEF Inv, TypeOK
  <2>8. QED
    BY <2>5, <2>6, <2>7 DEF Inv, Keyed
<1>4. CASE SetContainerReadiness(u, b)
  <2> DEFINE s == podStatuses[u].status
             c == [s.container EXCEPT !.ready = b]
             cond == GeneratePodReadyCondition(c, s.phase, s.gate)
             new == [s EXCEPT !.container = c, !.cond = cond]
  <2>1. podManager[u].uid = u
    BY <1>4 DEF SetContainerReadiness, Probed, Inv, Keyed
  <2>2. s.container \in Container
    BY <1>2 DEF PodStatus
  <2>3. c \in Container
    BY <2>2 DEF Container
  <2>4. c.ready \in BOOLEAN /\ s.gate \in BOOLEAN
    BY <1>2, <2>3 DEF Container, PodStatus
  <2>5. cond \in BOOLEAN
    BY <2>4 DEF GeneratePodReadyCondition
  <2>6. UpdateStatusInternal(podManager[u], new, FALSE) /\ Calls
    BY <1>4 DEF SetContainerReadiness
  <2> HIDE DEF c, cond
  <2>7. new \in PodStatus
    BY <1>2, <2>3, <2>5 DEF PodStatus
  <2> HIDE DEF new
  <2>8. CacheType'
    BY <1>1, <2>1, <2>6, <2>7, UpdateType
  <2>9. QED
    BY <2>6, <2>8, CallType
<1>5. CASE SetContainerStartup(u, b)
  <2> DEFINE s == podStatuses[u].status
             new == [s EXCEPT !.container.started = b]
  <2>1. podManager[u].uid = u
    BY <1>5 DEF SetContainerStartup, Probed, Inv, Keyed
  <2>2. UpdateStatusInternal(podManager[u], new, FALSE) /\ Calls
    BY <1>5 DEF SetContainerStartup
  <2>3. new \in PodStatus
    BY <1>2 DEF PodStatus, Container
  <2> HIDE DEF new
  <2>4. CacheType'
    BY <1>1, <2>1, <2>2, <2>3, UpdateType
  <2>5. QED
    BY <2>2, <2>4, CallType
<1>6. CASE TerminatePod(u)
  <2> DEFINE s == IF podStatuses[u].version = 0 THEN held[u].status
                                                ELSE podStatuses[u].status
             c == IF s.container.state = "none" \/ IsTerminated(s.container)
                  THEN s.container
                  ELSE [s.container EXCEPT !.state = "failed"]
             new == [s EXCEPT !.container = c]
  <2>1. held[u].uid = u
    BY <1>6 DEF TerminatePod, Syncs, Inv, Keyed
  <2>2. UpdateStatusInternal(held[u], new, TRUE) /\ Calls
    BY <1>6 DEF TerminatePod
  <2>3. s \in PodStatus
    BY <1>2
  <2> HIDE DEF s
  <2>4. s.container \in Container
    BY <2>3 DEF PodStatus
  <2>5. c \in Container
    BY <2>4 DEF Container, ContainerStates
  <2> HIDE DEF c
  <2>6. new \in PodStatus
    BY <2>3, <2>5 DEF PodStatus
  <2> HIDE DEF new
  <2>7. CacheType'
    BY <1>1, <2>1, <2>2, <2>6, UpdateType
  <2>8. QED
    BY <2>2, <2>7, CallType
<1>7. QED
  BY <1>3, <1>4, <1>5, <1>6

LEMMA ComputeInv == ASSUME Inv, NEW u \in UIDs, ComputePodStatus(u) PROVE Inv'
<1>1. held[u] \in Pod /\ podStatuses[u] \in Versioned
  BY DEF Inv, TypeOK
<1>2. PICK c \in Runtime :
        computed' = [computed EXCEPT
                       ![u] = GenerateAPIPodStatus(held[u], podStatuses[u], c)]
  BY DEF ComputePodStatus
<1> DEFINE s == GenerateAPIPodStatus(held[u], podStatuses[u], c)
<1>3. c \in Container /\ c.state # "none"
  BY InputsAssumption
<1>4. s \in PodStatus /\ s.container = c
  BY <1>1, <1>3, GeneratedType DEF GenerateAPIPodStatus
<1> HIDE DEF s
<1>5. /\ updates' \in Nat /\ held[u] # NoPod
      /\ UNCHANGED <<podStatuses, podStatusChannel, apiStatusVersions, thread, api,
                     faults, written, acked, podManager, held, used>>
  BY DEF ComputePodStatus, Syncs, MayUpdate, othersVars, history, Inv, TypeOK
<1>6. computed' \in [UIDs -> PodStatus \cup {<<>>}]
  BY <1>2, <1>4 DEF Inv, TypeOK, s
<1>7. TypeOK'
  BY <1>5, <1>6 DEF Inv, TypeOK
<1>8. \A v \in UIDs : computed'[v] = computed[v] \/ (v = u /\ computed'[v] = s)
  BY <1>2 DEF Inv, TypeOK, s
<1>9. QED
  BY <1>3, <1>4, <1>5, <1>7, <1>8 DEF Inv, Keyed

-----------------------------------------------------------------------------
(* The sync thread *)

LEMMA IdleType == Idle \in InFlight
BY NoneType DEF Idle, InFlight, PCs

LEMMA QueuedType ==
  ASSUME NEW q \in SUBSET SyncRequest
  PROVE  /\ [Idle EXCEPT !.pc = "sync", !.queue = q] \in InFlight
         /\ [Idle EXCEPT !.pc = "sync", !.queue = q].pc = "sync"
BY IdleType DEF Idle, InFlight, PCs

LEMMA ReturnType ==
  ASSUME thread \in InFlight, NEW r, Return(r)
  PROVE  thread' \in InFlight /\ thread'.pc \in {"select", "sync"}
<1> DEFINE rest == thread.queue \ {r}
<1>1. rest \in SUBSET SyncRequest
  BY DEF InFlight
<1>2. thread' = Idle \/ thread' = [Idle EXCEPT !.pc = "sync", !.queue = rest]
  BY DEF Return
<1>3. Idle.pc = "select"
  BY DEF Idle
<1> HIDE DEF rest
<1>4. QED
  BY <1>1, <1>2, <1>3, IdleType, QueuedType

LEMMA RequestType ==
  ASSUME TypeOK, NEW u \in UIDs
  PROVE  Request(u) \in SyncRequest
<1>1. podStatuses[u] \in Versioned
  BY DEF TypeOK
<1>2. QED
  BY <1>1 DEF Request, SyncRequest, Versioned

LEMMA TakeRequestInv == ASSUME Inv, TakeRequest PROVE Inv'
<1>1. podStatusChannel \in Seq(SyncRequest) /\ podStatusChannel # <<>>
  BY DEF Inv, TypeOK, TakeRequest
<1>2. /\ Head(podStatusChannel) \in SyncRequest
      /\ Tail(podStatusChannel) \in Seq(SyncRequest)
      /\ Len(Tail(podStatusChannel)) = Len(podStatusChannel) - 1
      /\ Len(podStatusChannel) \in Nat
  BY <1>1
<1>3. Len(podStatusChannel) <= ChannelCap /\ ChannelCap \in Nat
  BY BoundsAssumption DEF Inv, TypeOK
<1>4. Len(Tail(podStatusChannel)) <= ChannelCap
  BY <1>2, <1>3
<1>5. thread' \in InFlight /\ thread'.pc = "sync"
  BY <1>2, QueuedType DEF TakeRequest
<1>6. podStatusChannel' = Tail(podStatusChannel)
  BY DEF TakeRequest
<1>7. UNCHANGED <<podStatuses, updates, apiStatusVersions, api, faults, written, acked,
                  podManager, held, used, computed>>
  BY DEF TakeRequest, envVars, history
<1>8. QED
  BY <1>2, <1>4, <1>5, <1>6, <1>7 DEF Inv, TypeOK, Keyed

LEMMA DrainInv == ASSUME Inv, Drain PROVE Inv'
<1>1. thread' \in InFlight /\ thread'.pc = "drained"
  BY IdleType DEF Drain, Idle, InFlight, PCs
<1>2. podStatusChannel' = <<>>
  BY DEF Drain
<1>3. podStatusChannel' \in Seq(SyncRequest) /\ Len(podStatusChannel') = 0
  BY <1>2
<1>4. 0 <= ChannelCap
  BY BoundsAssumption
<1>5. UNCHANGED <<podStatuses, updates, apiStatusVersions, api, faults, written, acked,
                  podManager, held, used, computed>>
  BY DEF Drain, envVars, history
<1>6. Len(podStatusChannel') <= ChannelCap
  BY <1>3, <1>4
<1>7. QED
  BY <1>1, <1>3, <1>5, <1>6 DEF Inv, TypeOK, Keyed

LEMMA SyncBatchInv == ASSUME Inv, SyncBatch PROVE Inv'
<1> DEFINE updated == {u \in UIDs : /\ ~Orphaned(u)
                                    /\ \/ NeedsUpdate(u, podStatuses[u])
                                       \/ Forced(u)}
           q == {Request(u) : u \in updated}
<1>1. q \in SUBSET SyncRequest
  BY RequestType DEF Inv
<1>2. thread' = Idle \/ thread' = [Idle EXCEPT !.pc = "sync", !.queue = q]
  BY DEF SyncBatch
<1>3. apiStatusVersions' \in [UIDs -> Nat]
  BY DEF SyncBatch, Inv, TypeOK
<1> HIDE DEF q
<1>4. thread' \in InFlight /\ thread'.pc \in {"select", "sync"}
  <2>1. Idle.pc = "select"
    BY DEF Idle
  <2>2. QED
    BY <1>1, <1>2, <2>1, IdleType, QueuedType
<1>5. UNCHANGED <<api, faults, written, acked, podStatuses, podStatusChannel, updates,
                  podManager, held, used, computed>>
  BY DEF SyncBatch, cacheVars, envVars, history
<1>6. QED
  BY <1>3, <1>4, <1>5 DEF Inv, TypeOK, Keyed

LEMMA FaultsType ==
  ASSUME TypeOK, Fails \/ UNCHANGED faults
  PROVE  faults' \in Nat
BY DEF Fails, TypeOK

LEMMA DeleteStatusType ==
  ASSUME TypeOK, NEW u \in UIDs, DeletePodStatus(u)
  PROVE  podStatuses' \in [UIDs -> Versioned]
BY NoneType DEF TypeOK, DeletePodStatus

LEMMA SyncPodInv == ASSUME Inv, SyncPod PROVE Inv'
<1>1. PICK r \in thread.queue : SkipUpToDate(r) \/ GetFails(r) \/ GetReplaced(r) \/ GetOK(r)
  BY DEF SyncPod
<1>2. thread \in InFlight /\ TypeOK
  BY DEF Inv, TypeOK
<1>3. r \in SyncRequest
  BY <1>2 DEF InFlight
<1>4. r.uid \in UIDs /\ NameOf[r.uid] \in Names
  BY <1>3, PodsAssumption DEF SyncRequest
<1>5. CASE SkipUpToDate(r) \/ GetFails(r)
  <2>1. Return(r) /\ (Fails \/ UNCHANGED faults)
    BY <1>5 DEF SkipUpToDate, GetFails
  <2>2. UNCHANGED <<apiStatusVersions, api, written, acked, podStatuses, podStatusChannel,
                    updates, podManager, held, used, computed>>
    BY <1>5 DEF SkipUpToDate, GetFails, cacheVars, envVars, history
  <2>3. thread' \in InFlight /\ thread'.pc \in {"select", "sync"} /\ faults' \in Nat
    BY <1>2, <2>1, ReturnType, FaultsType
  <2>4. QED
    BY <2>2, <2>3 DEF Inv, TypeOK, Keyed
<1>6. CASE GetReplaced(r)
  <2>1. Return(r) /\ DeletePodStatus(r.uid)
    BY <1>6 DEF GetReplaced
  <2>2. UNCHANGED <<podStatusChannel, updates, apiStatusVersions, api, faults,
                    written, acked, podManager, held, used, computed>>
    BY <1>6 DEF GetReplaced, envVars, history
  <2>3. thread' \in InFlight /\ thread'.pc \in {"select", "sync"}
    BY <1>2, <2>1, ReturnType
  <2>4. podStatuses' \in [UIDs -> Versioned]
    BY <1>2, <1>4, <2>1, DeleteStatusType
  <2>5. QED
    BY <2>2, <2>3, <2>4 DEF Inv, TypeOK, Keyed
<1>7. CASE GetOK(r)
  <2> DEFINE pod == api[NameOf[r.uid]]
  <2>1. /\ thread' = [thread EXCEPT !.pc = "patch", !.req = r, !.pod = pod]
        /\ pod.uid = r.uid
    BY <1>7 DEF GetOK, IsReplaced
  <2>2. UNCHANGED <<apiStatusVersions, api, faults, written, acked, podStatuses,
                    podStatusChannel, updates, podManager, held, used, computed>>
    BY <1>7 DEF GetOK, cacheVars, envVars, history
  <2>3. pod \in Pod
    BY <1>2, <1>4 DEF TypeOK
  <2> HIDE DEF pod
  <2>4. thread' \in InFlight /\ thread'.req = r /\ thread'.pod = pod
    BY <1>2, <1>3, <2>1, <2>3 DEF InFlight, PCs
  <2>5. QED
    BY <1>3, <2>1, <2>2, <2>4 DEF Inv, TypeOK, Keyed
<1>8. QED
  BY <1>1, <1>5, <1>6, <1>7

\* What the thread does once the API server has accepted a status, or the
\* status needed no write.
LEMMA AcceptedType ==
  ASSUME TypeOK, thread.pc = "patch", thread.req \in SyncRequest,
         NEW pod \in Pod, pod.uid = thread.req.uid, Accepted(pod)
  PROVE  /\ apiStatusVersions' \in [UIDs -> Nat] /\ acked' \in [UIDs -> Nat]
         /\ thread' \in InFlight
         /\ thread'.pc \in {"patch", "delete"} =>
              thread'.req \in SyncRequest /\ thread'.pod.uid = thread'.req.uid
<1>1. thread \in InFlight
  BY DEF TypeOK
<1>2. thread.req.version \in Nat /\ thread.req.uid \in UIDs
  BY DEF SyncRequest
<1>3. apiStatusVersions' \in [UIDs -> Nat] /\ acked' \in [UIDs -> Nat]
  BY <1>2 DEF Accepted, TypeOK
<1>4. CASE thread' = [thread EXCEPT !.pc = "delete", !.pod = pod]
  <2>1. thread' \in InFlight /\ thread'.pod = pod /\ thread'.req = thread.req
    BY <1>1, <1>4 DEF InFlight, PCs
  <2>2. QED
    BY <1>3, <2>1
<1>5. CASE Return(thread.req)
  BY <1>1, <1>3, <1>5, ReturnType
<1>6. QED
  BY <1>4, <1>5 DEF Accepted

LEMMA RefusedType ==
  ASSUME TypeOK, Refused
  PROVE  /\ apiStatusVersions' \in [UIDs -> Nat] /\ acked' \in [UIDs -> Nat]
         /\ thread' \in InFlight /\ thread'.pc \in {"select", "sync"}
<1>1. apiStatusVersions' \in [UIDs -> Nat] /\ acked' \in [UIDs -> Nat]
  BY DEF TypeOK, Refused
<1>2. thread \in InFlight /\ Return(thread.req)
  BY DEF TypeOK, Refused
<1>3. QED
  BY <1>1, <1>2, ReturnType

LEMMA PatchInv == ASSUME Inv, Patch PROVE Inv'
<1> DEFINE r == thread.req
           got == thread.pod
           n == NameOf[r.uid]
           merged == MergePodStatus(got.status, r.status,
                                    PodCouldHaveRunningContainers(got))
           st == Patched(api[n].status, got.status, merged)
           new == [api[n] EXCEPT !.status = st]
<1>1. TypeOK /\ thread \in InFlight /\ thread.pc = "patch"
  BY DEF Inv, TypeOK, Patch
<1>2. r \in SyncRequest /\ got \in Pod /\ got.uid = r.uid
  BY <1>1 DEF Inv, InFlight
<1>3. r.uid \in UIDs /\ n \in Names /\ r.version \in Nat /\ r.status \in PodStatus
  BY <1>2, PodsAssumption DEF SyncRequest
<1>4. got.status \in PodStatus /\ api[n] \in Pod
  BY <1>1, <1>2, <1>3 DEF Pod, TypeOK
<1>5. api[n].status \in PodStatus
  BY <1>4 DEF Pod
<1>6. merged \in PodStatus
  BY <1>3, <1>4, MergedType DEF PodCouldHaveRunningContainers
<1>7. UNCHANGED <<podStatuses, podStatusChannel, updates, podManager, held, used, computed>>
  BY DEF Patch, cacheVars, envVars, history
<1>8. \/ /\ Accepted(got)
         /\ UNCHANGED <<api, faults>>
         /\ written' = [written EXCEPT ![got.uid] = r.version]
      \/ /\ api[n].uid = got.uid
         /\ api' = [api EXCEPT ![n] = new]
         /\ (Accepted(new) /\ UNCHANGED faults) \/ (Refused /\ Fails)
         /\ written' = [written EXCEPT ![got.uid] = r.version]
      \/ /\ Fails \/ UNCHANGED faults
         /\ Refused
         /\ UNCHANGED <<api, written>>
  BY DEF Patch
<1> HIDE DEF merged
<1>9. st \in PodStatus
  BY <1>4, <1>5, <1>6, PatchedType
<1> HIDE DEF st
<1>10. new \in Pod /\ new.uid = api[n].uid
  BY <1>4, <1>9 DEF Pod
<1> HIDE DEF new, n, r, got
<1>11. CASE /\ Accepted(got)
            /\ UNCHANGED <<api, faults>>
            /\ written' = [written EXCEPT ![got.uid] = r.version]
  <2>1. /\ apiStatusVersions' \in [UIDs -> Nat] /\ acked' \in [UIDs -> Nat]
        /\ thread' \in InFlight
        /\ thread'.pc \in {"patch", "delete"} =>
             thread'.req \in SyncRequest /\ thread'.pod.uid = thread'.req.uid
    BY <1>1, <1>2, <1>11, AcceptedType DEF r
  <2>2. written' \in [UIDs -> Nat]
    BY <1>1, <1>2, <1>3, <1>11 DEF TypeOK
  <2>3. QED
    BY <1>7, <1>11, <2>1, <2>2 DEF Inv, TypeOK, Keyed
<1>12. CASE /\ api[n].uid = got.uid
            /\ api' = [api EXCEPT ![n] = new]
            /\ (Accepted(new) /\ UNCHANGED faults) \/ (Refused /\ Fails)
            /\ written' = [written EXCEPT ![got.uid] = r.version]
  <2>1. /\ apiStatusVersions' \in [UIDs -> Nat] /\ acked' \in [UIDs -> Nat]
        /\ thread' \in InFlight /\ faults' \in Nat
        /\ thread'.pc \in {"patch", "delete"} =>
             thread'.req \in SyncRequest /\ thread'.pod.uid = thread'.req.uid
    <3>1. new.uid = thread.req.uid /\ thread.req \in SyncRequest
      BY <1>2, <1>10, <1>12 DEF r
    <3>2. CASE Accepted(new) /\ UNCHANGED faults
      <4>1. faults' \in Nat
        BY <1>1, <3>2 DEF TypeOK
      <4>2. QED
        BY <1>1, <1>10, <3>1, <3>2, <4>1, AcceptedType
    <3>3. CASE Refused /\ Fails
      BY <1>1, <3>3, RefusedType, FaultsType
    <3>4. QED
      BY <1>12, <3>2, <3>3
  <2>2. written' \in [UIDs -> Nat]
    BY <1>1, <1>2, <1>3, <1>12 DEF TypeOK
  <2>3. api' \in [Names -> Pod]
    BY <1>1, <1>3, <1>10, <1>12 DEF TypeOK
  <2>4. QED
    BY <1>7, <1>12, <2>1, <2>2, <2>3 DEF Inv, TypeOK, Keyed
<1>13. CASE /\ Fails \/ UNCHANGED faults
            /\ Refused
            /\ UNCHANGED <<api, written>>
  <2>1. /\ apiStatusVersions' \in [UIDs -> Nat] /\ acked' \in [UIDs -> Nat]
        /\ thread' \in InFlight /\ thread'.pc \in {"select", "sync"}
    BY <1>1, <1>13, RefusedType
  <2>3. faults' \in Nat
    BY <1>1, <1>13, FaultsType
  <2>2. QED
    BY <1>7, <1>13, <2>1, <2>3 DEF Inv, TypeOK, Keyed
<1>14. QED
  BY <1>8, <1>11, <1>12, <1>13

LEMMA DeleteInv == ASSUME Inv, Delete PROVE Inv'
<1>1. TypeOK /\ thread \in InFlight /\ thread.req \in SyncRequest
  BY DEF Inv, TypeOK, Delete
<1>2. thread.req.uid \in UIDs
  BY <1>1 DEF SyncRequest
<1>3. /\ Return(thread.req)
      /\ Fails \/ UNCHANGED faults
      /\ DeletePodStatus(thread.req.uid) \/ UNCHANGED podStatuses
      /\ \/ api' = [api EXCEPT ![NameOf[thread.req.uid]] = NoPod]
         \/ UNCHANGED api
  BY DEF Delete
<1>4. UNCHANGED <<podStatusChannel, updates, apiStatusVersions, written, acked, podManager,
                  held, used, computed>>
  BY DEF Delete, envVars, history
<1>5. thread' \in InFlight /\ thread'.pc \in {"select", "sync"} /\ faults' \in Nat
  BY <1>1, <1>3, ReturnType, FaultsType
<1>6. podStatuses' \in [UIDs -> Versioned]
  <2>1. CASE DeletePodStatus(thread.req.uid)
    BY <1>1, <1>2, <2>1, DeleteStatusType
  <2>2. CASE UNCHANGED podStatuses
    BY <1>1, <2>2 DEF TypeOK
  <2>3. QED
    BY <1>3, <2>1, <2>2
<1>7. api' \in [Names -> Pod]
  BY <1>1, <1>3, NoneType DEF TypeOK
<1>8. QED
  BY <1>4, <1>5, <1>6, <1>7 DEF Inv, TypeOK, Keyed

-----------------------------------------------------------------------------
(* The environment *)

Handles(u) == \/ HandlePodAdd(u) \/ HandlePodUpdate(u)
              \/ HandlePodDelete(u) \/ HandlePodRemove(u)

LEMMA EnvInv ==
  ASSUME Inv, NEW u \in UIDs,
         RemoveOrphanedStatuses \/ ApiCreate(u) \/ Handles(u) \/ WorkerTakes(u)
  PROVE  Inv'
<1>1. TypeOK /\ NameOf[u] \in Names /\ api[NameOf[u]] \in Pod
  BY PodsAssumption DEF Inv, TypeOK
<1>2. CASE RemoveOrphanedStatuses
  <2>1. podStatuses' \in [UIDs -> Versioned]
    BY <1>1, <1>2, NoneType DEF RemoveOrphanedStatuses, TypeOK
  <2>2. QED
    BY <1>2, <2>1 DEF RemoveOrphanedStatuses, othersVars, history, Inv, TypeOK, Keyed
<1>3. CASE ApiCreate(u)
  <2>1. PICK s \in Created :
          api' = [api EXCEPT ![NameOf[u]] = [uid |-> u, deletion |-> FALSE, status |-> s]]
    BY <1>3 DEF ApiCreate
  <2>2. [uid |-> u, deletion |-> FALSE, status |-> s] \in Pod
    BY InputsAssumption DEF Pod
  <2>3. api' \in [Names -> Pod] /\ used' \subseteq UIDs
    BY <1>1, <1>3, <2>1, <2>2 DEF ApiCreate, TypeOK
  <2>4. QED
    BY <1>3, <2>3 DEF ApiCreate, kubeletVars, history, Inv, TypeOK, Keyed
<1>4. CASE Handles(u)
  <2>1. Shown(u) \in Pod /\ (Shown(u) = NoPod \/ Shown(u).uid = u)
    BY <1>1, NoneType DEF Shown
  <2>2. Handle(u)
    BY <1>4 DEF Handles, HandlePodAdd, HandlePodUpdate, HandlePodDelete, HandlePodRemove
  <2>3. podManager' = [podManager EXCEPT ![u] = Shown(u)]
    BY <2>2 DEF Handle
  <2>4. podManager' \in [UIDs -> Pod] /\ Keyed(podManager)'
    BY <2>1, <2>3 DEF Inv, TypeOK, Keyed
  <2>5. QED
    BY <2>2, <2>4 DEF Handle, kubeletVars, history, Inv, TypeOK, Keyed
<1>5. CASE WorkerTakes(u)
  <2>1. held' = [held EXCEPT ![u] = podManager[u]]
    BY <1>5 DEF WorkerTakes
  <2>2. held' \in [UIDs -> Pod] /\ Keyed(held)'
    BY <2>1 DEF Inv, TypeOK, Keyed
  <2>3. QED
    BY <1>5, <2>2 DEF WorkerTakes, kubeletVars, history, Inv, TypeOK, Keyed
<1>6. QED
  BY <1>2, <1>3, <1>4, <1>5

LEMMA ApiInv ==
  ASSUME Inv, NEW n \in Names, ApiDelete(n) \/ ApiGate(n) \/ ApiNotReady(n)
  PROVE  Inv'
<1>0. TypeOK /\ api[n] \in Pod
  BY DEF Inv, TypeOK
<1>1. \E pod \in Pod : api' = [api EXCEPT ![n] = pod]
  <2>1. [api[n] EXCEPT !.deletion = TRUE] \in Pod
    BY <1>0 DEF Pod
  <2>2. [api[n] EXCEPT !.status.gate = TRUE] \in Pod
    BY <1>0 DEF Pod, PodStatus
  <2>3. [api[n] EXCEPT !.status.cond = FALSE] \in Pod
    BY <1>0 DEF Pod, PodStatus
  <2>4. CASE ApiDelete(n)
    BY <1>0, <2>1, <2>4, NoneType DEF ApiDelete, TypeOK
  <2>5. CASE ApiGate(n)
    BY <1>0, <2>2, <2>5 DEF ApiGate, TypeOK
  <2>6. CASE ApiNotReady(n)
    BY <1>0, <2>3, <2>6 DEF ApiNotReady, TypeOK
  <2>7. QED
    BY <2>4, <2>5, <2>6
<1>2. api' \in [Names -> Pod]
  BY <1>0, <1>1 DEF TypeOK
<1>3. updates' \in Nat
  BY <1>0 DEF ApiDelete, ApiGate, ApiNotReady, kubeletVars, history, TypeOK
<1>4. UNCHANGED <<podStatuses, podStatusChannel, apiStatusVersions, thread, faults,
                  written, acked, podManager, held, used, computed>>
  BY DEF ApiDelete, ApiGate, ApiNotReady, kubeletVars, envVars, history
<1>5. QED
  BY <1>2, <1>3, <1>4 DEF Inv, TypeOK, Keyed

-----------------------------------------------------------------------------
(* The theorems *)

LEMMA InitInv == ASSUME Init PROVE Inv
<1>1. TypeOK
  BY NoneType, IdleType, BoundsAssumption DEF Init, TypeOK
<1>2. Keyed(podManager) /\ Keyed(held) /\ \A u \in UIDs : computed[u] = <<>>
  BY DEF Init, Keyed
<1>3. thread.pc = "select"
  BY DEF Init, Idle
<1>4. QED
  BY <1>1, <1>2, <1>3 DEF Inv

LEMMA NextInv == ASSUME Inv, [Next]_vars PROVE Inv'
<1>1. CASE Thread
  BY <1>1, TakeRequestInv, DrainInv, SyncBatchInv, SyncPodInv, PatchInv, DeleteInv
     DEF Thread
<1>2. CASE RemoveOrphanedStatuses
  <2>1. \E u \in UIDs : TRUE
    BY <1>2 DEF RemoveOrphanedStatuses
  <2>2. QED
    BY <1>2, <2>1, EnvInv
<1>3. ASSUME NEW u \in UIDs, NEW b \in BOOLEAN,
             \/ SetPodStatus(u) \/ SetContainerReadiness(u, b)
             \/ SetContainerStartup(u, b) \/ TerminatePod(u)
      PROVE  Inv'
  BY <1>3, CallsInv
<1>4. ASSUME NEW u \in UIDs, ApiCreate(u) \/ Handles(u) \/ WorkerTakes(u)
      PROVE  Inv'
  BY <1>4, EnvInv
<1>5. ASSUME NEW n \in Names, ApiDelete(n) \/ ApiGate(n) \/ ApiNotReady(n)
      PROVE  Inv'
  BY <1>5, ApiInv
<1>6. CASE UNCHANGED vars
  BY <1>6 DEF vars, Inv, TypeOK, Keyed
<1>7. ASSUME NEW u \in UIDs, ComputePodStatus(u) PROVE Inv'
  BY <1>7, ComputeInv
<1>8. QED
  BY <1>1, <1>2, <1>3, <1>4, <1>5, <1>6, <1>7 DEF Next, Handles

\* The status manager's variables keep their types, the channel never exceeds
\* its capacity, and the sync thread always carries the object of the pod that
\* its request names (syncPod).
THEOREM StatusInvariance == Spec => []Inv
<1>1. Init => Inv
  BY InitInv
<1>2. Inv /\ [Next]_vars => Inv'
  BY NextInv
<1>3. QED
  BY <1>1, <1>2, PTL DEF Spec

\* The type part of the above.
THEOREM StatusTypes == Spec => []TypeOK
<1>1. Inv => TypeOK
  BY DEF Inv
<1>2. QED
  BY <1>1, StatusInvariance, PTL

LEMMA StepSafe ==
  ASSUME Inv, [Next]_vars, thread' # thread, NEW n \in Names, api'[n] # api[n]
  PROVE  api[n].uid = thread.req.uid
<1>1. Thread
  BY DEF Next, vars, RemoveOrphanedStatuses, SetPodStatus, SetContainerReadiness,
         SetContainerStartup, TerminatePod, Calls, othersVars, ComputePodStatus,
         ApiCreate, Handle, HandlePodAdd, HandlePodUpdate, HandlePodDelete, HandlePodRemove, WorkerTakes,
         ApiDelete, ApiGate, ApiNotReady, kubeletVars, history
<1>2. Patch \/ Delete
  BY <1>1 DEF Thread, TakeRequest, Drain, SyncBatch, SyncPod, SkipUpToDate,
              GetFails, GetReplaced, GetOK
<1>3. thread.pod.uid = thread.req.uid
  BY <1>2 DEF Inv, Patch, Delete
<1>4. api \in [Names -> Pod]
  BY DEF Inv, TypeOK
<1>5. CASE Patch
  <2>1. PICK new : /\ api' = [api EXCEPT ![NameOf[thread.req.uid]] = new]
                   /\ api[NameOf[thread.req.uid]].uid = thread.pod.uid
    BY <1>5 DEF Patch
  <2>2. n = NameOf[thread.req.uid]
    BY <1>4, <2>1
  <2>3. QED
    BY <1>3, <2>1, <2>2
<1>6. CASE Delete
  <2>1. /\ api' = [api EXCEPT ![NameOf[thread.req.uid]] = NoPod]
        /\ api[NameOf[thread.req.uid]].uid = thread.pod.uid
    BY <1>6 DEF Delete, Deletes
  <2>2. n = NameOf[thread.req.uid]
    BY <1>4, <2>1
  <2>3. QED
    BY <1>3, <2>1, <2>2
<1>7. QED
  BY <1>2, <1>5, <1>6

\* However many pods come and go under one name, the sync thread never writes
\* to or deletes any but the pod whose status it carries.
THEOREM ReplacementSafe == Spec => NoWriteToReplacement
<1>1. Inv /\ [Next]_vars =>
        [thread' # thread =>
           \A n \in Names : api'[n] # api[n] => api[n].uid = thread.req.uid]_vars
  BY StepSafe
<1>2. QED
  BY <1>1, StatusInvariance, PTL DEF Spec, NoWriteToReplacement

-----------------------------------------------------------------------------
(* The order of reports                                                    *)
(*                                                                         *)
(* While the API server shows a pod that is not being deleted, the         *)
(* versions of what was acknowledged, recorded as sent, pending and cached *)
(* are in order, and so are the container states that they carry.          *)

Live(u) == Shown(u) # NoPod /\ ~Shown(u).deletion

InChannel == {podStatusChannel[i] : i \in DOMAIN podStatusChannel}

Pending(u) == {r \in InChannel \cup thread.queue : r.uid = u}

Term(s) == IsTerminated(s.container)

\* What the sync thread's position says of its local variables.
ThreadOK ==
  /\ thread.pc \in {"select", "drained"} => thread.queue = {}
  /\ thread.pc \in {"patch", "delete"} => thread.req \in thread.queue
  /\ thread.pc = "delete" => thread.pod.deletion

\* Nothing is known of a pod that has not been created.
UnusedOK(u) ==
  u \notin used =>
    /\ Shown(u) = NoPod
    /\ podManager[u] = NoPod
    /\ held[u] = NoPod
    /\ podStatuses[u].version = 0
    /\ apiStatusVersions[u] = 0
    /\ written[u] = 0 /\ acked[u] = 0
    /\ Pending(u) = {}

\* The kubelet has not seen a deletion that was not asked for, and nobody has
\* reported on a pod that it does not know.
KnownOK(u) ==
  Live(u) =>
    /\ ~podManager[u].deletion
    /\ podManager[u] = NoPod => held[u] = NoPod /\ podStatuses[u].version = 0

\* A request that is older than the last acknowledged write is recorded as
\* sent, so that needsUpdate skips it.  The record is only forgotten by
\* syncBatch, when the channel holds nothing that old.
VersionsOK(u) ==
  Live(u) =>
    /\ acked[u] <= written[u] /\ acked[u] <= podStatuses[u].version
    /\ apiStatusVersions[u] \in {0, acked[u]}
    /\ \A r \in Pending(u) :
         /\ 0 < r.version /\ r.version <= podStatuses[u].version
         /\ r.version < acked[u] => apiStatusVersions[u] = acked[u]
         /\ thread.pc = "drained" => acked[u] < r.version
    /\ thread.pc \in {"patch", "delete"} /\ thread.req.uid = u =>
         ~thread.pod.deletion /\ acked[u] <= thread.req.version

\* A later status carries a terminated container if an earlier one does, the
\* API server's status first, then the requests by version, then the cache.
TerminatedOK(u) ==
  Live(u) /\ Restart = "Never" =>
    /\ podStatuses[u].version = 0 =>
         \A pod \in {podManager[u], held[u]} \ {NoPod} :
           pod.status.container = Shown(u).status.container
    /\ podStatuses[u].version # 0 /\ Term(Shown(u).status) => Term(podStatuses[u].status)
    /\ \A r \in Pending(u) :
         /\ Term(r.status) => Term(podStatuses[u].status)
         /\ Term(podStatuses[u].status) /\ podStatuses[u].version <= r.version =>
              Term(r.status)
         /\ Term(Shown(u).status) /\ written[u] <= r.version => Term(r.status)
         /\ \A s \in Pending(u) :
              Term(r.status) /\ r.version <= s.version => Term(s.status)
    /\ thread.pc = "patch" /\ thread.req.uid = u =>
         thread.pod.status.container = Shown(u).status.container

PodOK(u) == UnusedOK(u) /\ KnownOK(u) /\ VersionsOK(u) /\ TerminatedOK(u)

OrderInv == ThreadOK /\ \A u \in UIDs : PodOK(u)

-----------------------------------------------------------------------------
(* What a step leaves alone *)

\* A pod that is still shown was shown before, with the same container.
ShownKept(u) ==
  Shown(u)' # NoPod =>
    /\ Shown(u) # NoPod
    /\ Shown(u).deletion => Shown(u)'.deletion
    /\ Shown(u)'.status.container = Shown(u).status.container

\* A step that does not work on pod u, but for dropping requests.
Frame(u) ==
  /\ ShownKept(u)
  /\ podManager'[u] = podManager[u]
  /\ held'[u] = held[u]
  /\ podStatuses'[u] = podStatuses[u]
  /\ apiStatusVersions'[u] = apiStatusVersions[u]
  /\ written'[u] = written[u] /\ acked'[u] = acked[u]
  /\ u \in used <=> u \in used'
  /\ Pending(u)' \subseteq Pending(u)
  /\ thread'.pc = "drained" => thread.pc = "drained" \/ Pending(u)' = {}
  /\ thread'.pc \in {"patch", "delete"} => UNCHANGED thread \/ thread'.req.uid # u

LEMMA FrameOK ==
  ASSUME NEW u \in UIDs, PodOK(u), Frame(u)
  PROVE  PodOK(u)'
<1>1. UnusedOK(u)'
  BY DEF PodOK, UnusedOK, Frame, ShownKept
<1>2. Live(u)' => Live(u) /\ Shown(u)'.status.container = Shown(u).status.container
  BY DEF Live, Frame, ShownKept
<1>3. KnownOK(u)'
  BY <1>2 DEF PodOK, KnownOK, Frame
<1>4. VersionsOK(u)'
  BY <1>2 DEF PodOK, VersionsOK, Frame
<1>5. TerminatedOK(u)'
  BY <1>2 DEF PodOK, TerminatedOK, Frame, Term
<1>6. QED
  BY <1>1, <1>3, <1>4, <1>5 DEF PodOK

\* A step after which nobody sees pod u, or sees it being deleted.
LEMMA DeadOK ==
  ASSUME NEW u \in UIDs, UnusedOK(u)', ~Live(u)'
  PROVE  PodOK(u)'
BY DEF PodOK, KnownOK, VersionsOK, TerminatedOK

LEMMA SameShown ==
  ASSUME NEW u \in UIDs, api' = api
  PROVE  ShownKept(u) /\ Shown(u)' = Shown(u)
BY DEF ShownKept, Shown

LEMMA EnvShown ==
  ASSUME Inv, NEW u \in UIDs, NEW n \in Names,
         ApiDelete(n) \/ ApiGate(n) \/ ApiNotReady(n)
  PROVE  ShownKept(u)
<1> DEFINE m == NameOf[u]
<1>1. api \in [Names -> Pod] /\ m \in Names
  BY PodsAssumption DEF Inv, TypeOK
<1>2. \/ api' = [api EXCEPT ![n].deletion = TRUE]
      \/ api' = [api EXCEPT ![n] = NoPod]
      \/ api' = [api EXCEPT ![n].status.gate = TRUE]
      \/ api' = [api EXCEPT ![n].status.cond = FALSE]
  BY DEF ApiDelete, ApiGate, ApiNotReady
<1>3. CASE n # m
  <2>1. api'[m] = api[m]
    BY <1>1, <1>2, <1>3
  <2>2. QED
    BY <2>1 DEF ShownKept, Shown
<1>4. CASE n = m
  <2>1. api[m] \in Pod
    BY <1>1
  <2>2. api[m].status \in PodStatus
    BY <2>1 DEF Pod
  <2>3. api'[m] = NoPod
        \/ /\ api'[m].uid = api[m].uid
           /\ api[m].deletion => api'[m].deletion
           /\ api'[m].status.container = api[m].status.container
    BY <1>1, <1>2, <1>4, <2>1, <2>2 DEF Pod, PodStatus
  <2>4. u # NoUID
    BY PodsAssumption
  <2>5. NoPod.uid = NoUID
    BY DEF NoPod
  <2>6. Shown(u) = (IF api[m].uid = u THEN api[m] ELSE NoPod)
    BY DEF Shown
  <2>7. Shown(u)' = IF api'[m].uid = u THEN api'[m] ELSE NoPod
    BY DEF Shown
  <2>8. QED
    BY <2>3, <2>4, <2>5, <2>6, <2>7 DEF ShownKept
<1>5. QED
  BY <1>3, <1>4

-----------------------------------------------------------------------------
(* Reports *)

\* A report on pod v: a newer status that keeps a terminated container so.
Reports(v) ==
  \E s \in PodStatus :
    LET w == podStatuses[v].version + 1
    IN  /\ podStatuses' = [podStatuses EXCEPT ![v] = [status |-> s, version |-> w]]
        /\ podStatusChannel' = Send(podStatusChannel,
                                    [uid |-> v, status |-> s, version |-> w])
        /\ podManager[v] # NoPod \/ held[v] # NoPod
        /\ Restart = "Never" =>
             \/ /\ podStatuses[v].version # 0
                /\ Term(podStatuses[v].status) => Term(s)
             \/ /\ podStatuses[v].version = 0
                /\ \E pod \in {podManager[v], held[v]} \ {NoPod} :
                     Term(pod.status) => Term(s)

LEMMA UpdateReports ==
  ASSUME NEW v \in UIDs, NEW pod \in {podManager[v], held[v]} \ {NoPod},
         pod.uid = v, NEW s \in PodStatus, NEW force,
         s.container.state = "none" =>
           ~Term(IF podStatuses[v].version = 0 THEN pod.status ELSE podStatuses[v].status),
         UpdateStatusInternal(pod, s, force)
  PROVE  Reports(v) \/ UNCHANGED <<podStatuses, podStatusChannel>>
<1> DEFINE w == podStatuses[v].version + 1
           old == IF podStatuses[v].version = 0 THEN pod.status ELSE podStatuses[v].status
<1>1. CASE UNCHANGED <<podStatuses, podStatusChannel>>
  BY <1>1
<1>2. CASE /\ podStatuses' = [podStatuses EXCEPT ![v] = [status |-> s, version |-> w]]
           /\ podStatusChannel' = Send(podStatusChannel,
                                       [uid |-> v, status |-> s, version |-> w])
           /\ CheckContainerStateTransition(old.container, s.container)
  <2>1. Restart = "Never" /\ Term(old) => Term(s)
    BY <1>2 DEF CheckContainerStateTransition, Term
  <2>2. QED
    BY <1>2, <2>1 DEF Reports
<1>3. QED
  BY <1>1, <1>2 DEF UpdateStatusInternal

LEMMA CallReports ==
  ASSUME Inv, NEW v \in UIDs, NEW b \in BOOLEAN,
         \/ SetPodStatus(v) \/ SetContainerReadiness(v, b)
         \/ SetContainerStartup(v, b) \/ TerminatePod(v)
  PROVE  /\ Reports(v) \/ UNCHANGED <<podStatuses, podStatusChannel>>
         /\ UNCHANGED <<apiStatusVersions, thread, api, written, acked, podManager, held, used>>
<1>1. held[v] \in Pod /\ podManager[v] \in Pod /\ podStatuses[v] \in Versioned
  BY DEF Inv, TypeOK
<1>2. podStatuses[v].status \in PodStatus /\ held[v].status \in PodStatus
  BY <1>1 DEF Versioned, Pod
<1>3. UNCHANGED <<apiStatusVersions, thread, api, written, acked, podManager, held, used>>
  BY DEF SetPodStatus, SetContainerReadiness, SetContainerStartup, TerminatePod,
         Calls, othersVars, history
<1>4. CASE SetPodStatus(v)
  <2>1. held[v].uid = v /\ held[v] # NoPod
    BY <1>4 DEF SetPodStatus, Inv, Keyed
  <2>2. computed[v] \in PodStatus /\ computed[v].container.state # "none"
    BY <1>4 DEF SetPodStatus, Inv, TypeOK
  <2>3. UpdateStatusInternal(held[v], computed[v], held[v].deletion)
    BY <1>4 DEF SetPodStatus
  <2>4. Reports(v) \/ UNCHANGED <<podStatuses, podStatusChannel>>
    BY <2>1, <2>2, <2>3, UpdateReports
  <2>5. QED
    BY <1>3, <2>4
<1>5. CASE SetContainerReadiness(v, b)
  <2> DEFINE s == podStatuses[v].status
             c == [s.container EXCEPT !.ready = b]
             cond == GeneratePodReadyCondition(c, s.phase, s.gate)
             new == [s EXCEPT !.container = c, !.cond = cond]
  <2>1. podManager[v].uid = v /\ podManager[v] # NoPod /\ podStatuses[v].version # 0
    BY <1>5 DEF SetContainerReadiness, Probed, Inv, Keyed
  <2>2. s.container \in Container
    BY <1>2 DEF PodStatus
  <2>3. c \in Container /\ c.state = s.container.state
    BY <2>2 DEF Container
  <2>4. c.ready \in BOOLEAN /\ s.gate \in BOOLEAN
    BY <1>2, <2>3 DEF Container, PodStatus
  <2>5. cond \in BOOLEAN
    BY <2>4 DEF GeneratePodReadyCondition
  <2>6. UpdateStatusInternal(podManager[v], new, FALSE)
    BY <1>5 DEF SetContainerReadiness
  <2>7. s.container.state # "none"
    BY <1>5 DEF SetContainerReadiness, Probed
  <2> HIDE DEF c, cond
  <2>8. new \in PodStatus /\ new.container = c
    BY <1>2, <2>3, <2>5 DEF PodStatus
  <2> HIDE DEF new
  <2>9. Reports(v) \/ UNCHANGED <<podStatuses, podStatusChannel>>
    BY <2>1, <2>3, <2>6, <2>7, <2>8, UpdateReports
  <2>10. QED
    BY <1>3, <2>9
<1>6. CASE SetContainerStartup(v, b)
  <2> DEFINE s == podStatuses[v].status
             new == [s EXCEPT !.container.started = b]
  <2>1. podManager[v].uid = v /\ podManager[v] # NoPod /\ podStatuses[v].version # 0
    BY <1>6 DEF SetContainerStartup, Probed, Inv, Keyed
  <2>2. UpdateStatusInternal(podManager[v], new, FALSE)
    BY <1>6 DEF SetContainerStartup
  <2>3. new \in PodStatus /\ new.container.state = s.container.state
    BY <1>2 DEF PodStatus, Container
  <2>4. s.container.state # "none"
    BY <1>6 DEF SetContainerStartup, Probed
  <2> HIDE DEF new
  <2>5. Reports(v) \/ UNCHANGED <<podStatuses, podStatusChannel>>
    BY <2>1, <2>2, <2>3, <2>4, UpdateReports
  <2>6. QED
    BY <1>3, <2>5
<1>7. CASE TerminatePod(v)
  <2> DEFINE s == IF podStatuses[v].version = 0 THEN held[v].status
                                                ELSE podStatuses[v].status
             c == IF s.container.state = "none" \/ IsTerminated(s.container)
                  THEN s.container
                  ELSE [s.container EXCEPT !.state = "failed"]
             new == [s EXCEPT !.container = c]
  <2>1. held[v].uid = v /\ held[v] # NoPod
    BY <1>7 DEF TerminatePod, Syncs, Inv, Keyed
  <2>2. UpdateStatusInternal(held[v], new, TRUE)
    BY <1>7 DEF TerminatePod
  <2>3. s \in PodStatus
    BY <1>2
  <2>4. (IF podStatuses[v].version = 0 THEN held[v].status ELSE podStatuses[v].status) = s
    OBVIOUS
  <2> HIDE DEF s
  <2>5. s.container \in Container
    BY <2>3 DEF PodStatus
  <2>6. c \in Container /\ (c.state = "none" => ~Term(s))
    BY <2>5 DEF Container, ContainerStates, Term, IsTerminated
  <2> HIDE DEF c
  <2>7. new \in PodStatus /\ new.container = c
    BY <2>3, <2>6 DEF PodStatus
  <2> HIDE DEF new
  <2>8. Reports(v) \/ UNCHANGED <<podStatuses, podStatusChannel>>
    BY <2>1, <2>2, <2>4, <2>6, <2>7, UpdateReports
  <2>9. QED
    BY <1>3, <2>8
<1>8. QED
  BY <1>4, <1>5, <1>6, <1>7

LEMMA SendAdds ==
  ASSUME Inv, NEW r \in SyncRequest, podStatusChannel' = Send(podStatusChannel, r)
  PROVE  InChannel' \subseteq InChannel \cup {r}
<1>1. podStatusChannel \in Seq(SyncRequest)
  BY DEF Inv, TypeOK
<1>2. CASE podStatusChannel' = podStatusChannel
  BY <1>2 DEF InChannel
<1>3. CASE podStatusChannel' = Append(podStatusChannel, r)
  <2>1. ASSUME NEW i \in DOMAIN podStatusChannel'
        PROVE  podStatusChannel'[i] \in InChannel \cup {r}
    BY <1>1, <1>3, <2>1 DEF InChannel
  <2>2. QED
    BY <2>1 DEF InChannel
<1>4. QED
  BY <1>2, <1>3 DEF Send

LEMMA ReportsOK ==
  ASSUME Inv, OrderInv, NEW v \in UIDs, NEW u \in UIDs, Reports(v),
         UNCHANGED <<apiStatusVersions, thread, api, written, acked, podManager, held, used>>
  PROVE  PodOK(u)'
<1> DEFINE w == podStatuses[v].version + 1
<1>1. PICK s \in PodStatus :
        /\ podStatuses' = [podStatuses EXCEPT ![v] = [status |-> s, version |-> w]]
        /\ podStatusChannel' = Send(podStatusChannel,
                                    [uid |-> v, status |-> s, version |-> w])
        /\ podManager[v] # NoPod \/ held[v] # NoPod
        /\ Restart = "Never" =>
             \/ /\ podStatuses[v].version # 0
                /\ Term(podStatuses[v].status) => Term(s)
             \/ /\ podStatuses[v].version = 0
                /\ \E pod \in {podManager[v], held[v]} \ {NoPod} :
                     Term(pod.status) => Term(s)
  BY DEF Reports
<1> DEFINE r == [uid |-> v, status |-> s, version |-> w]
<1>2. podStatuses \in [UIDs -> Versioned] /\ podStatuses[v].version \in Nat
      /\ written[u] \in Nat /\ acked[u] \in Nat /\ apiStatusVersions[u] \in Nat
  BY DEF Inv, TypeOK, Versioned
<1>3. r \in SyncRequest /\ r.uid = v /\ r.version = w /\ r.status = s /\ w \in Nat
      /\ w > podStatuses[v].version
  BY <1>2 DEF SyncRequest
<1>4. InChannel' \subseteq InChannel \cup {r}
  BY <1>1, <1>3, SendAdds
<1>5. Shown(u)' = Shown(u) /\ ShownKept(u) /\ thread' = thread /\ PodOK(u)
      /\ podManager' = podManager /\ held' = held /\ written' = written
      /\ acked' = acked
      /\ apiStatusVersions' = apiStatusVersions /\ used' = used
  BY SameShown DEF OrderInv
<1> HIDE DEF r, w
<1>6. CASE u # v
  <2>1. podStatuses'[u] = podStatuses[u]
    BY <1>1, <1>2, <1>6
  <2>2. Pending(u)' \subseteq Pending(u)
    BY <1>3, <1>4, <1>5, <1>6 DEF Pending
  <2>3. Frame(u)
    BY <1>5, <2>1, <2>2 DEF Frame
  <2>4. QED
    BY <1>5, <2>3, FrameOK
<1>7. CASE u = v
  <2>1. podStatuses'[u].version = w /\ podStatuses'[u].status = s
    BY <1>1, <1>2, <1>7
  <2>2. Pending(u)' \subseteq Pending(u) \cup {r}
    BY <1>4, <1>5 DEF Pending
  <2>3. u \in used /\ UnusedOK(u)'
    BY <1>1, <1>5, <1>7 DEF PodOK, UnusedOK
  <2>4. Live(u)' <=> Live(u)
    BY <1>5 DEF Live
  <2>5. KnownOK(u)'
    BY <1>1, <1>5, <1>7, <2>4 DEF PodOK, KnownOK
  <2>6. VersionsOK(u)'
    <3>1. SUFFICES ASSUME Live(u) PROVE VersionsOK(u)'
      BY <2>4 DEF VersionsOK
    <3>2. acked[u] < w /\ apiStatusVersions[u] \in {0, acked[u]}
      BY <1>2, <1>3, <1>5, <1>7, <3>1 DEF PodOK, VersionsOK
    <3>3. ASSUME NEW q \in Pending(u)'
          PROVE  /\ 0 < q.version /\ q.version <= w
                 /\ q.version < acked[u] => apiStatusVersions[u] = acked[u]
                 /\ thread.pc = "drained" => acked[u] < q.version
      <4>1. CASE q \in Pending(u)
        <5>1. q \in SyncRequest
          BY <4>1 DEF Pending, InChannel, Inv, TypeOK, InFlight
        <5>2. q.version \in Nat
          BY <5>1 DEF SyncRequest
        <5>3. 0 < q.version /\ q.version <= podStatuses[v].version
          BY <1>5, <1>7, <3>1, <4>1 DEF PodOK, VersionsOK
        <5>4. q.version <= w
          BY <1>2, <1>3, <5>2, <5>3
        <5>5. QED
          BY <1>5, <3>1, <4>1, <5>3, <5>4 DEF PodOK, VersionsOK
      <4>2. CASE q = r
        BY <1>2, <1>3, <3>2, <4>2
      <4>3. QED
        BY <2>2, <4>1, <4>2
    <3>4. acked[u] <= w
      BY <1>2, <1>3, <3>2
    <3>5. QED
      BY <1>5, <2>1, <3>1, <3>2, <3>3, <3>4 DEF PodOK, VersionsOK
  <2>7. TerminatedOK(u)'
    <3>1. SUFFICES ASSUME Live(u), Restart = "Never" PROVE TerminatedOK(u)'
      BY <2>4 DEF TerminatedOK
    <3>2. w # 0
      BY <1>2, <1>3
    <3>3. Term(Shown(u).status) => Term(s)
      BY <1>1, <1>5, <1>7, <3>1 DEF PodOK, TerminatedOK, Term
    <3>4. ASSUME NEW q \in Pending(u)
          PROVE  /\ Term(q.status) => Term(s)
                 /\ ~(w <= q.version)
      <4>1. q \in SyncRequest
        BY DEF Pending, InChannel, Inv, TypeOK, InFlight
      <4>2. q.version \in Nat
        BY <4>1 DEF SyncRequest
      <4>3. 0 < q.version /\ q.version <= podStatuses[v].version
        BY <1>5, <1>7, <3>1 DEF PodOK, VersionsOK
      <4>4. podStatuses[v].version # 0 /\ ~(w <= q.version)
        BY <1>2, <1>3, <4>2, <4>3
      <4>5. Term(q.status) => Term(podStatuses[v].status)
        BY <1>5, <1>7, <3>1 DEF PodOK, TerminatedOK
      <4>6. QED
        BY <1>1, <3>1, <4>4, <4>5
    <3>5. ASSUME NEW q \in Pending(u)'
          PROVE  /\ Term(q.status) => Term(s)
                 /\ Term(s) /\ w <= q.version => Term(q.status)
                 /\ Term(Shown(u).status) /\ written[u] <= q.version => Term(q.status)
                 /\ \A p \in Pending(u)' :
                      Term(q.status) /\ q.version <= p.version => Term(p.status)
      <4>1. CASE q \in Pending(u)
        <5>1. ASSUME NEW p \in Pending(u)', Term(q.status), q.version <= p.version
              PROVE  Term(p.status)
          <6>1. CASE p \in Pending(u)
            BY <1>5, <3>1, <4>1, <5>1, <6>1 DEF PodOK, TerminatedOK
          <6>2. CASE p = r
            BY <1>3, <3>4, <4>1, <5>1, <6>2
          <6>3. QED
            BY <2>2, <6>1, <6>2
        <5>2. QED
          BY <1>5, <3>1, <3>4, <4>1, <5>1 DEF PodOK, TerminatedOK
      <4>2. CASE q = r
        BY <1>3, <2>2, <3>3, <3>4, <4>2
      <4>3. QED
        BY <2>2, <4>1, <4>2
    <3>6. QED
      BY <1>5, <2>1, <3>1, <3>2, <3>3, <3>5 DEF PodOK, TerminatedOK
  <2>8. QED
    BY <2>3, <2>5, <2>6, <2>7 DEF PodOK
<1>8. QED
  BY <1>6, <1>7

-----------------------------------------------------------------------------
(* The sync thread's steps *)

LEMMA Queued ==
  ASSUME NEW q
  PROVE  LET t == [Idle EXCEPT !.pc = "sync", !.queue = q]
         IN  /\ Idle.pc = "select" /\ Idle.queue = {}
             /\ t.pc = "sync" /\ t.queue = q
BY DEF Idle

LEMMA ReturnKeeps ==
  ASSUME NEW r, Return(r)
  PROVE  /\ thread'.pc \in {"select", "sync"}
         /\ thread'.queue \subseteq thread.queue
         /\ thread'.pc = "select" => thread'.queue = {}
<1> DEFINE rest == thread.queue \ {r}
<1>1. thread' = Idle \/ thread' = [Idle EXCEPT !.pc = "sync", !.queue = rest]
  BY DEF Return
<1> HIDE DEF rest
<1>2. \/ thread'.pc = "select" /\ thread'.queue = {}
      \/ thread'.pc = "sync" /\ thread'.queue = rest
  BY <1>1, Queued
<1>3. QED
  BY <1>2 DEF rest

LEMMA TakeOK ==
  ASSUME Inv, OrderInv, TakeRequest \/ Drain, NEW u \in UIDs
  PROVE  PodOK(u)' /\ ThreadOK'
<1>1. podStatusChannel \in Seq(SyncRequest) /\ PodOK(u)
  BY DEF Inv, TypeOK, OrderInv
<1>2. CASE TakeRequest
  <2>1. podStatusChannel # <<>> /\ podStatusChannel' = Tail(podStatusChannel)
    BY <1>2 DEF TakeRequest
  <2>2. thread'.pc = "sync" /\ thread'.queue = {Head(podStatusChannel)}
    BY <1>2 DEF TakeRequest, Idle
  <2>3. Head(podStatusChannel) \in InChannel
    <3>1. 1 \in DOMAIN podStatusChannel /\ Head(podStatusChannel) = podStatusChannel[1]
      BY <1>1, <2>1
    <3>2. QED
      BY <3>1 DEF InChannel
  <2>4. InChannel' \subseteq InChannel
    <3>1. ASSUME NEW i \in DOMAIN Tail(podStatusChannel)
          PROVE  Tail(podStatusChannel)[i] \in InChannel
      <4>1. i + 1 \in DOMAIN podStatusChannel
            /\ Tail(podStatusChannel)[i] = podStatusChannel[i + 1]
        BY <1>1, <2>1
      <4>2. QED
        BY <4>1 DEF InChannel
    <3>2. QED
      BY <2>1, <3>1 DEF InChannel
  <2>5. Pending(u)' \subseteq Pending(u)
    BY <2>2, <2>3, <2>4 DEF Pending
  <2>6. UNCHANGED <<podStatuses, apiStatusVersions, api, written, acked, podManager, held, used>>
    BY <1>2 DEF TakeRequest, envVars, history
  <2>7. Frame(u)
    BY <2>2, <2>5, <2>6, SameShown DEF Frame
  <2>8. QED
    BY <1>1, <2>2, <2>7, FrameOK DEF ThreadOK
<1>3. CASE Drain
  <2>1. podStatusChannel' = <<>> /\ thread'.pc = "drained" /\ thread'.queue = {}
    BY <1>3 DEF Drain, Idle
  <2>2. Pending(u)' = {}
    BY <2>1 DEF Pending, InChannel
  <2>3. UNCHANGED <<podStatuses, apiStatusVersions, api, written, acked, podManager, held, used>>
    BY <1>3 DEF Drain, envVars, history
  <2>4. Frame(u)
    BY <2>1, <2>2, <2>3, SameShown DEF Frame
  <2>5. QED
    BY <1>1, <2>1, <2>4, FrameOK DEF ThreadOK
<1>4. QED
  BY <1>2, <1>3

LEMMA SyncBatchOK ==
  ASSUME Inv, OrderInv, SyncBatch, NEW u \in UIDs
  PROVE  PodOK(u)' /\ ThreadOK'
<1> DEFINE updated == {v \in UIDs : /\ ~Orphaned(v)
                                    /\ \/ NeedsUpdate(v, podStatuses[v])
                                       \/ Forced(v)}
           q == {Request(v) : v \in updated}
<1>1. PodOK(u) /\ ThreadOK /\ thread.pc = "drained" /\ thread.queue = {}
  BY DEF OrderInv, SyncBatch, ThreadOK
<1>2. thread' = Idle \/ thread' = [Idle EXCEPT !.pc = "sync", !.queue = q]
  BY DEF SyncBatch
<1>3. apiStatusVersions'[u] = 0 \/ apiStatusVersions'[u] = apiStatusVersions[u]
  BY DEF SyncBatch
<1>4. UNCHANGED <<api, written, acked, podStatuses, podStatusChannel, podManager, held, used>>
  BY DEF SyncBatch, cacheVars, envVars, history
<1>5. \/ thread'.pc = "select" /\ thread'.queue = {}
      \/ thread'.pc = "sync" /\ thread'.queue = q
  <2> HIDE DEF q
  <2>1. QED
    BY <1>2, Queued
<1>6. Pending(u)' \subseteq
        Pending(u) \cup {r \in {Request(u)} : podStatuses[u].version # 0}
  <2>1. ASSUME NEW r \in q, r.uid = u
        PROVE  r = Request(u) /\ podStatuses[u].version # 0
    <3>1. PICK v \in updated : r = Request(v)
      OBVIOUS
    <3>2. v = u
      BY <2>1, <3>1 DEF Request
    <3>3. QED
      BY <3>1, <3>2 DEF Orphaned
  <2>2. InChannel' = InChannel
    BY <1>4 DEF InChannel
  <2> HIDE DEF q
  <2>3. QED
    BY <1>5, <2>1, <2>2 DEF Pending
<1>7. Shown(u)' = Shown(u) /\ (Live(u)' <=> Live(u))
  BY <1>4, SameShown DEF Live
<1>8. podStatuses[u].version \in Nat /\ acked[u] \in Nat /\ apiStatusVersions[u] \in Nat
  BY DEF Inv, TypeOK, Versioned
<1>9. Request(u).version = podStatuses[u].version /\ Request(u).status = podStatuses[u].status
  BY DEF Request
<1>10. UnusedOK(u)'
  BY <1>1, <1>3, <1>4, <1>6, <1>7 DEF PodOK, UnusedOK
<1>11. KnownOK(u)'
  BY <1>1, <1>4, <1>7 DEF PodOK, KnownOK
<1>12. VersionsOK(u)'
  <2>1. SUFFICES ASSUME Live(u) PROVE VersionsOK(u)'
    BY <1>7 DEF VersionsOK
  <2>2. /\ acked[u] <= written[u] /\ acked[u] <= podStatuses[u].version
        /\ apiStatusVersions'[u] \in {0, acked[u]}
    BY <1>1, <1>3, <2>1 DEF PodOK, VersionsOK
  <2>3. ASSUME NEW r \in Pending(u)'
        PROVE  /\ 0 < r.version /\ r.version <= podStatuses[u].version
               /\ ~(r.version < acked[u])
    <3>1. CASE r \in Pending(u)
      <4>1. r \in SyncRequest
        BY <3>1 DEF Pending, InChannel, Inv, TypeOK, InFlight
      <4>2. r.version \in Nat
        BY <4>1 DEF SyncRequest
      <4>3. 0 < r.version /\ r.version <= podStatuses[u].version /\ acked[u] < r.version
        BY <1>1, <2>1, <3>1 DEF PodOK, VersionsOK
      <4>4. QED
        BY <1>8, <4>2, <4>3
    <3>2. CASE r = Request(u) /\ podStatuses[u].version # 0
      BY <1>8, <1>9, <2>2, <3>2
    <3>3. QED
      BY <1>6, <3>1, <3>2
  <2>4. QED
    BY <1>4, <1>5, <2>1, <2>2, <2>3 DEF VersionsOK
<1>13. TerminatedOK(u)'
  <2>1. SUFFICES ASSUME Live(u), Restart = "Never" PROVE TerminatedOK(u)'
    BY <1>7 DEF TerminatedOK
  <2>2. ASSUME NEW r \in Pending(u)'
        PROVE  /\ Term(r.status) => Term(podStatuses[u].status)
               /\ Term(podStatuses[u].status) /\ podStatuses[u].version <= r.version =>
                    Term(r.status)
               /\ Term(Shown(u).status) /\ written[u] <= r.version => Term(r.status)
               /\ \A s \in Pending(u)' :
                    Term(r.status) /\ r.version <= s.version => Term(s.status)
    <3>1. CASE r \in Pending(u)
      BY <1>1, <1>6, <1>9, <2>1, <3>1 DEF PodOK, TerminatedOK
    <3>2. CASE r = Request(u) /\ podStatuses[u].version # 0
      BY <1>1, <1>6, <1>9, <2>1, <3>2 DEF PodOK, TerminatedOK
    <3>3. QED
      BY <1>6, <3>1, <3>2
  <2>3. QED
    BY <1>1, <1>4, <1>5, <1>7, <2>1, <2>2 DEF PodOK, TerminatedOK
<1>14. ThreadOK'
  BY <1>5 DEF ThreadOK
<1>15. QED
  BY <1>10, <1>11, <1>12, <1>13, <1>14 DEF PodOK

\* The thread returns, and pod u is none of its business.
LEMMA ReturnOK ==
  ASSUME OrderInv, NEW u \in UIDs, NEW r, Return(r), ShownKept(u),
         podStatuses'[u] = podStatuses[u],
         apiStatusVersions'[u] = apiStatusVersions[u], written'[u] = written[u],
         acked'[u] = acked[u],
         UNCHANGED <<podStatusChannel, podManager, held, used>>
  PROVE  PodOK(u)' /\ ThreadOK'
<1>1. /\ thread'.pc \in {"select", "sync"}
      /\ thread'.queue \subseteq thread.queue
      /\ thread'.pc = "select" => thread'.queue = {}
  BY ReturnKeeps
<1>2. Pending(u)' \subseteq Pending(u)
  BY <1>1 DEF Pending, InChannel
<1>3. Frame(u)
  BY <1>1, <1>2 DEF Frame
<1>4. PodOK(u)'
  BY <1>3, FrameOK DEF OrderInv
<1>5. ThreadOK'
  BY <1>1 DEF ThreadOK
<1>6. QED
  BY <1>4, <1>5

\* The same when pod u is gone, whatever happens to its cached status.
LEMMA GoneOK ==
  ASSUME OrderInv, NEW u \in UIDs, NEW r, Return(r), Shown(u)' = NoPod, u \in used,
         used' = used
  PROVE  PodOK(u)' /\ ThreadOK'
<1>1. UnusedOK(u)'
  BY DEF UnusedOK
<1>2. ~Live(u)'
  BY DEF Live
<1>3. ThreadOK'
  BY ReturnKeeps DEF ThreadOK
<1>4. QED
  BY <1>1, <1>2, <1>3, DeadOK

\* A request that is pending is one of a pod that has been created.
LEMMA PendingUsed ==
  ASSUME OrderInv, NEW u \in UIDs, NEW r \in InChannel \cup thread.queue, r.uid = u
  PROVE  u \in used /\ r \in Pending(u)
BY DEF OrderInv, PodOK, UnusedOK, Pending

LEMMA SyncPodOK ==
  ASSUME Inv, OrderInv, SyncPod, NEW u \in UIDs
  PROVE  PodOK(u)' /\ ThreadOK'
<1>1. PICK r \in thread.queue : SkipUpToDate(r) \/ GetFails(r) \/ GetReplaced(r) \/ GetOK(r)
  BY DEF SyncPod
<1>2. r \in SyncRequest /\ podStatuses \in [UIDs -> Versioned] /\ thread \in InFlight
  BY DEF Inv, TypeOK, InFlight
<1>3. r.uid \in UIDs /\ r.version \in Nat
  BY <1>2 DEF SyncRequest
<1>4. PodOK(u) /\ ThreadOK /\ thread.pc = "sync"
  BY DEF OrderInv, SyncPod
<1>5. CASE SkipUpToDate(r) \/ GetFails(r)
  <2>1. Return(r) /\ UNCHANGED <<apiStatusVersions, api, written, acked, podStatuses,
                                 podStatusChannel, podManager, held, used>>
    BY <1>5 DEF SkipUpToDate, GetFails, cacheVars, envVars, history
  <2>2. QED
    BY <2>1, SameShown, ReturnOK
<1>6. CASE GetReplaced(r)
  <2>1. Return(r) /\ UNCHANGED <<apiStatusVersions, api, written, acked,
                                 podStatusChannel, podManager, held, used>>
    BY <1>6 DEF GetReplaced, envVars, history
  <2>2. CASE r.uid = u
    <3>1. Shown(u)' = NoPod
      BY <1>6, <2>1, <2>2 DEF GetReplaced, IsReplaced, Shown
    <3>2. u \in used
      BY <2>2, PendingUsed
    <3>3. QED
      BY <2>1, <3>1, <3>2, GoneOK
  <2>3. CASE r.uid # u
    <3>1. podStatuses'[u] = podStatuses[u]
      BY <1>2, <1>6, <2>3 DEF GetReplaced, DeletePodStatus
    <3>2. QED
      BY <2>1, <3>1, SameShown, ReturnOK
  <2>4. QED
    BY <2>2, <2>3
<1>7. CASE GetOK(r)
  <2> DEFINE pod == api[NameOf[r.uid]]
  <2>1. UNCHANGED <<apiStatusVersions, api, written, acked, podStatuses, podStatusChannel,
                    podManager, held, used>>
    BY <1>7 DEF GetOK, cacheVars, envVars, history
  <2>2. /\ thread' = [thread EXCEPT !.pc = "patch", !.req = r, !.pod = pod]
        /\ pod.uid = r.uid /\ NeedsUpdate(r.uid, r)
    BY <1>7 DEF GetOK, IsReplaced
  <2>3. pod = Shown(r.uid)
    BY <2>2 DEF Shown
  <2> HIDE DEF pod
  <2>4. thread'.pc = "patch" /\ thread'.req = r /\ thread'.pod = pod
        /\ thread'.queue = thread.queue
    BY <1>2, <2>2 DEF InFlight
  <2>5. ThreadOK'
    BY <2>4 DEF ThreadOK
  <2>6. Pending(u)' = Pending(u) /\ Shown(u)' = Shown(u) /\ ShownKept(u)
    BY <2>1, <2>4, SameShown DEF Pending, InChannel
  <2>7. CASE r.uid # u
    <3>1. Frame(u)
      BY <2>1, <2>4, <2>6, <2>7 DEF Frame
    <3>2. QED
      BY <1>4, <2>5, <3>1, FrameOK
  <2>8. CASE r.uid = u
    <3>1. u \in used /\ r \in Pending(u)
      BY <2>8, PendingUsed
    <3>2. Live(u)' <=> Live(u)
      BY <2>6 DEF Live
    <3>3. Live(u) => ~pod.deletion /\ acked[u] <= r.version
      <4>1. SUFFICES ASSUME Live(u) PROVE ~pod.deletion /\ acked[u] <= r.version
        OBVIOUS
      <4>2. ~pod.deletion
        BY <2>3, <2>8, <4>1 DEF Live
      <4>3. apiStatusVersions[u] < r.version
        BY <1>4, <2>2, <2>8, <4>1 DEF NeedsUpdate, CanBeDeleted, PodOK, KnownOK
      <4>4. r.version < acked[u] => apiStatusVersions[u] = acked[u]
        BY <1>4, <3>1, <4>1 DEF PodOK, VersionsOK
      <4>5. acked[u] \in Nat /\ apiStatusVersions[u] \in Nat
        BY DEF Inv, TypeOK
      <4>6. QED
        BY <1>3, <4>2, <4>3, <4>4, <4>5
    <3>4. UnusedOK(u)'
      BY <1>4, <2>1, <2>6 DEF PodOK, UnusedOK
    <3>5. KnownOK(u)'
      BY <1>4, <2>1, <3>2 DEF PodOK, KnownOK
    <3>6. VersionsOK(u)'
      BY <1>4, <2>1, <2>4, <2>6, <3>2, <3>3 DEF PodOK, VersionsOK
    <3>7. TerminatedOK(u)'
      BY <1>4, <2>1, <2>3, <2>4, <2>6, <2>8, <3>2 DEF PodOK, TerminatedOK
    <3>8. QED
      BY <2>5, <3>4, <3>5, <3>6, <3>7 DEF PodOK
  <2>9. QED
    BY <2>7, <2>8
<1>8. QED
  BY <1>1, <1>5, <1>6, <1>7

LEMMA AcceptedKeeps ==
  ASSUME thread \in InFlight, NEW pod, Accepted(pod) \/ Refused
  PROVE  /\ thread'.pc \in {"select", "sync", "delete"}
         /\ thread'.queue \subseteq thread.queue
         /\ thread'.pc = "select" => thread'.queue = {}
         /\ thread'.pc = "delete" => /\ thread'.queue = thread.queue
                                     /\ thread'.req = thread.req
                                     /\ thread'.pod = pod
                                     /\ pod.deletion
<1>1. CASE Return(thread.req)
  BY <1>1, ReturnKeeps
<1>2. CASE thread' = [thread EXCEPT !.pc = "delete", !.pod = pod] /\ pod.deletion
  BY <1>2 DEF InFlight
<1>3. QED
  BY <1>1, <1>2 DEF Accepted, Refused, CanBeDeleted

\* The write of a status that a request of pod u carries, acknowledged or not.
LEMMA WrittenOK ==
  ASSUME Inv, OrderInv, thread.pc = "patch", NEW u \in UIDs, thread.req.uid = u,
         NEW pod, pod.uid = u, Accepted(pod) \/ Refused,
         written' = [written EXCEPT ![u] = thread.req.version],
         Shown(u)' # NoPod =>
           /\ Shown(u) # NoPod
           /\ Shown(u)'.deletion = Shown(u).deletion
           /\ pod.deletion => thread.pod.deletion \/ Shown(u).deletion
           /\ thread.pod.status.container = Shown(u).status.container =>
                Shown(u)'.status.container = thread.req.status.container,
         UNCHANGED <<podStatuses, podStatusChannel, podManager, held, used>>
  PROVE  PodOK(u)' /\ ThreadOK'
<1> DEFINE r == thread.req
<1>1. PodOK(u) /\ r \in Pending(u) /\ u \in used /\ thread \in InFlight
  BY PendingUsed DEF OrderInv, ThreadOK, Inv, TypeOK
<1>2. /\ thread'.pc \in {"select", "sync", "delete"}
      /\ thread'.queue \subseteq thread.queue
      /\ thread'.pc = "select" => thread'.queue = {}
      /\ thread'.pc = "delete" => /\ thread'.queue = thread.queue
                                  /\ thread'.req = thread.req
                                  /\ thread'.pod = pod
                                  /\ pod.deletion
  BY <1>1, AcceptedKeeps
<1>3. ThreadOK'
  BY <1>2 DEF ThreadOK, OrderInv
<1>4. Pending(u)' \subseteq Pending(u)
  BY <1>2 DEF Pending, InChannel
<1>5. /\ written'[u] = r.version
      /\ \/ apiStatusVersions'[u] = r.version /\ acked'[u] = r.version
         \/ apiStatusVersions'[u] = apiStatusVersions[u] /\ acked'[u] = acked[u]
  BY DEF Accepted, Refused, Inv, TypeOK
<1>6. Live(u)' => /\ Live(u)
                  /\ ~pod.deletion
                  /\ Restart = "Never" => Shown(u)'.status.container = r.status.container
  BY <1>1 DEF Live, PodOK, VersionsOK, TerminatedOK
<1>7. UnusedOK(u)'
  BY <1>1 DEF UnusedOK
<1>8. KnownOK(u)'
  BY <1>1, <1>6 DEF PodOK, KnownOK
<1>9. VersionsOK(u)'
  <2>1. SUFFICES ASSUME Live(u)' PROVE VersionsOK(u)'
    BY DEF VersionsOK
  <2>2. r.version \in Nat /\ thread'.pc # "delete" /\ VersionsOK(u) /\ Live(u)
    BY <1>1, <1>2, <1>6, <2>1 DEF PodOK, Inv, SyncRequest
  <2>3. acked[u] <= r.version /\ r.version <= podStatuses[u].version
    BY <1>1, <2>2 DEF VersionsOK
  <2>4. CASE apiStatusVersions'[u] = r.version /\ acked'[u] = r.version
    BY <1>2, <1>4, <1>5, <2>2, <2>3, <2>4 DEF VersionsOK
  <2>5. CASE apiStatusVersions'[u] = apiStatusVersions[u] /\ acked'[u] = acked[u]
    BY <1>2, <1>4, <1>5, <2>2, <2>3, <2>5 DEF VersionsOK
  <2>6. QED
    BY <1>5, <2>4, <2>5
<1>10. TerminatedOK(u)'
  <2>1. SUFFICES ASSUME Live(u)', Restart = "Never" PROVE TerminatedOK(u)'
    BY DEF TerminatedOK
  <2>2. r.version \in Nat /\ podStatuses[u].version \in Nat
    BY DEF Inv, TypeOK, SyncRequest, Versioned
  <2>3. 0 < r.version /\ r.version <= podStatuses[u].version
    BY <1>1, <1>6, <2>1 DEF PodOK, VersionsOK
  <2>4. podStatuses[u].version # 0
    BY <2>2, <2>3
  <2>5. Term(Shown(u)'.status) => Term(r.status)
    BY <1>6, <2>1 DEF Term
  <2>6. QED
    BY <1>1, <1>2, <1>4, <1>5, <1>6, <2>1, <2>4, <2>5 DEF PodOK, TerminatedOK
<1>11. QED
  BY <1>3, <1>7, <1>8, <1>9, <1>10 DEF PodOK

\* What an accepted Patch does to the object that the API server shows.
LEMMA PatchShows ==
  ASSUME Inv, NEW u \in UIDs, thread.pc = "patch", NEW new,
         LET r == thread.req
             n == NameOf[r.uid]
             merged == MergePodStatus(thread.pod.status, r.status,
                                      PodCouldHaveRunningContainers(thread.pod))
         IN  /\ api[n].uid = thread.pod.uid
             /\ api' = [api EXCEPT ![n] = new]
             /\ new = [api[n] EXCEPT !.status =
                         Patched(api[n].status, thread.pod.status, merged)]
  PROVE  /\ thread.req.uid # u => ShownKept(u)
         /\ thread.req.uid = u =>
              /\ Shown(u)' = new /\ new.uid = u
              /\ Shown(u) # NoPod
              /\ new.deletion = Shown(u).deletion
              /\ thread.pod.status.container = Shown(u).status.container =>
                   new.status.container = thread.req.status.container
<1> DEFINE r == thread.req
           n == NameOf[r.uid]
           merged == MergePodStatus(thread.pod.status, r.status,
                                    PodCouldHaveRunningContainers(thread.pod))
           st == Patched(api[n].status, thread.pod.status, merged)
<1>1. /\ api \in [Names -> Pod] /\ r \in SyncRequest /\ thread.pod \in Pod
      /\ thread.pod.uid = r.uid
  BY DEF Inv, TypeOK, InFlight
<1>2. n \in Names /\ NameOf[u] \in Names /\ r.uid \in UIDs /\ r.status \in PodStatus
  BY <1>1, PodsAssumption DEF SyncRequest
<1>3. api[n] \in Pod
  BY <1>1, <1>2
<1>4. merged.container = r.status.container
  BY <1>2 DEF MergePodStatus, PodStatus
<1>5. st.container = IF merged.container = thread.pod.status.container
                     THEN api[n].status.container ELSE merged.container
  BY DEF Patched, Field
<1>6. new = [api[n] EXCEPT !.status = st] /\ api' = [api EXCEPT ![n] = new]
      /\ api[n].uid = r.uid
  BY <1>1
<1> HIDE DEF merged, st
<1>7. new.uid = r.uid /\ new.deletion = api[n].deletion /\ new.status = st
  BY <1>3, <1>6 DEF Pod
<1> HIDE DEF r
<1>8. CASE r.uid # u
  <2>1. CASE NameOf[u] = n
    <3>1. Shown(u)' = NoPod
      BY <1>1, <1>2, <1>6, <1>7, <1>8, <2>1 DEF Shown
    <3>2. QED
      BY <1>8, <3>1 DEF ShownKept, r
  <2>2. CASE NameOf[u] # n
    <3>1. api'[NameOf[u]] = api[NameOf[u]]
      BY <1>1, <1>2, <1>6, <2>2
    <3>2. Shown(u)' = Shown(u)
      BY <3>1 DEF Shown
    <3>3. QED
      BY <1>8, <3>2 DEF ShownKept, r
  <2>3. QED
    BY <2>1, <2>2
<1>9. CASE r.uid = u
  <2>1. Shown(u) = api[n] /\ Shown(u)' = new
    BY <1>1, <1>2, <1>6, <1>7, <1>9 DEF Shown
  <2>2. api[n] # NoPod
    BY <1>2, <1>6, PodsAssumption DEF NoPod
  <2>3. QED
    BY <1>4, <1>5, <1>7, <1>9, <2>1, <2>2 DEF r
<1>10. QED
  BY <1>8, <1>9

\* The thread moves on from a Patch of another pod than u.
LEMMA OtherAccepted ==
  ASSUME Inv, OrderInv, NEW u \in UIDs, thread.pc = "patch", thread.req.uid # u,
         NEW pod, pod.uid = thread.req.uid, Accepted(pod) \/ Refused, ShownKept(u),
         written' = [written EXCEPT ![thread.req.uid] = thread.req.version],
         UNCHANGED <<podStatuses, podStatusChannel, podManager, held, used>>
  PROVE  PodOK(u)' /\ ThreadOK'
<1>1. thread \in InFlight
  BY DEF Inv, TypeOK
<1>2. /\ thread'.pc \in {"select", "sync", "delete"}
      /\ thread'.queue \subseteq thread.queue
      /\ thread'.pc = "select" => thread'.queue = {}
      /\ thread'.pc = "delete" => /\ thread'.queue = thread.queue
                                  /\ thread'.req = thread.req
                                  /\ thread'.pod = pod
                                  /\ pod.deletion
  BY <1>1, AcceptedKeeps
<1>3. /\ apiStatusVersions'[u] = apiStatusVersions[u]
      /\ written'[u] = written[u] /\ acked'[u] = acked[u]
  BY DEF Accepted, Refused, Inv, TypeOK
<1>4. Pending(u)' \subseteq Pending(u)
  BY <1>2 DEF Pending, InChannel
<1>5. Frame(u)
  BY <1>2, <1>3, <1>4 DEF Frame
<1>6. ThreadOK'
  BY <1>2 DEF ThreadOK, OrderInv
<1>7. QED
  BY <1>5, <1>6, FrameOK DEF OrderInv

LEMMA PatchOK ==
  ASSUME Inv, OrderInv, Patch, NEW u \in UIDs
  PROVE  PodOK(u)' /\ ThreadOK'
<1> DEFINE r == thread.req
           got == thread.pod
           n == NameOf[r.uid]
           merged == MergePodStatus(got.status, r.status,
                                    PodCouldHaveRunningContainers(got))
           new == [api[n] EXCEPT !.status = Patched(api[n].status, got.status, merged)]
<1>1. thread.pc = "patch" /\ r \in SyncRequest /\ got.uid = r.uid
  BY DEF Inv, Patch
<1>2. UNCHANGED <<podStatuses, podStatusChannel, podManager, held, used>>
  BY DEF Patch, cacheVars, envVars, history
<1>3. \/ /\ merged = got.status
         /\ Accepted(got)
         /\ api' = api
         /\ written' = [written EXCEPT ![got.uid] = r.version]
      \/ /\ api[n].uid = got.uid
         /\ api' = [api EXCEPT ![n] = new]
         /\ Accepted(new) \/ Refused
         /\ written' = [written EXCEPT ![got.uid] = r.version]
      \/ Return(r) /\ UNCHANGED <<apiStatusVersions, api, written, acked>>
  BY DEF Patch, Refused
<1>4. merged.container = r.status.container
  BY <1>1 DEF MergePodStatus, PodStatus, SyncRequest
<1>5. CASE /\ merged = got.status
           /\ Accepted(got)
           /\ api' = api
           /\ written' = [written EXCEPT ![got.uid] = r.version]
  <2>1. Shown(u)' = Shown(u) /\ ShownKept(u)
    BY <1>5, SameShown
  <2>2. CASE r.uid = u
    <3>1. got.status.container = r.status.container
      BY <1>4, <1>5
    <3>2. QED
      BY <1>1, <1>2, <1>5, <2>1, <2>2, <3>1, WrittenOK
  <2>3. CASE r.uid # u
    BY <1>1, <1>2, <1>5, <2>1, <2>3, OtherAccepted
  <2>4. QED
    BY <2>2, <2>3
<1>6. CASE /\ api[n].uid = got.uid
           /\ api' = [api EXCEPT ![n] = new]
           /\ Accepted(new) \/ Refused
           /\ written' = [written EXCEPT ![got.uid] = r.version]
  <2>1. /\ r.uid # u => ShownKept(u)
        /\ r.uid = u =>
             /\ Shown(u)' = new /\ new.uid = u
             /\ Shown(u) # NoPod
             /\ new.deletion = Shown(u).deletion
             /\ got.status.container = Shown(u).status.container =>
                  new.status.container = r.status.container
    BY <1>1, <1>6, PatchShows
  <2>2. new.uid = r.uid
    BY <1>1, <1>6, PodsAssumption DEF Inv, TypeOK, Pod, SyncRequest
  <2> HIDE DEF new, merged
  <2>3. CASE r.uid = u
    BY <1>1, <1>2, <1>6, <2>1, <2>3, WrittenOK
  <2>4. CASE r.uid # u
    BY <1>1, <1>2, <1>6, <2>1, <2>2, <2>4, OtherAccepted
  <2>5. QED
    BY <2>3, <2>4
<1>7. CASE Return(r) /\ UNCHANGED <<apiStatusVersions, api, written, acked>>
  BY <1>2, <1>7, SameShown, ReturnOK
<1>8. QED
  BY <1>3, <1>5, <1>6, <1>7

LEMMA DeleteOK ==
  ASSUME Inv, OrderInv, Delete, NEW u \in UIDs
  PROVE  PodOK(u)' /\ ThreadOK'
<1> DEFINE r == thread.req
           n == NameOf[r.uid]
<1>1. /\ thread.pc = "delete" /\ Return(r)
      /\ UNCHANGED <<podStatusChannel, apiStatusVersions, written, acked, podManager, held,
                     used>>
  BY DEF Delete, envVars, history
<1>2. /\ r \in thread.queue /\ r \in SyncRequest /\ thread.pod.uid = r.uid
      /\ api \in [Names -> Pod] /\ podStatuses \in [UIDs -> Versioned]
  BY <1>1 DEF OrderInv, ThreadOK, Inv, TypeOK
<1>3. CASE UNCHANGED <<api, podStatuses>>
  BY <1>1, <1>3, SameShown, ReturnOK
<1>4. CASE /\ api' = [api EXCEPT ![n] = NoPod]
           /\ \/ podStatuses' = [podStatuses EXCEPT ![r.uid] = NotCached]
              \/ UNCHANGED podStatuses
  <2>1. NameOf[u] \in Names /\ n \in Names /\ r.uid \in UIDs /\ u # NoUID
    BY <1>2, PodsAssumption DEF SyncRequest
  <2>2. NameOf[u] = n => Shown(u)' = NoPod
    BY <1>2, <1>4, <2>1 DEF Shown
  <2>3. NameOf[u] # n => Shown(u)' = Shown(u)
    BY <1>2, <1>4, <2>1 DEF Shown
  <2>4. CASE r.uid = u
    <3>1. u \in used
      BY <1>2, <2>4, PendingUsed
    <3>2. QED
      BY <1>1, <2>2, <2>4, <3>1, GoneOK
  <2>5. CASE r.uid # u
    <3>1. podStatuses'[u] = podStatuses[u]
      BY <1>2, <1>4, <2>5
    <3>2. ShownKept(u)
      BY <2>2, <2>3 DEF ShownKept
    <3>3. QED
      BY <1>1, <3>1, <3>2, ReturnOK
  <2>6. QED
    BY <2>4, <2>5
<1>5. QED
  BY <1>3, <1>4 DEF Delete, DeletePodStatus

-----------------------------------------------------------------------------
(* The steps of the API server and of the main loop *)

LEMMA OutsideOK ==
  ASSUME Inv, OrderInv, NEW n \in Names,
         ApiDelete(n) \/ ApiGate(n) \/ ApiNotReady(n), NEW u \in UIDs
  PROVE  PodOK(u)' /\ ThreadOK'
<1>1. UNCHANGED <<podStatuses, podStatusChannel, apiStatusVersions, thread, written, acked,
                  podManager, held, used>>
  BY DEF ApiDelete, ApiGate, ApiNotReady, kubeletVars, envVars, history
<1>2. ShownKept(u)
  BY EnvShown
<1>3. Frame(u)
  BY <1>1, <1>2 DEF Frame, Pending, InChannel
<1>4. QED
  BY <1>1, <1>3, FrameOK DEF OrderInv, ThreadOK

LEMMA CreateOK ==
  ASSUME Inv, OrderInv, NEW v \in UIDs, ApiCreate(v), NEW u \in UIDs
  PROVE  PodOK(u)' /\ ThreadOK'
<1>1. UNCHANGED <<podStatuses, podStatusChannel, apiStatusVersions, thread, written, acked,
                  podManager, held>>
  BY DEF ApiCreate, kubeletVars, history
<1>2. PICK s \in Created :
        api' = [api EXCEPT ![NameOf[v]] = [uid |-> v, deletion |-> FALSE, status |-> s]]
  BY DEF ApiCreate
<1>3. /\ v \notin used /\ used' = used \cup {v} /\ api[NameOf[v]] = NoPod
      /\ api \in [Names -> Pod] /\ NameOf[u] \in Names /\ NameOf[v] \in Names
  BY PodsAssumption DEF ApiCreate, Inv, TypeOK
<1>4. Pending(u)' = Pending(u) /\ ThreadOK /\ ThreadOK' /\ PodOK(u)
  BY <1>1 DEF Pending, InChannel, ThreadOK, OrderInv
<1>5. CASE u # v
  <2>1. Shown(u)' = Shown(u) \/ Shown(u)' = NoPod
    BY <1>2, <1>3, <1>5 DEF Shown
  <2>2. Frame(u)
    BY <1>1, <1>3, <1>4, <1>5, <2>1 DEF Frame, ShownKept
  <2>3. QED
    BY <1>4, <2>2, FrameOK
<1>6. CASE u = v
  <2>1. /\ podManager[u] = NoPod /\ held[u] = NoPod /\ podStatuses[u].version = 0
        /\ apiStatusVersions[u] = 0 /\ written[u] = 0 /\ acked[u] = 0
        /\ Pending(u) = {}
    BY <1>3, <1>4, <1>6 DEF PodOK, UnusedOK
  <2>2. thread.pc \in {"patch", "delete"} => thread.req.uid # u
    BY <1>4, <2>1 DEF ThreadOK, Pending
  <2>3. UnusedOK(u)'
    BY <1>3, <1>6 DEF UnusedOK
  <2>4. KnownOK(u)'
    BY <1>1, <2>1 DEF KnownOK, NoPod
  <2>5. VersionsOK(u)'
    BY <1>1, <1>4, <2>1, <2>2 DEF VersionsOK
  <2>6. TerminatedOK(u)'
    BY <1>1, <1>4, <2>1, <2>2 DEF TerminatedOK
  <2>7. QED
    BY <1>4, <2>3, <2>4, <2>5, <2>6 DEF PodOK
<1>7. QED
  BY <1>5, <1>6

LEMMA LoopOK ==
  ASSUME Inv, OrderInv, NEW v \in UIDs, Handles(v) \/ WorkerTakes(v), NEW u \in UIDs
  PROVE  PodOK(u)' /\ ThreadOK'
<1>1. UNCHANGED <<podStatuses, podStatusChannel, apiStatusVersions, thread, api,
                  written, acked, used>>
  BY DEF Handles, HandlePodAdd, HandlePodUpdate, HandlePodDelete, HandlePodRemove,
         Handle, WorkerTakes, kubeletVars, history
<1>2. \/ podManager' = [podManager EXCEPT ![v] = Shown(v)] /\ UNCHANGED held
      \/ /\ podManager[v] # NoPod
         /\ held' = [held EXCEPT ![v] = podManager[v]] /\ UNCHANGED podManager
  BY DEF Handles, HandlePodAdd, HandlePodUpdate, HandlePodDelete, HandlePodRemove,
         Handle, WorkerTakes
<1>3. podManager \in [UIDs -> Pod] /\ held \in [UIDs -> Pod]
  BY DEF Inv, TypeOK
<1>4. /\ Pending(u)' = Pending(u) /\ ThreadOK' /\ PodOK(u)
      /\ Shown(u)' = Shown(u) /\ ShownKept(u) /\ (Live(u)' <=> Live(u))
  BY <1>1, SameShown DEF Pending, InChannel, ThreadOK, OrderInv, Live
<1>5. CASE u # v
  <2>1. podManager'[u] = podManager[u] /\ held'[u] = held[u]
    BY <1>2, <1>3, <1>5
  <2>2. Frame(u)
    BY <1>1, <1>4, <2>1 DEF Frame
  <2>3. QED
    BY <1>4, <2>2, FrameOK
<1>6. CASE u = v
  <2>1. \/ podManager'[u] = Shown(u) /\ held'[u] = held[u]
        \/ /\ podManager[u] # NoPod /\ podManager'[u] = podManager[u]
           /\ held'[u] = podManager[u]
    BY <1>2, <1>3, <1>6
  <2>2. UnusedOK(u)'
    BY <1>1, <1>4, <2>1 DEF PodOK, UnusedOK
  <2>3. KnownOK(u)'
    BY <1>1, <1>4, <2>1 DEF PodOK, KnownOK, Live
  <2>4. VersionsOK(u)'
    BY <1>1, <1>4 DEF PodOK, VersionsOK
  <2>5. TerminatedOK(u)'
    BY <1>1, <1>4, <2>1 DEF PodOK, TerminatedOK
  <2>6. QED
    BY <1>4, <2>2, <2>3, <2>4, <2>5 DEF PodOK
<1>7. QED
  BY <1>5, <1>6

LEMMA OrphansOK ==
  ASSUME Inv, OrderInv, RemoveOrphanedStatuses, NEW u \in UIDs
  PROVE  PodOK(u)' /\ ThreadOK'
<1>1. UNCHANGED <<podStatusChannel, apiStatusVersions, thread, api, written, acked, podManager,
                  held, used>>
  BY DEF RemoveOrphanedStatuses, othersVars, history
<1>2. podStatuses'[u] = IF podManager[u] = NoPod THEN NotCached ELSE podStatuses[u]
  BY DEF RemoveOrphanedStatuses
<1>3. /\ Pending(u)' = Pending(u) /\ ThreadOK' /\ PodOK(u)
      /\ Shown(u)' = Shown(u) /\ ShownKept(u) /\ (Live(u)' <=> Live(u))
  BY <1>1, SameShown DEF Pending, InChannel, ThreadOK, OrderInv, Live
<1>4. CASE podManager[u] # NoPod
  <2>1. Frame(u)
    BY <1>1, <1>2, <1>3, <1>4 DEF Frame
  <2>2. QED
    BY <1>3, <2>1, FrameOK
<1>5. CASE podManager[u] = NoPod
  <2>1. podStatuses'[u].version = 0
    BY <1>2, <1>5 DEF NotCached
  <2>2. UnusedOK(u)'
    BY <1>1, <1>3, <2>1 DEF PodOK, UnusedOK
  <2>3. CASE ~Live(u)
    BY <1>3, <2>2, <2>3, DeadOK
  <2>4. CASE Live(u)
    <3>1. podStatuses[u].version = 0 /\ held[u] = NoPod /\ acked[u] \in Nat
      BY <1>3, <1>5, <2>4 DEF PodOK, KnownOK, Inv, TypeOK
    <3>2. ASSUME NEW r \in Pending(u) PROVE FALSE
      <4>1. r \in SyncRequest
        BY DEF Pending, InChannel, Inv, TypeOK, InFlight
      <4>2. 0 < r.version /\ r.version <= 0 /\ r.version \in Nat
        BY <1>3, <2>4, <3>1, <4>1 DEF PodOK, VersionsOK, SyncRequest
      <4>3. QED
        BY <4>2
    <3>3. KnownOK(u)'
      BY <1>1, <1>3, <2>1, <3>1 DEF PodOK, KnownOK
    <3>4. VersionsOK(u)'
      BY <1>1, <1>3, <2>1, <2>4, <3>1, <3>2 DEF PodOK, VersionsOK
    <3>5. TerminatedOK(u)'
      BY <1>1, <1>3, <1>5, <2>1, <2>4, <3>1, <3>2 DEF PodOK, TerminatedOK
    <3>6. QED
      BY <1>3, <2>2, <3>3, <3>4, <3>5 DEF PodOK
  <2>5. QED
    BY <2>3, <2>4
<1>6. QED
  BY <1>4, <1>5

-----------------------------------------------------------------------------
(* The theorems on the order of reports *)

LEMMA InitOrder == ASSUME Init PROVE OrderInv
<1>1. thread.pc = "select" /\ thread.queue = {} /\ podStatusChannel = <<>> /\ used = {}
  BY DEF Init, Idle
<1>2. ThreadOK
  BY <1>1 DEF ThreadOK
<1>3. ASSUME NEW u \in UIDs PROVE PodOK(u)
  <2>1. Pending(u) = {}
    BY <1>1 DEF Pending, InChannel
  <2>2. Shown(u) = NoPod
    BY PodsAssumption DEF Init, Shown
  <2>3. UnusedOK(u)
    BY <2>1, <2>2 DEF Init, UnusedOK, NotCached
  <2>4. ~Live(u)
    BY <2>2 DEF Live
  <2>5. QED
    BY <2>3, <2>4 DEF PodOK, KnownOK, VersionsOK, TerminatedOK
<1>4. QED
  BY <1>2, <1>3 DEF OrderInv

LEMMA NextPodOK ==
  ASSUME Inv, OrderInv, [Next]_vars, NEW u \in UIDs
  PROVE  PodOK(u)' /\ ThreadOK'
<1>1. CASE Thread
  BY <1>1, TakeOK, SyncBatchOK, SyncPodOK, PatchOK, DeleteOK DEF Thread
<1>2. CASE RemoveOrphanedStatuses
  BY <1>2, OrphansOK
<1>3. ASSUME NEW v \in UIDs, NEW b \in BOOLEAN,
             \/ SetPodStatus(v) \/ SetContainerReadiness(v, b)
             \/ SetContainerStartup(v, b) \/ TerminatePod(v)
      PROVE  PodOK(u)' /\ ThreadOK'
  <2>1. /\ Reports(v) \/ UNCHANGED <<podStatuses, podStatusChannel>>
        /\ UNCHANGED <<apiStatusVersions, thread, api, written, acked, podManager, held, used>>
    BY <1>3, CallReports
  <2>2. ThreadOK'
    BY <2>1 DEF OrderInv, ThreadOK
  <2>3. CASE Reports(v)
    BY <2>1, <2>2, <2>3, ReportsOK
  <2>4. CASE UNCHANGED <<podStatuses, podStatusChannel>>
    <3>1. Frame(u)
      BY <2>1, <2>4, SameShown DEF Frame, Pending, InChannel
    <3>2. QED
      BY <2>2, <3>1, FrameOK DEF OrderInv
  <2>5. QED
    BY <2>1, <2>3, <2>4
<1>4. ASSUME NEW v \in UIDs, ApiCreate(v) \/ Handles(v) \/ WorkerTakes(v)
      PROVE  PodOK(u)' /\ ThreadOK'
  BY <1>4, CreateOK, LoopOK
<1>5. ASSUME NEW n \in Names, ApiDelete(n) \/ ApiGate(n) \/ ApiNotReady(n)
      PROVE  PodOK(u)' /\ ThreadOK'
  BY <1>5, OutsideOK
<1>6. CASE \/ UNCHANGED vars
           \/ \E v \in UIDs : ComputePodStatus(v)
  <2>1. UNCHANGED <<podStatuses, podStatusChannel, apiStatusVersions, thread, api,
                    written, acked, podManager, held, used>>
    BY <1>6 DEF vars, ComputePodStatus, othersVars, history
  <2>2. Frame(u)
    BY <2>1, SameShown DEF Frame, Pending, InChannel
  <2>3. QED
    BY <2>1, <2>2, FrameOK DEF OrderInv, ThreadOK
<1>7. QED
  BY <1>1, <1>2, <1>3, <1>4, <1>5, <1>6 DEF Next, Handles

LEMMA NextOrder == ASSUME Inv, OrderInv, [Next]_vars PROVE OrderInv'
<1>1. CASE UIDs # {}
  BY <1>1, NextPodOK DEF OrderInv
<1>2. CASE UIDs = {}
  <2>1. SyncRequest = {}
    BY <1>2 DEF SyncRequest
  <2>2. Inv'
    BY NextInv
  <2>3. thread'.queue = {} /\ thread'.pc \notin {"patch", "delete"}
    BY <2>1, <2>2 DEF Inv, TypeOK, InFlight
  <2>4. QED
    BY <1>2, <2>3 DEF OrderInv, ThreadOK
<1>3. QED
  BY <1>1, <1>2

\* While a pod is shown and not being deleted, what the API server shows, what
\* is recorded as sent, what is pending and what is cached of it are in the
\* order of their versions (updateStatusInternal, syncBatch, syncPod).
THEOREM OrderInvariance == Spec => [](Inv /\ OrderInv)
<1>1. Init => Inv /\ OrderInv
  BY InitInv, InitOrder
<1>2. (Inv /\ OrderInv) /\ [Next]_vars => (Inv /\ OrderInv)'
  BY NextInv, NextOrder
<1>3. QED
  BY <1>1, <1>2, PTL DEF Spec

\* Only a Patch that takes effect writes a version, that of its request.
LEMMA WritesRequest ==
  ASSUME Inv, [Next]_vars, NEW u \in UIDs, written'[u] # written[u]
  PROVE  /\ thread.pc = "patch" /\ thread.req.uid = u
         /\ written'[u] = thread.req.version
<1>1. Thread
  BY DEF Next, vars, RemoveOrphanedStatuses, SetPodStatus, SetContainerReadiness,
         SetContainerStartup, TerminatePod, Calls, othersVars, ComputePodStatus,
         ApiCreate, Handle, HandlePodAdd, HandlePodUpdate, HandlePodDelete, HandlePodRemove, WorkerTakes,
         ApiDelete, ApiGate, ApiNotReady, kubeletVars, history
<1>2. Patch
  BY <1>1 DEF Thread, TakeRequest, Drain, SyncBatch, SyncPod, SkipUpToDate,
              GetFails, GetReplaced, GetOK, Delete, history
<1>3. thread.pc = "patch" /\ thread.pod.uid = thread.req.uid
  BY <1>2 DEF Patch, Inv
<1>4. written' = [written EXCEPT ![thread.pod.uid] = thread.req.version]
  BY <1>2 DEF Patch
<1>5. QED
  BY <1>3, <1>4 DEF Inv, TypeOK

\* Nothing older than the newest acknowledged report reaches the API server,
\* for any number of pods, updates, failures and lost responses, whatever the
\* channel's capacity.
THEOREM ReportsOrdered == Spec => ReportsInOrder
<1>1. ASSUME Inv, OrderInv, [Next]_vars, NEW u \in UIDs, Live(u)
      PROVE  written'[u] >= acked[u]
  <2>1. written[u] \in Nat /\ acked[u] \in Nat /\ VersionsOK(u)
    BY <1>1 DEF Inv, TypeOK, OrderInv, PodOK
  <2>2. CASE written'[u] = written[u]
    BY <1>1, <2>1, <2>2 DEF VersionsOK
  <2>3. CASE written'[u] # written[u]
    <3>1. /\ thread.pc = "patch" /\ thread.req.uid = u
          /\ written'[u] = thread.req.version
      BY <1>1, <2>3, WritesRequest
    <3>2. acked[u] <= thread.req.version
      BY <1>1, <2>1, <3>1 DEF VersionsOK
    <3>3. thread.req.version \in Nat
      BY <1>1, <3>1 DEF Inv, SyncRequest
    <3>4. QED
      BY <2>1, <3>1, <3>2, <3>3
  <2>4. QED
    BY <2>2, <2>3
<1>2. (Inv /\ OrderInv) /\ [Next]_vars =>
        [\A u \in UIDs : Shown(u) # NoPod /\ ~Shown(u).deletion
                           => written'[u] >= acked[u]]_vars
  BY <1>1 DEF Live
<1>3. QED
  BY <1>2, OrderInvariance, PTL DEF Spec, ReportsInOrder

\* Only a Patch of its own request changes the container that the API
\* server shows of a pod, to the one that the request carries.
LEMMA ShowsRequest ==
  ASSUME Inv, OrderInv, [Next]_vars, NEW u \in UIDs, Shown(u) # NoPod,
         Shown(u)' # NoPod
  PROVE  \/ Shown(u)'.status.container = Shown(u).status.container
         \/ /\ thread.pc = "patch" /\ thread.req.uid = u
            /\ thread.pod.status.container = Shown(u).status.container =>
                 Shown(u)'.status.container = thread.req.status.container
<1>1. CASE api' = api
  BY <1>1, SameShown
<1>2. CASE Patch /\ api' # api
  <2> DEFINE r == thread.req
             n == NameOf[r.uid]
             merged == MergePodStatus(thread.pod.status, r.status,
                                      PodCouldHaveRunningContainers(thread.pod))
             new == [api[n] EXCEPT !.status =
                       Patched(api[n].status, thread.pod.status, merged)]
  <2>1. /\ thread.pc = "patch"
        /\ api[n].uid = thread.pod.uid
        /\ api' = [api EXCEPT ![n] = new]
    BY <1>2 DEF Patch
  <2>2. QED
    BY <2>1, PatchShows DEF ShownKept
<1>3. CASE Delete /\ api' # api
  <2>1. api' = [api EXCEPT ![NameOf[thread.req.uid]] = NoPod]
    BY <1>3 DEF Delete
  <2>2. Shown(u)' = Shown(u) \/ Shown(u)' = NoPod
    BY <2>1, PodsAssumption DEF Shown, NoPod, Inv, TypeOK
  <2>3. QED
    BY <2>2
<1>4. ASSUME NEW n \in Names, ApiDelete(n) \/ ApiGate(n) \/ ApiNotReady(n)
      PROVE  Shown(u)'.status.container = Shown(u).status.container
  BY <1>4, EnvShown DEF ShownKept
<1>5. ASSUME NEW v \in UIDs, ApiCreate(v)
      PROVE  Shown(u)'.status.container = Shown(u).status.container
  <2>1. NameOf[u] # NameOf[v]
    BY <1>5, PodsAssumption DEF ApiCreate, Shown, NoPod
  <2>2. api'[NameOf[u]] = api[NameOf[u]]
    BY <1>5, <2>1, PodsAssumption DEF ApiCreate, Inv, TypeOK
  <2>3. QED
    BY <2>2 DEF Shown
<1>6. \/ api' = api \/ Patch \/ Delete
      \/ \E v \in UIDs : ApiCreate(v)
      \/ \E n \in Names : ApiDelete(n) \/ ApiGate(n) \/ ApiNotReady(n)
  BY DEF Next, vars, Thread, RemoveOrphanedStatuses, SetPodStatus, SetContainerReadiness,
         SetContainerStartup, TerminatePod, Calls, othersVars, ComputePodStatus,
         Handle, HandlePodAdd, HandlePodUpdate, HandlePodDelete, HandlePodRemove, WorkerTakes,
         TakeRequest, Drain, SyncBatch, SyncPod, SkipUpToDate,
         GetFails, GetReplaced, GetOK
<1>7. QED
  BY <1>1, <1>2, <1>3, <1>4, <1>5, <1>6

\* With restart policy Never, no sequence of reports, lost requests, failed
\* calls and batches makes the API server show a container, whose end was
\* reported and acknowledged, as running again while the pod is not being
\* deleted.
THEOREM TerminatedSafe == Spec => TerminatedStaysTerminated
<1>1. ASSUME Inv, OrderInv, [Next]_vars, NEW u \in UIDs, Restart = "Never",
             Shown(u)' # NoPod, ~Shown(u).deletion, written[u] = acked[u],
             IsTerminated(Shown(u).status.container)
      PROVE  IsTerminated(Shown(u)'.status.container)
  <2>1. Shown(u) # NoPod
    BY <1>1 DEF NoPod, NoStatus, IsTerminated
  <2>2. Live(u)
    BY <1>1, <2>1 DEF Live
  <2>3. CASE Shown(u)'.status.container = Shown(u).status.container
    BY <1>1, <2>3
  <2>4. CASE /\ thread.pc = "patch" /\ thread.req.uid = u
             /\ thread.pod.status.container = Shown(u).status.container =>
                  Shown(u)'.status.container = thread.req.status.container
    <3>1. thread.req \in Pending(u)
      BY <1>1, <2>4, PendingUsed DEF OrderInv, ThreadOK
    <3>2. /\ written[u] <= thread.req.version
          /\ thread.pod.status.container = Shown(u).status.container
      BY <1>1, <2>2, <2>4 DEF OrderInv, PodOK, VersionsOK, TerminatedOK
    <3>3. Term(Shown(u).status)
      BY <1>1 DEF Term
    <3>4. Term(thread.req.status)
      BY <1>1, <2>2, <3>1, <3>2, <3>3 DEF OrderInv, PodOK, TerminatedOK
    <3>5. QED
      BY <2>4, <3>2, <3>4 DEF Term
  <2>5. QED
    BY <1>1, <2>1, <2>3, <2>4, ShowsRequest
<1>2. (Inv /\ OrderInv) /\ [Next]_vars =>
        [\A u \in UIDs :
           /\ Restart = "Never"
           /\ Shown(u)' # NoPod
           /\ ~Shown(u).deletion
           /\ written[u] = acked[u]
           /\ IsTerminated(Shown(u).status.container)
           => IsTerminated(Shown(u)'.status.container)]_vars
  BY <1>1
<1>3. QED
  BY <1>2, OrderInvariance, PTL DEF Spec, TerminatedStaysTerminated

\* A condition that kubelet does not own, written between the Get and the Patch
\* of syncPod or not, survives every write of the sync thread.
THEOREM ForeignConditionSafe == Spec => ForeignConditionKept
<1>1. ASSUME Inv, [Next]_vars, thread' # thread, NEW n \in Names, api'[n] # NoPod
      PROVE  api'[n].status.gate = api[n].status.gate
  <2>1. CASE api'[n] = api[n]
    BY <2>1
  <2>2. CASE api'[n] # api[n]
    <3>1. Thread
      BY <1>1 DEF Next, vars, RemoveOrphanedStatuses, SetPodStatus,
             SetContainerReadiness, SetContainerStartup, TerminatePod, Calls,
             othersVars, ComputePodStatus, ApiCreate, Handle, HandlePodAdd, HandlePodUpdate, HandlePodDelete,
             HandlePodRemove, WorkerTakes, ApiDelete, ApiGate, ApiNotReady, kubeletVars, history
    <3>2. Patch \/ Delete
      BY <2>2, <3>1 DEF Thread, TakeRequest, Drain, SyncBatch, SyncPod, SkipUpToDate,
                        GetFails, GetReplaced, GetOK
    <3>3. api \in [Names -> Pod] /\ api[n] \in Pod
      BY <1>1 DEF Inv, TypeOK
    <3>4. CASE Patch
      <4> DEFINE got == thread.pod
                 merged == MergePodStatus(got.status, thread.req.status,
                                          PodCouldHaveRunningContainers(got))
                 m == NameOf[thread.req.uid]
                 st == Patched(api[m].status, got.status, merged)
      <4>1. api' = [api EXCEPT ![m] = [api[m] EXCEPT !.status = st]]
        BY <2>2, <3>4 DEF Patch
      <4>2. thread.req.status \in PodStatus
        BY <1>1, <3>4 DEF Inv, Patch, SyncRequest
      <4>3. merged.gate = got.status.gate
        BY <4>2 DEF MergePodStatus, PodStatus
      <4>4. st.gate = api[m].status.gate
        BY <4>3 DEF Patched, Field
      <4> HIDE DEF st
      <4>5. m = n
        BY <2>2, <3>3, <4>1
      <4>6. QED
        BY <3>3, <4>1, <4>4, <4>5 DEF Pod
    <3>5. CASE Delete
      <4>1. api' = [api EXCEPT ![NameOf[thread.req.uid]] = NoPod]
        BY <2>2, <3>5 DEF Delete
      <4>2. QED
        BY <1>1, <2>2, <3>3, <4>1
    <3>6. QED
      BY <3>2, <3>4, <3>5
  <2>3. QED
    BY <2>1, <2>2
<1>2. Inv /\ [Next]_vars =>
        [thread' # thread =>
           \A n \in Names : api'[n] # NoPod =>
                              api'[n].status.gate = api[n].status.gate]_vars
  BY <1>1
<1>3. QED
  BY <1>2, StatusInvariance, PTL DEF Spec, ForeignConditionKept
=============================================================================
