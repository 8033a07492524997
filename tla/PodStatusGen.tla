----------------------------- MODULE PodStatusGen -----------------------------
(***************************************************************************)
(* The status that a worker computes for its pod (pkg/mycore/podfn.go,     *)
(* generateAPIPodStatus): from what the container runtime shows of the     *)
(* pod's containers now, from the status that the status manager holds,    *)
(* and from the phase that the API server shows.  The status manager may   *)
(* refuse the new status.  Containers run, exit, are restarted, get lost   *)
(* or are collected between two syncs, in any order.                       *)
(*                                                                         *)
(* The runtime is external: podfn.go is written for a runtime with         *)
(* histories and restarts.  This program's own stand-in (status.go) shows  *)
(* at most one attempt of each regular container, running or exited, which *)
(* is a special case.  Exit code 137 of an unseen end is "unknown".        *)
(***************************************************************************)
EXTENDS Naturals, Sequences

CONSTANTS
  Inits,        \* names of the init containers
  Containers,   \* names of the regular containers
  Policies,     \* restart policies to choose from
  Attempts,     \* bound: times each container is created
  MaxRestarts   \* bound: restarts counted for each container

Names == Inits \cup Containers

\* The API server admits no pod without a regular container.
ASSUME PodSpecAssumption == Containers # {} /\ Inits \cap Containers = {}

VARIABLES
  policy,    \* the pod's restart policy
  runtime,   \* attempts of each container the runtime knows, newest first
  attempts,  \* how often each container was created
  succeeded, \* containers that have really exited with zero
  reasons,   \* containers with an entry in the reason cache
  deleting,  \* the pod has a deletion timestamp
  shown,     \* the phase of the pod object that the worker holds
  status,    \* the status that the status manager holds
  synced     \* the last step was a sync

vars == <<policy, runtime, attempts, succeeded, reasons, deleting, shown, status, synced>>

Phases == {"Pending", "Running", "Succeeded", "Failed"}
IsTerminal(phase) == phase \in {"Succeeded", "Failed"}

\* v1.ContainerState: waiting with a reason, running, terminated with a code.
Nothing == [is |-> "nothing", info |-> ""]
Waiting(reason) == [is |-> "waiting", info |-> reason]
Running == [is |-> "running", info |-> ""]
Terminated(code) == [is |-> "terminated", info |-> code]
Failure(state) == state.is = "terminated" /\ state.info # "zero"

\* The status of a container of which nothing was reported yet.
Unreported == [state |-> Nothing, last |-> Nothing, restarts |-> 0]

Init ==
  /\ policy \in Policies
  /\ runtime = [n \in Names |-> <<>>]
  /\ attempts = [n \in Names |-> 0]
  /\ succeeded = {}
  /\ reasons = {}
  /\ deleting = FALSE
  /\ shown = "Pending"
  /\ status = [phase |-> "Pending", of |-> [n \in Names |-> Unreported]]
  /\ synced = FALSE

-----------------------------------------------------------------------------
(* convertToAPIContainerStatuses, for one container *)

DefaultStatus_ForgetsEnd(old) ==
  [state |-> Waiting("default"), last |-> old.last, restarts |-> old.restarts]

DefaultStatus_ForgetsLast(old) ==
  IF old.state.is = "terminated" THEN old
  ELSE [state |-> Waiting("default"), last |-> Nothing, restarts |-> old.restarts]

\* A container that ended stays so; any other waits for its creation.
DefaultStatus(old) ==
  IF old.state.is = "terminated" THEN old
  ELSE [state |-> Waiting("default"), last |-> old.last, restarts |-> old.restarts]

Vanished_Ignored(old) == DefaultStatus(old)

\* The runtime knows nothing of the container.  One that was running must have
\* ended: it waits, with an unknown last end, and has been restarted unless the
\* pod is being deleted.
Vanished(old) ==
  LET default == DefaultStatus(old) IN
  IF old.state.is = "running" /\ default.last.is # "terminated"
  THEN [default EXCEPT !.last = Terminated("unknown"),
                       !.restarts = IF deleting THEN @ ELSE @ + 1]
  ELSE default

\* convertContainerStatus: one attempt that the runtime knows.
Convert(attempt, old) ==
  LET seen(state) == [state |-> state, last |-> Nothing, restarts |-> attempt.restarts]
  IN  CASE attempt.state = "running" -> seen(Running)
        [] attempt.state = "exited" -> seen(Terminated(attempt.code))
        [] attempt.state = "unknown" /\ old.state.is = "running" ->
             [seen(Terminated("unknown")) EXCEPT !.restarts = old.restarts + 1]
        [] OTHER -> seen(Waiting(""))

\* The newest attempt, and the one before it as the last end.
Seen(n, old) ==
  [Convert(runtime[n][1], old) EXCEPT
     !.last = IF Len(runtime[n]) = 1 THEN Nothing ELSE Convert(runtime[n][2], old).state]

\* FindContainerStatusByName: the state of the newest attempt.
Newest(n, state) == runtime[n] # <<>> /\ runtime[n][1].state = state

ShouldContainerBeRestarted(n) ==
  /\ ~deleting
  /\ \/ runtime[n] = <<>>
     \/ Newest(n, "unknown") \/ Newest(n, "created")
     \/ /\ Newest(n, "exited")
        /\ policy = "Always" \/ (policy = "OnFailure" /\ runtime[n][1].code # "zero")

InitDone(n) ==
  n \in Inits /\ Newest(n, "exited") /\ runtime[n][1].code = "zero"

\* A container that is to be restarted and failed to start is waiting.
StartFailure(n, new) ==
  IF ~InitDone(n) /\ ShouldContainerBeRestarted(n) /\ n \in reasons
  THEN [new EXCEPT !.state = Waiting("start failed"),
                   !.last = IF new.state.is = "terminated" THEN new.state ELSE @]
  ELSE new

ConvertToAPIContainerStatus(n, old) ==
  StartFailure(n, IF runtime[n] = <<>> THEN Vanished(old) ELSE Seen(n, old))

-----------------------------------------------------------------------------
(* generateAPIPodStatus *)

\* A waiting container that has an end behind it counts as stopped.
GetPhase_LastIsNoEnd(of) ==
  LET is(state) == {n \in Containers : of[n].state.is = state}
      ended(n) == of[n].state.is = "waiting" /\ of[n].last.is = "terminated"
      failedInit == {n \in Inits : Failure(of[n].state) \/ (ended(n) /\ Failure(of[n].last))}
      pendingInit == {n \in Inits : of[n].state.is # "terminated" /\ ~ended(n)}
  IN  IF failedInit # {} /\ policy = "Never" THEN "Failed"
      ELSE IF pendingInit # {} \/ \E n \in is("waiting") : ~ended(n) THEN "Pending"
      ELSE IF is("running") # {} \/ policy = "Always" THEN "Running"
      ELSE IF \A n \in Containers : ~Failure(of[n].state) THEN "Succeeded"
      ELSE IF policy = "Never" THEN "Failed" ELSE "Running"

GetPhase(of) ==
  LET is(state) == {n \in Containers : of[n].state.is = state}
      ended(n) == of[n].state.is = "waiting" /\ of[n].last.is = "terminated"
      failedInit == {n \in Inits : Failure(of[n].state) \/ (ended(n) /\ Failure(of[n].last))}
      pendingInit == {n \in Inits : of[n].state.is # "terminated" /\ ~ended(n)}
  IN  IF failedInit # {} /\ policy = "Never" THEN "Failed"
      ELSE IF pendingInit # {} \/ \E n \in is("waiting") : ~ended(n) THEN "Pending"
      ELSE IF is("running") # {} \/ policy = "Always" THEN "Running"
      ELSE IF \A n \in Containers : of[n].state = Terminated("zero") THEN "Succeeded"
      ELSE IF policy = "Never" THEN "Failed" ELSE "Running"

\* A terminal phase, the last one or the API server's, is kept; the API
\* server's wins.
NextPhase(phase) ==
  IF IsTerminal(shown) THEN shown
  ELSE IF IsTerminal(status.phase) /\ ~IsTerminal(phase) THEN status.phase
  ELSE phase

\* GeneratePodInitializedCondition; an init container is ready when it has
\* succeeded (UpdatePodStatus of the prober).
Initialized(s) ==
  \/ s.phase = "Succeeded"
  \/ \A n \in Inits : s.of[n].state = Terminated("zero")

Generated ==
  LET of == [n \in Names |-> ConvertToAPIContainerStatus(n, status.of[n])]
  IN  [phase |-> NextPhase(GetPhase(of)), of |-> of]

\* checkContainerStateTransition of the status manager: a container that ended
\* for good stays so.
LegalTransition(new) ==
  policy = "Always" \/
    \A n \in Names :
      /\ status.of[n].state.is = "terminated"
      /\ ~(Failure(status.of[n].state) /\ policy = "OnFailure")
      => new.of[n].state.is = "terminated"

\* The status that the status manager holds after a sync: a refused one is lost,
\* and the next sync builds on the one before.
Accepted ==
  LET new == Generated IN IF LegalTransition(new) THEN new ELSE status

Sync ==
  /\ status' = Accepted
  /\ \A n \in Names : status'.of[n].restarts <= MaxRestarts
  /\ synced' = TRUE
  /\ UNCHANGED <<policy, runtime, attempts, succeeded, reasons, deleting, shown>>

-----------------------------------------------------------------------------
(* The world between two syncs *)

Change(n, history) ==
  /\ runtime' = [runtime EXCEPT ![n] = history]
  /\ synced' = FALSE
  /\ UNCHANGED <<policy, deleting, shown, status>>

\* Containers are created when they should be restarted (a lost one has to end
\* first), init containers until they succeed, regular ones after them.
MayStart(n) ==
  /\ ~IsTerminal(status.phase)
  /\ ShouldContainerBeRestarted(n)
  /\ ~Newest(n, "created") /\ ~Newest(n, "unknown")
  /\ IF n \in Inits THEN n \notin succeeded ELSE Inits \subseteq succeeded

Create(n) ==
  /\ MayStart(n)
  /\ attempts[n] < Attempts[n]
  /\ attempts' = [attempts EXCEPT ![n] = @ + 1]
  /\ Change(n, <<[state |-> "created", code |-> "", restarts |-> attempts[n]]>> \o runtime[n])
  /\ UNCHANGED <<succeeded, reasons>>

\* The reason cache: a failed start is recorded, a successful one forgotten.
FailToStart(n) ==
  /\ (MayStart(n) /\ attempts[n] < Attempts[n]) \/ Newest(n, "created")
  /\ n \notin reasons
  /\ reasons' = reasons \cup {n}
  /\ Change(n, runtime[n])
  /\ UNCHANGED <<attempts, succeeded>>

Start(n) ==
  /\ Newest(n, "created")
  /\ reasons' = reasons \ {n}
  /\ Change(n, [runtime[n] EXCEPT ![1].state = "running"])
  /\ UNCHANGED <<attempts, succeeded>>

Exit(n, code) ==
  /\ Newest(n, "running") \/ Newest(n, "unknown")
  /\ succeeded' = IF code = "zero" THEN succeeded \cup {n} ELSE succeeded
  /\ Change(n, [runtime[n] EXCEPT ![1].state = "exited", ![1].code = code])
  /\ UNCHANGED <<attempts, reasons>>

\* The runtime cannot tell what became of a container.
Lose(n) ==
  /\ Newest(n, "running")
  /\ Change(n, [runtime[n] EXCEPT ![1].state = "unknown"])
  /\ UNCHANGED <<attempts, succeeded, reasons>>

\* Everything about a container is gone: it was removed, dead or alive.
Vanish(n) ==
  /\ runtime[n] # <<>>
  /\ Change(n, <<>>)
  /\ UNCHANGED <<attempts, succeeded, reasons>>

Delete ==
  /\ ~deleting
  /\ deleting' = TRUE
  /\ synced' = FALSE
  /\ UNCHANGED <<policy, runtime, attempts, succeeded, reasons, shown, status>>

\* The worker's pod object comes to show the phase reported last (which makes
\* a difference only when it is terminal).
Publish ==
  /\ shown # status.phase
  /\ IsTerminal(status.phase)
  /\ shown' = status.phase
  /\ synced' = FALSE
  /\ UNCHANGED <<policy, runtime, attempts, succeeded, reasons, deleting, status>>

\* Another controller gives up the pod, as the pod garbage collector does when
\* the node is gone, and the worker's pod object shows it.
FailPod ==
  /\ ~IsTerminal(shown)
  /\ shown' = "Failed"
  /\ synced' = FALSE
  /\ UNCHANGED <<policy, runtime, attempts, succeeded, reasons, deleting, status>>

Next ==
  \/ Sync
  \/ \E n \in Names :
       \/ Create(n) \/ FailToStart(n) \/ Start(n) \/ Lose(n) \/ Vanish(n)
       \/ \E code \in {"zero", "failed"} : Exit(n, code)
  \/ Delete
  \/ Publish
  \/ FailPod

Spec == Init /\ [][Next]_vars

-----------------------------------------------------------------------------
(* Properties *)

\* A pod is reported as succeeded only when every regular container has really
\* exited with zero: neither one that was removed unseen nor one that waits for
\* a restart counts as a success.
SucceededIsTrue == status.phase = "Succeeded" => Containers \subseteq succeeded

\* A second sync with nothing new changes nothing: ends are not forgotten and
\* restarts not counted twice.  (Not so for a container in the unknown state,
\* which is reported as ended once and as waiting from then on, where the status
\* manager lets it.)
SyncSettles ==
  [][Sync /\ synced /\ (\A n \in Names : ~Newest(n, "unknown")) => status' = status]_vars

\* A pod that was running is not reported as pending again because containers
\* vanished; only a new attempt, or a lost one, may make it wait.
RanIsNotPending ==
  [][Sync /\ status.phase = "Running"
       /\ (\A n \in Names : ~Newest(n, "created") /\ ~Newest(n, "unknown"))
     => status'.phase # "Pending"]_vars

\* Once reported, the pod's initialization stays reported, though the init
\* containers that succeeded are removed from the runtime.  (A pod that is
\* initialized because it has succeeded loses that when another controller fails
\* it before its success is shown.)
InitializedIsKept ==
  [][Initialized(status) /\ ~(status.phase = "Succeeded" /\ shown = "Failed")
     => Initialized(status')]_vars

-----------------------------------------------------------------------------
(* The inductive invariant behind them *)

Codes == {"", "zero", "failed", "unknown"}
ContainerState == [is: {"nothing", "waiting", "running", "terminated"},
                   info: Codes \cup {"default", "start failed"}]
ContainerStatus == [state: ContainerState, last: ContainerState, restarts: Nat]
Attempt == [state: {"created", "running", "exited", "unknown"}, code: Codes, restarts: Nat]

\* Type invariant.
GenTypeOK ==
  /\ runtime \in [Names -> Seq(Attempt)]
  /\ attempts \in [Names -> Nat]
  /\ succeeded \in SUBSET Names /\ reasons \in SUBSET Names
  /\ shown \in Phases
  /\ status \in [phase: Phases, of: [Names -> ContainerStatus]]

\* The newest attempt has exited with zero.
Zero(n) == Newest(n, "exited") /\ runtime[n][1].code = "zero"

\* What the runtime knows of a container: only its newest attempt may be
\* anything but over, a zero is a real success, a start that failed belongs to
\* no attempt that runs or has done its work, an init container that has
\* succeeded is not started again, and no regular container is created before
\* the init containers have succeeded.
RuntimeOK(n) ==
  /\ \A i \in DOMAIN runtime[n] : i # 1 => runtime[n][i].state = "exited"
  /\ Zero(n) => n \in succeeded
  /\ Newest(n, "running") \/ Newest(n, "unknown") => n \notin reasons
  /\ Zero(n) /\ policy # "Always" => n \notin reasons
  /\ n \in Inits \cap succeeded => n \notin reasons /\ (runtime[n] = <<>> \/ Zero(n))
  /\ n \in Containers /\ runtime[n] # <<>> => Inits \subseteq succeeded

HasRun(s) == s.state.is \in {"running", "terminated"} \/ s.last.is = "terminated"

\* What was reported of a container last is as true.
ReportOK(n) ==
  LET s == status.of[n] IN
  /\ s.state = Terminated("zero") => n \in succeeded
  /\ n \in Containers /\ HasRun(s) => Inits \subseteq succeeded
  /\ s.state.is = "nothing" => status.phase = "Pending"

\* The reported phase is still the one that the reported containers give, for
\* a pod that runs and for one that has succeeded: its containers are over, and
\* nothing was tried with them since (unless the pod is being deleted, when
\* failed starts no longer count).
PhaseOK ==
  /\ shown = "Succeeded" => status.phase = "Succeeded"
  /\ status.phase \in {"Running", "Succeeded"} => GetPhase(status.of) = status.phase
  /\ status.phase = "Succeeded" =>
       \A n \in Containers : /\ deleting \/ n \notin reasons
                             /\ runtime[n] = <<>> \/ Zero(n)
\* Right after a sync the status is what the next sync would leave.
Settled == synced /\ (\A n \in Names : ~Newest(n, "unknown")) => Accepted = status

GenIInv ==
  /\ GenTypeOK /\ SucceededIsTrue /\ PhaseOK /\ Settled
  /\ \A n \in Names : RuntimeOK(n) /\ ReportOK(n)

=============================================================================
