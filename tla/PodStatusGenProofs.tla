------------------------- MODULE PodStatusGenProofs -------------------------
(***************************************************************************)
(* What the computed status promises, for any containers, init containers  *)
(* and restart policies, and for any number of attempts and restarts.      *)
(***************************************************************************)
EXTENDS PodStatusGen, TLAPS

\* The states that podfn.go makes, and how they differ.
LEMMA States ==
  /\ Nothing \in ContainerState /\ Nothing.is = "nothing"
  /\ Running \in ContainerState /\ Running.is = "running"
  /\ \A r \in {"", "default", "start failed"} :
       Waiting(r) \in ContainerState /\ Waiting(r).is = "waiting"
  /\ \A c \in Codes : /\ Terminated(c) \in ContainerState
                       /\ Terminated(c).is = "terminated" /\ Terminated(c).info = c
BY DEF Nothing, Running, Waiting, Terminated, ContainerState, Codes

\* convertContainerStatus.
LEMMA ConvertFacts ==
  ASSUME NEW a \in Attempt, NEW old \in ContainerStatus
  PROVE  /\ Convert(a, old) \in ContainerStatus
         /\ a.state = "running" => Convert(a, old).state = Running
         /\ a.state = "exited" => Convert(a, old).state = Terminated(a.code)
         /\ a.state = "created" => Convert(a, old).state.is = "waiting"
         /\ a.state # "exited" => Convert(a, old).state.info # "zero"
         /\ Convert(a, old).state.is \in {"waiting", "running", "terminated"}
         /\ \A other \in ContainerStatus :
              a.state # "unknown" => Convert(a, other) = Convert(a, old)
<1>0. a.state \in {"created", "running", "exited", "unknown"}
  BY DEF Attempt
<1> DEFINE s == IF a.state = "running" THEN [is |-> "running", info |-> ""]
                ELSE IF a.state = "exited" THEN [is |-> "terminated", info |-> a.code]
                ELSE IF a.state = "unknown" /\ old.state.is = "running"
                THEN [is |-> "terminated", info |-> "unknown"]
                ELSE [is |-> "waiting", info |-> ""]
           r == IF a.state = "unknown" /\ old.state.is = "running" THEN old.restarts + 1
                ELSE a.restarts
           l == [is |-> "nothing", info |-> ""]
<1>1. Convert(a, old) = [state |-> s, last |-> l, restarts |-> r]
  BY <1>0 DEF Convert, Running, Terminated, Waiting, Nothing
<1>2. s \in ContainerState /\ l \in ContainerState
  BY DEF ContainerState, Codes, Attempt
<1>3. r \in Nat
  BY DEF ContainerStatus, Attempt
<1>4. Convert(a, old) \in ContainerStatus
  <2> HIDE DEF s, l, r
  <2> QED
    BY <1>1, <1>2, <1>3 DEF ContainerStatus
<1>5. /\ a.state = "running" => Convert(a, old).state = Running
      /\ a.state = "exited" => Convert(a, old).state = Terminated(a.code)
      /\ a.state = "created" => Convert(a, old).state.is = "waiting"
  BY DEF Convert, Running, Terminated, Waiting
<1>6. /\ a.state # "exited" => Convert(a, old).state.info # "zero"
      /\ Convert(a, old).state.is \in {"waiting", "running", "terminated"}
  BY <1>0 DEF Convert, Running, Terminated, Waiting
<1>7. \A other \in ContainerStatus :
        a.state # "unknown" => Convert(a, other) = Convert(a, old)
  BY <1>0 DEF Convert
<1> QED
  BY <1>4, <1>5, <1>6, <1>7

\* The attempts of a container that the runtime knows.
LEMMA RuntimeHead ==
  ASSUME GenTypeOK, NEW n \in Names, runtime[n] # <<>>
  PROVE  /\ runtime[n] \in Seq(Attempt) /\ runtime[n][1] \in Attempt /\ 1 \in DOMAIN runtime[n]
         /\ Len(runtime[n]) # 1 => runtime[n][2] \in Attempt /\ 2 \in DOMAIN runtime[n]
<1>1. runtime[n] \in Seq(Attempt)
  BY DEF GenTypeOK
<1>2. Len(runtime[n]) \in Nat /\ Len(runtime[n]) # 0 /\ DOMAIN runtime[n] = 1..Len(runtime[n])
  BY <1>1
<1>3. runtime[n][1] \in Attempt /\ 1 \in DOMAIN runtime[n]
  BY <1>1, <1>2
<1>4. Len(runtime[n]) # 1 => 2 \in DOMAIN runtime[n]
  <2>1. ASSUME NEW k \in Nat, k # 0, k # 1 PROVE 2 \in 1..k
    BY <2>1
  <2> QED
    BY <2>1, <1>2
<1>5. ASSUME NEW q \in Seq(Attempt), NEW i \in DOMAIN q PROVE q[i] \in Attempt
  OBVIOUS
<1>6. CASE Len(runtime[n]) = 1
  BY <1>1, <1>3, <1>6
<1>7. CASE Len(runtime[n]) # 1
  <2>1. 2 \in DOMAIN runtime[n]
    BY <1>4, <1>7
  <2>2. runtime[n][2] \in Attempt
    BY <2>1, <1>1, <1>5
  <2> QED
    BY <2>1, <2>2, <1>1, <1>3
<1> QED
  BY <1>6, <1>7

\* A container that the runtime knows.
LEMMA SeenFacts ==
  ASSUME GenTypeOK, NEW n \in Names, RuntimeOK(n), runtime[n] # <<>>,
         NEW old \in ContainerStatus
  PROVE  LET new == Seen(n, old) IN
         /\ new \in ContainerStatus
         /\ Newest(n, "running") => new.state = Running
         /\ Newest(n, "exited") => new.state = Terminated(runtime[n][1].code)
         /\ new.state.is \in {"waiting", "running", "terminated"}
         /\ new.state = Terminated("zero") => Zero(n)
         /\ \A other \in ContainerStatus : ~Newest(n, "unknown") => Seen(n, other) = new
<1>1. /\ runtime[n] \in Seq(Attempt) /\ runtime[n][1] \in Attempt /\ 1 \in DOMAIN runtime[n]
      /\ Len(runtime[n]) # 1 => runtime[n][2] \in Attempt /\ 2 \in DOMAIN runtime[n]
  BY RuntimeHead
<1>2. Len(runtime[n]) # 1 => runtime[n][2].state = "exited"
  BY <1>1 DEF RuntimeOK
<1> DEFINE last(o) == IF Len(runtime[n]) = 1 THEN Nothing ELSE Convert(runtime[n][2], o).state
<1>3. ASSUME NEW o \in ContainerStatus PROVE last(o) \in ContainerState
  <2>1. CASE Len(runtime[n]) = 1
    BY <2>1, States
  <2>2. CASE Len(runtime[n]) # 1
    BY <2>2, <1>1, ConvertFacts DEF ContainerStatus
  <2> QED
    BY <2>1, <2>2
<1>4. \A o \in ContainerStatus : last(o) = last(old)
  BY <1>1, <1>2, ConvertFacts
<1>5. ASSUME NEW o \in ContainerStatus
      PROVE  /\ Seen(n, o) = [Convert(runtime[n][1], o) EXCEPT !.last = last(o)]
             /\ Seen(n, o) \in ContainerStatus
             /\ Seen(n, o).state = Convert(runtime[n][1], o).state
  <2>1. Seen(n, o) = [Convert(runtime[n][1], o) EXCEPT !.last = last(o)]
    BY DEF Seen
  <2>2. Convert(runtime[n][1], o) \in ContainerStatus
    BY <1>1, ConvertFacts
  <2> HIDE DEF last
  <2> QED
    BY <2>1, <2>2, <1>3 DEF ContainerStatus
<1> HIDE DEF last
<1>6. Newest(n, "running") => Seen(n, old).state = Running
  BY <1>1, <1>5, ConvertFacts DEF Newest
<1>7. Newest(n, "exited") => Seen(n, old).state = Terminated(runtime[n][1].code)
  BY <1>1, <1>5, ConvertFacts DEF Newest
<1>8. ASSUME NEW other \in ContainerStatus, ~Newest(n, "unknown")
      PROVE  Seen(n, other) = Seen(n, old)
  <2>1. Convert(runtime[n][1], other) = Convert(runtime[n][1], old)
    BY <1>1, <1>8, ConvertFacts DEF Newest
  <2> QED
    BY <2>1, <1>4, <1>5
<1>9. Seen(n, old).state = Terminated("zero") => Zero(n)
  <2>1. runtime[n][1].state = "exited" => Convert(runtime[n][1], old).state.info = runtime[n][1].code
    BY DEF Convert, Terminated
  <2>2. runtime[n][1].state # "exited" => Convert(runtime[n][1], old).state.info # "zero"
    BY <1>1, ConvertFacts
  <2>3. Terminated("zero").info = "zero"
    BY DEF Terminated
  <2>4. Seen(n, old).state = Terminated("zero") =>
          runtime[n][1].state = "exited" /\ runtime[n][1].code = "zero"
    BY <2>1, <2>2, <2>3, <1>5
  <2> QED
    BY <2>4 DEF Zero, Newest
<1>10. Seen(n, old).state.is \in {"waiting", "running", "terminated"}
  BY <1>1, <1>5, ConvertFacts
<1> QED
  BY <1>5, <1>6, <1>7, <1>8, <1>9, <1>10

\* A container that the runtime does not know, or no longer.
LEMMA VanishedFacts ==
  ASSUME NEW old \in ContainerStatus
  PROVE  LET new == Vanished(old) IN
         /\ new \in ContainerStatus
         /\ old.state.is = "terminated" => new = old
         /\ old.state.is # "terminated" => new.state = Waiting("default")
         /\ old.state.is \notin {"terminated", "running"} =>
              new.last = old.last /\ new.restarts = old.restarts
         /\ old.state.is = "running" => new.last.is = "terminated"
<1>0. /\ old.state \in ContainerState /\ old.last \in ContainerState /\ old.restarts \in Nat
      /\ old.state.is \in {"nothing", "waiting", "running", "terminated"}
  BY DEF ContainerStatus, ContainerState
<1> DEFINE s == [is |-> "waiting", info |-> "default"]
           l == [is |-> "terminated", info |-> "unknown"]
<1>1. s \in ContainerState /\ l \in ContainerState
  BY DEF ContainerState, Codes
<1>2. \/ Vanished(old) = old
      \/ \E last \in {l, old.last}, r \in {old.restarts, old.restarts + 1} :
           Vanished(old) = [state |-> s, last |-> last, restarts |-> r]
  BY DEF Vanished, DefaultStatus, Waiting, Terminated
<1>3. old.restarts + 1 \in Nat
  BY <1>0
<1>4. Vanished(old) \in ContainerStatus
  <2> HIDE DEF s, l
  <2> QED
    BY <1>0, <1>1, <1>2, <1>3 DEF ContainerStatus
<1>5. LET new == Vanished(old) IN
      /\ old.state.is = "terminated" => new = old
      /\ old.state.is # "terminated" => new.state = Waiting("default")
      /\ old.state.is \notin {"terminated", "running"} =>
           new.last = old.last /\ new.restarts = old.restarts
      /\ old.state.is = "running" => new.last.is = "terminated"
  BY DEF ContainerStatus, ContainerState, Vanished, DefaultStatus, Waiting, Terminated
<1> QED
  BY <1>4, <1>5

\* What one sync makes of one container: nothing is invented, nothing that has
\* happened is forgotten, and a second sync would make the same of it.
LEMMA SyncOne ==
  ASSUME GenTypeOK, NEW n \in Names, RuntimeOK(n), NEW old \in ContainerStatus
  PROVE  LET new == ConvertToAPIContainerStatus(n, old) IN
         /\ new \in ContainerStatus
         /\ new.state.is # "nothing"
         /\ new.state = Terminated("zero") =>
              /\ n \in succeeded \/ old.state = Terminated("zero")
              /\ deleting \/ n \notin reasons \/ policy = "Always"
              /\ runtime[n] = <<>> \/ Zero(n)
         /\ HasRun(new) => runtime[n] # <<>> \/ HasRun(old)
         /\ HasRun(old) /\ ~Newest(n, "created") /\ ~Newest(n, "unknown") => HasRun(new)
         /\ deleting \/ n \notin reasons =>
              /\ Zero(n) => new.state = Terminated("zero")
              /\ runtime[n] = <<>> => new = Vanished(old)
         /\ ~Newest(n, "unknown") => ConvertToAPIContainerStatus(n, new) = new
<1> DEFINE base(o) == IF runtime[n] = <<>> THEN Vanished(o) ELSE Seen(n, o)
           fails == ~InitDone(n) /\ ShouldContainerBeRestarted(n) /\ n \in reasons
           wait(b) == [b EXCEPT !.state = [is |-> "waiting", info |-> "start failed"],
                                !.last = IF b.state.is = "terminated" THEN b.state ELSE @]
<1>1. \A o : ConvertToAPIContainerStatus(n, o) = IF fails THEN wait(base(o)) ELSE base(o)
  BY DEF ConvertToAPIContainerStatus, StartFailure, Waiting
<1>2. ASSUME NEW o \in ContainerStatus PROVE base(o) \in ContainerStatus
  BY SeenFacts, VanishedFacts
<1>3. ASSUME NEW b \in ContainerStatus
      PROVE  /\ wait(b) \in ContainerStatus
             /\ wait(b).state.is = "waiting" /\ wait(b).state # Terminated("zero")
             /\ b.state.is = "terminated" => wait(b).last.is = "terminated"
             /\ b.state.is # "terminated" => wait(b).last = b.last
             /\ wait(b).restarts = b.restarts
  <2>1. [is |-> "waiting", info |-> "start failed"] \in ContainerState
    BY DEF ContainerState, Codes
  <2> DEFINE s == [is |-> "waiting", info |-> "start failed"]
             l == IF b.state.is = "terminated" THEN b.state ELSE b.last
  <2>2. wait(b) = [b EXCEPT !.state = s, !.last = l]
    OBVIOUS
  <2>3. l \in ContainerState
    BY DEF ContainerStatus
  <2>4. s \in ContainerState /\ s.is = "waiting" /\ s # Terminated("zero")
    BY <2>1 DEF Terminated
  <2>5. /\ wait(b) \in ContainerStatus /\ wait(b).state = s /\ wait(b).last = l
        /\ wait(b).restarts = b.restarts
    <3> HIDE DEF s, l
    <3> QED
      BY <2>2, <2>3, <2>4 DEF ContainerStatus
  <2> QED
    BY <2>4, <2>5
<1> DEFINE new == ConvertToAPIContainerStatus(n, old)
<1> HIDE DEF base, wait
<1>4. new \in ContainerStatus
  BY <1>1, <1>2, <1>3
<1>5. /\ base(old).state.is # "nothing"
      /\ base(old).state.is \in {"waiting", "running", "terminated"}
  <2>1. CASE runtime[n] = <<>>
    BY <2>1, VanishedFacts DEF base, Waiting
  <2>2. CASE runtime[n] # <<>>
    BY <2>2, SeenFacts DEF base
  <2> QED
    BY <2>1, <2>2
<1>6. new.state.is # "nothing"
  BY <1>1, <1>2, <1>3, <1>5
<1>7. new.state = Terminated("zero") =>
        /\ n \in succeeded \/ old.state = Terminated("zero")
        /\ deleting \/ n \notin reasons \/ policy = "Always"
        /\ runtime[n] = <<>> \/ Zero(n)
  <2> SUFFICES ASSUME new.state = Terminated("zero")
               PROVE  /\ n \in succeeded \/ old.state = Terminated("zero")
                      /\ deleting \/ n \notin reasons \/ policy = "Always"
                      /\ runtime[n] = <<>> \/ Zero(n)
    OBVIOUS
  <2>1. ~fails /\ base(old).state = Terminated("zero")
    BY <1>1, <1>2, <1>3
  <2>2. CASE runtime[n] = <<>>
    <3>1. deleting \/ n \notin reasons
      BY <2>1, <2>2 DEF InitDone, Newest, ShouldContainerBeRestarted
    <3>2. Waiting("default") # Terminated("zero")
      BY DEF Waiting, Terminated
    <3> QED
      BY <3>1, <3>2, <2>1, <2>2, VanishedFacts DEF base
  <2>3. CASE runtime[n] # <<>>
    BY <2>1, <2>3, SeenFacts DEF base, RuntimeOK
  <2> QED
    BY <2>2, <2>3
<1>8. HasRun(new) => runtime[n] # <<>> \/ HasRun(old)
  <2> SUFFICES ASSUME runtime[n] = <<>>, ~HasRun(old) PROVE ~HasRun(new)
    OBVIOUS
  <2>1. base(old) = Vanished(old)
    BY DEF base
  <2>2. base(old).state.is = "waiting" /\ base(old).last.is # "terminated"
    BY <2>1, VanishedFacts DEF HasRun, Waiting
  <2> QED
    BY <2>2, <1>1, <1>2, <1>3 DEF HasRun
<1>9. HasRun(old) /\ ~Newest(n, "created") /\ ~Newest(n, "unknown") => HasRun(new)
  <2> SUFFICES ASSUME HasRun(old), ~Newest(n, "created"), ~Newest(n, "unknown")
               PROVE  HasRun(new)
    OBVIOUS
  <2>1. HasRun(base(old))
    <3>1. CASE runtime[n] = <<>>
      BY <3>1, VanishedFacts DEF base, HasRun
    <3>2. CASE runtime[n] # <<>>
      <4>1. Newest(n, "running") \/ Newest(n, "exited")
        BY <3>2, RuntimeHead DEF Newest, Attempt
      <4>2. Running.is = "running" /\ \A c : Terminated(c).is = "terminated"
        BY DEF Running, Terminated
      <4> QED
        BY <3>2, <4>1, <4>2, SeenFacts DEF base, HasRun
    <3> QED
      BY <3>1, <3>2
  <2>2. fails => base(old).state.is # "running"
    <3>1. CASE runtime[n] = <<>>
      BY <3>1, VanishedFacts DEF base, Waiting
    <3>2. CASE runtime[n] # <<>>
      <4>1. fails => Newest(n, "exited")
        BY <3>2 DEF ShouldContainerBeRestarted
      <4>2. \A c : Terminated(c).is = "terminated"
        BY DEF Terminated
      <4> QED
        BY <3>2, <4>1, <4>2, SeenFacts DEF base
    <3> QED
      BY <3>1, <3>2
  <2> QED
    BY <2>1, <2>2, <1>1, <1>2, <1>3 DEF HasRun
<1>10. deleting \/ n \notin reasons =>
         /\ Zero(n) => new.state = Terminated("zero")
         /\ runtime[n] = <<>> => new = Vanished(old)
  <2> SUFFICES ASSUME deleting \/ n \notin reasons
               PROVE  /\ Zero(n) => new.state = Terminated("zero")
                      /\ runtime[n] = <<>> => new = Vanished(old)
    OBVIOUS
  <2>1. new = base(old)
    BY <1>1 DEF ShouldContainerBeRestarted
  <2>2. Zero(n) => runtime[n] # <<>> /\ runtime[n][1].code = "zero" /\ Newest(n, "exited")
    BY DEF Zero, Newest
  <2>3. Zero(n) => base(old).state = Terminated(runtime[n][1].code)
    BY <2>2, SeenFacts DEF base
  <2> QED
    BY <2>1, <2>2, <2>3 DEF base, Terminated
<1>11. ~Newest(n, "unknown") => ConvertToAPIContainerStatus(n, new) = new
  <2> SUFFICES ASSUME ~Newest(n, "unknown")
               PROVE  ConvertToAPIContainerStatus(n, new) = new
    OBVIOUS
  <2>1. CASE runtime[n] # <<>>
    <3>1. base(new) = base(old)
      BY <2>1, <1>4, SeenFacts DEF base
    <3> QED
      BY <3>1, <1>1
  <2>2. CASE runtime[n] = <<>> /\ ~fails
    <3>1. new = Vanished(old) /\ ConvertToAPIContainerStatus(n, new) = Vanished(new)
      BY <2>2, <1>1 DEF base
    <3>2. new.state.is = "terminated" => Vanished(new) = new
      BY <1>4, VanishedFacts
    <3>3. new.state.is # "terminated" => new.state = Waiting("default")
      BY <3>1, VanishedFacts
    <3>4. new.state = Waiting("default") => Vanished(new) = new
      <4>1. ASSUME NEW s \in ContainerStatus, s.state = Waiting("default")
            PROVE  Vanished(s) = s
        BY <4>1 DEF Vanished, DefaultStatus, Waiting, ContainerStatus
      <4> QED
        BY <4>1, <1>4
    <3> QED
      BY <3>1, <3>2, <3>3, <3>4
  <2>3. CASE runtime[n] = <<>> /\ fails
    <3>1. new = wait(base(old)) /\ ConvertToAPIContainerStatus(n, new) = wait(Vanished(new))
      BY <2>3, <1>1 DEF base
    <3>2. /\ new.state = [is |-> "waiting", info |-> "start failed"]
          /\ new.state.is = "waiting"
      BY <3>1, <1>2, <1>3 DEF wait, ContainerStatus
    <3>3. ASSUME NEW s \in ContainerStatus,
                 s.state = [is |-> "waiting", info |-> "start failed"], s.state.is = "waiting"
          PROVE  wait(Vanished(s)) = s
      <4> DEFINE d == [is |-> "waiting", info |-> "default"]
                 f == [is |-> "waiting", info |-> "start failed"]
      <4>0. s.state.is # "terminated" /\ s.state.is # "running"
        BY <3>3
      <4>1. Vanished(s) = [state |-> d, last |-> s.last, restarts |-> s.restarts]
        BY <4>0 DEF Vanished, DefaultStatus, Waiting
      <4>2. d.is # "terminated"
        OBVIOUS
      <4>3. \A b : wait(b) = [b EXCEPT !.state = f,
                                      !.last = IF b.state.is = "terminated" THEN b.state ELSE @]
        BY DEF wait
      <4>4. s.state = f
        BY <3>3
      <4> HIDE DEF d, f
      <4>5. wait(Vanished(s)) = [state |-> f, last |-> s.last, restarts |-> s.restarts]
        <5> DEFINE v == Vanished(s)
        <5>1. wait(v) = [v EXCEPT !.state = f, !.last = IF v.state.is = "terminated" THEN v.state ELSE @]
          BY <4>3
        <5>2. v = [state |-> d, last |-> s.last, restarts |-> s.restarts] /\ v.state = d
          BY <4>1
        <5> HIDE DEF v
        <5>3. wait(v) = [v EXCEPT !.state = f, !.last = v.last]
          BY <5>1, <5>2, <4>2
        <5>4. wait(v) = [state |-> f, last |-> s.last, restarts |-> s.restarts]
          BY <5>2, <5>3
        <5> QED
          BY <5>4 DEF v
      <4>6. s = [state |-> s.state, last |-> s.last, restarts |-> s.restarts]
        BY DEF ContainerStatus
      <4> QED
        BY <4>4, <4>5, <4>6
    <3> QED
      BY <3>1, <3>2, <3>3, <1>4
  <2> QED
    BY <2>1, <2>2, <2>3
<1> QED
  BY <1>4, <1>6, <1>7, <1>8, <1>9, <1>10, <1>11

\* An init container that is done.
Over(s) == s.state.is = "terminated" \/ (s.state.is = "waiting" /\ s.last.is = "terminated")

\* A failed one.
Failed(s) == Failure(s.state) \/ (Over(s) /\ s.state.is = "waiting" /\ Failure(s.last))

\* getPhase, case by case.
LEMMA PhaseFacts ==
  ASSUME NEW of
  PROVE  /\ GetPhase(of) \in Phases
         /\ GetPhase(of) \in {"Running", "Succeeded"} =>
              /\ \A n \in Inits : Over(of[n])
              /\ \A n \in Inits : policy = "Never" => ~Failed(of[n])
              /\ \A n \in Containers :
                   of[n].state.is = "waiting" => of[n].last.is = "terminated"
         /\ GetPhase(of) = "Pending" =>
              \/ \E n \in Inits : ~Over(of[n])
              \/ \E n \in Containers : of[n].state.is = "waiting" /\ of[n].last.is # "terminated"
         /\ GetPhase(of) = "Succeeded" =>
              policy # "Always" /\ \A n \in Containers : of[n].state = Terminated("zero")
         /\ /\ policy # "Always"
            /\ \A n \in Inits : Over(of[n]) /\ (policy = "Never" => ~Failed(of[n]))
            /\ \A n \in Containers : of[n].state = Terminated("zero")
            => GetPhase(of) = "Succeeded"
<1> DEFINE failedInit == {n \in Inits : Failed(of[n])}
           pendingInit == {n \in Inits : ~Over(of[n])}
           waits == {n \in Containers : of[n].state.is = "waiting" /\ of[n].last.is # "terminated"}
           runs == {n \in Containers : of[n].state.is = "running"}
           zero == \A n \in Containers : of[n].state = Terminated("zero")
<1>2. zero => waits = {} /\ runs = {}
  BY DEF Terminated
<1>3. failedInit # {} /\ policy = "Never" => GetPhase(of) = "Failed"
  BY DEF GetPhase, Over, Failed, Failure
<1>4. ASSUME ~(failedInit # {} /\ policy = "Never")
      PROVE  /\ pendingInit # {} \/ waits # {} => GetPhase(of) = "Pending"
             /\ pendingInit = {} /\ waits = {} =>
                  /\ GetPhase(of) \in {"Running", "Succeeded", "Failed"}
                  /\ GetPhase(of) = "Succeeded" => policy # "Always" /\ zero
                  /\ zero /\ policy # "Always" => GetPhase(of) = "Succeeded"
  <2>1. CASE pendingInit # {} \/ waits # {}
    BY <1>4, <2>1 DEF GetPhase, Over, Failed, Failure
  <2>2. CASE pendingInit = {} /\ waits = {} /\ (runs # {} \/ policy = "Always")
    <3>1. GetPhase(of) = "Running"
      BY <1>4, <2>2 DEF GetPhase, Over, Failed, Failure
    <3> QED
      BY <3>1, <2>2, <1>2
  <2>3. CASE pendingInit = {} /\ waits = {} /\ runs = {} /\ policy # "Always"
    <3>1. GetPhase(of) = IF zero THEN "Succeeded" ELSE IF policy = "Never" THEN "Failed" ELSE "Running"
      BY <1>4, <2>3 DEF GetPhase, Over, Failed, Failure
    <3> QED
      BY <3>1, <2>3
  <2> QED
    BY <2>1, <2>2, <2>3
<1> HIDE DEF zero, waits, runs, failedInit, pendingInit
<1>5. GetPhase(of) \in Phases
  BY <1>3, <1>4 DEF Phases
<1>6. GetPhase(of) \in {"Running", "Succeeded"} =>
        pendingInit = {} /\ waits = {} /\ (policy = "Never" => failedInit = {})
  BY <1>3, <1>4
<1>7. GetPhase(of) = "Pending" => pendingInit # {} \/ waits # {}
  BY <1>3, <1>4
<1>8. /\ GetPhase(of) = "Succeeded" => policy # "Always" /\ zero
      /\ policy # "Always" /\ pendingInit = {} /\ (policy = "Never" => failedInit = {}) /\ zero
           => GetPhase(of) = "Succeeded"
  BY <1>2, <1>3, <1>4
<1> QED
  BY <1>5, <1>6, <1>7, <1>8 DEF zero, waits, failedInit, pendingInit

\* The initial state.
LEMMA InitInv == Init => GenIInv
<1> SUFFICES ASSUME Init PROVE GenIInv
  OBVIOUS
<1>1. Unreported \in ContainerStatus
  BY States DEF Unreported, ContainerStatus
<1>2. /\ runtime \in [Names -> Seq(Attempt)] /\ attempts \in [Names -> Nat]
      /\ succeeded \in SUBSET Names /\ reasons \in SUBSET Names /\ shown \in Phases
  BY DEF Init, Phases
<1>3. status.phase = "Pending" /\ \A n \in Names : status.of[n] = Unreported
  BY DEF Init
<1>4. status \in [phase: Phases, of: [Names -> ContainerStatus]]
  BY <1>1 DEF Init, Phases
<1>5. Unreported.state.is = "nothing" /\ ~HasRun(Unreported) /\ Unreported.state # Terminated("zero")
  BY DEF Unreported, Nothing, HasRun, Terminated
<1>6. ASSUME NEW n \in Names PROVE RuntimeOK(n) /\ ReportOK(n)
  <2>1. runtime[n] = <<>> /\ DOMAIN runtime[n] = {} /\ n \notin succeeded
    BY DEF Init
  <2>2. RuntimeOK(n)
    BY <2>1 DEF RuntimeOK, Zero, Newest
  <2>3. ReportOK(n)
    BY <1>3, <1>5 DEF ReportOK, Init
  <2> QED
    BY <2>2, <2>3
<1>7. SucceededIsTrue /\ PhaseOK
  BY <1>3 DEF SucceededIsTrue, PhaseOK, Init
<1>8. Settled
  BY DEF Settled, Init
<1> QED
  BY <1>2, <1>4, <1>6, <1>7, <1>8 DEF GenIInv, GenTypeOK

\* What happens to one container between two syncs disturbs nothing else.
LEMMA Changed ==
  ASSUME GenIInv, NEW n \in Names, NEW h \in Seq(Attempt), Change(n, h),
         attempts' \in [Names -> Nat],
         succeeded \subseteq succeeded', succeeded' \subseteq succeeded \cup {n},
         reasons' \subseteq reasons \cup {n}, reasons \subseteq reasons' \cup {n},
         RuntimeOK(n)',
         status.phase = "Succeeded" /\ n \in Containers =>
           (deleting \/ n \notin reasons') /\ (runtime'[n] = <<>> \/ Zero(n)')
  PROVE  GenIInv'
<1>0. /\ GenTypeOK /\ SucceededIsTrue /\ PhaseOK /\ \A m \in Names : RuntimeOK(m) /\ ReportOK(m)
      /\ policy' = policy /\ deleting' = deleting /\ shown' = shown /\ status' = status /\ ~synced'
      /\ runtime' \in [Names -> Seq(Attempt)]
      /\ \A m \in Names : m # n => runtime'[m] = runtime[m]
  BY DEF GenIInv, Change, GenTypeOK
<1>1. GenTypeOK'
  BY <1>0 DEF GenTypeOK
<1>2. SucceededIsTrue'
  BY <1>0 DEF SucceededIsTrue
<1>3. ASSUME NEW m \in Names, m # n
      PROVE  RuntimeOK(m)' /\ (Zero(m)' <=> Zero(m)) /\ (m \in reasons' <=> m \in reasons)
  BY <1>0, <1>3 DEF RuntimeOK, Zero, Newest
<1>4. ASSUME NEW m \in Names PROVE ReportOK(m)'
  BY <1>0 DEF ReportOK, HasRun
<1>5. GetPhase(status.of)' = GetPhase(status.of)
  BY <1>0 DEF GetPhase
<1>6. PhaseOK'
  BY <1>0, <1>3, <1>5 DEF PhaseOK, Names
<1>7. Settled'
  BY <1>0 DEF Settled
<1> QED
  BY <1>1, <1>2, <1>3, <1>4, <1>6, <1>7 DEF GenIInv

\* The steps of one container.
LEMMA WorldInv ==
  ASSUME GenIInv, NEW n \in Names,
         \/ Create(n) \/ FailToStart(n) \/ Start(n) \/ Lose(n) \/ Vanish(n)
         \/ \E code \in {"zero", "failed"} : Exit(n, code)
  PROVE  GenIInv'
<1>0. /\ GenTypeOK /\ PhaseOK /\ RuntimeOK(n)
      /\ runtime \in [Names -> Seq(Attempt)] /\ attempts \in [Names -> Nat]
      /\ runtime[n] \in Seq(Attempt)
      /\ succeeded \in SUBSET Names /\ reasons \in SUBSET Names
  BY DEF GenIInv, GenTypeOK
<1>1. status.phase = "Succeeded" /\ n \in Containers =>
        (deleting \/ n \notin reasons) /\ (runtime[n] = <<>> \/ Zero(n))
  BY <1>0 DEF PhaseOK
<1>2. \A h : Change(n, h) => runtime'[n] = h /\ policy' = policy
  BY <1>0 DEF Change
<1>3. runtime[n] # <<>> =>
        /\ runtime[n][1] \in Attempt /\ 1 \in DOMAIN runtime[n] /\ Len(runtime[n]) \in Nat
        /\ DOMAIN runtime[n] = 1..Len(runtime[n])
  BY <1>0, RuntimeHead
\* the newest attempt x becomes y
<1>4. ASSUME runtime[n] # <<>>, NEW y \in Attempt,
             runtime'[n] = [runtime[n] EXCEPT ![1] = y]
      PROVE  /\ [runtime[n] EXCEPT ![1] = y] \in Seq(Attempt)
             /\ runtime'[n] # <<>> /\ runtime'[n][1] = y
             /\ DOMAIN runtime'[n] = DOMAIN runtime[n]
             /\ \A i \in DOMAIN runtime[n] : i # 1 => runtime'[n][i] = runtime[n][i]
  BY <1>0, <1>3, <1>4
<1>5. CASE Create(n)
  <2> DEFINE a == [state |-> "created", code |-> "", restarts |-> attempts[n]]
             h == <<a>> \o runtime[n]
  <2>1. a \in Attempt /\ a.state = "created"
    BY <1>0 DEF Attempt, Codes
  <2>2. Change(n, h) /\ UNCHANGED <<succeeded, reasons>> /\ attempts' = [attempts EXCEPT ![n] = @ + 1]
    BY <1>5 DEF Create
  <2> HIDE DEF a
  <2>3. /\ h \in Seq(Attempt) /\ h # <<>> /\ h[1] = a
        /\ \A i \in DOMAIN h : i # 1 => i - 1 \in DOMAIN runtime[n] /\ h[i] = runtime[n][i - 1]
    BY <2>1, <1>0
  <2>4. runtime'[n] = h
    BY <2>2, <1>2
  <2>5. /\ \A i \in DOMAIN runtime[n] : runtime[n][i].state = "exited"
        /\ n \notin Inits \cap succeeded
        /\ n \in Containers => Inits \subseteq succeeded
        /\ ~IsTerminal(status.phase)
    <3>1. runtime[n] = <<>> \/ Newest(n, "exited")
      BY <1>5 DEF Create, MayStart, ShouldContainerBeRestarted
    <3>2. \A i \in DOMAIN runtime[n] : runtime[n][i].state = "exited"
      BY <3>1, <1>0 DEF RuntimeOK, Newest
    <3> QED
      BY <3>2, <1>5, PodSpecAssumption DEF Create, MayStart
  <2> HIDE DEF h
  <2>6. RuntimeOK(n)'
    BY <2>1, <2>2, <2>3, <2>4, <2>5, <1>0 DEF RuntimeOK, Zero, Newest
  <2>7. attempts' \in [Names -> Nat]
    BY <2>2, <1>0
  <2> QED
    BY <2>2, <2>3, <2>5, <2>6, <2>7, <1>0, Changed DEF IsTerminal
<1>6. CASE FailToStart(n)
  <2>1. ~Newest(n, "running") /\ ~Newest(n, "unknown") /\ n \notin Inits \cap succeeded
    BY <1>0, <1>6 DEF FailToStart, MayStart, ShouldContainerBeRestarted, Newest, RuntimeOK, Zero
  <2>2. ~(Zero(n) /\ policy # "Always")
    BY <1>0, <1>6 DEF FailToStart, MayStart, ShouldContainerBeRestarted, Newest, RuntimeOK, Zero
  <2>3. Change(n, runtime[n]) /\ reasons' = reasons \cup {n} /\ UNCHANGED <<attempts, succeeded>>
    BY <1>6 DEF FailToStart
  <2>4. RuntimeOK(n)'
    BY <2>1, <2>2, <2>3, <1>0, <1>2 DEF RuntimeOK, Zero, Newest
  <2>5. ~(status.phase = "Succeeded" /\ n \in Containers)
    BY <1>1, <1>6 DEF FailToStart, MayStart, IsTerminal, Newest, Zero
  <2> QED
    BY <2>3, <2>4, <2>5, <1>0, Changed
<1>7. CASE Start(n)
  <2> DEFINE y == [runtime[n][1] EXCEPT !.state = "running"]
  <2>1. /\ Newest(n, "created") /\ runtime[n] # <<>> /\ reasons' = reasons \ {n}
        /\ UNCHANGED <<attempts, succeeded>>
    BY <1>7 DEF Start, Newest
  <2>2. y \in Attempt /\ y.state = "running"
    BY <2>1, <1>3 DEF Attempt
  <2>3. Change(n, [runtime[n] EXCEPT ![1] = y])
    BY <1>7 DEF Start
  <2> HIDE DEF y
  <2>4. RuntimeOK(n)'
    BY <2>1, <2>2, <2>3, <1>0, <1>2, <1>4 DEF RuntimeOK, Zero, Newest
  <2>5. ~(status.phase = "Succeeded" /\ n \in Containers)
    BY <1>1, <2>1 DEF Newest, Zero
  <2> QED
    BY <2>1, <2>2, <2>3, <2>4, <2>5, <1>0, <1>2, <1>4, Changed
<1>8. CASE Lose(n)
  <2> DEFINE y == [runtime[n][1] EXCEPT !.state = "unknown"]
  <2>1. Newest(n, "running") /\ runtime[n] # <<>> /\ UNCHANGED <<attempts, succeeded, reasons>>
    BY <1>8 DEF Lose, Newest
  <2>2. y \in Attempt /\ y.state = "unknown"
    BY <2>1, <1>3 DEF Attempt
  <2>3. Change(n, [runtime[n] EXCEPT ![1] = y])
    BY <1>8 DEF Lose
  <2> HIDE DEF y
  <2>4. RuntimeOK(n)'
    BY <2>1, <2>2, <2>3, <1>0, <1>2, <1>4 DEF RuntimeOK, Zero, Newest
  <2>5. ~(status.phase = "Succeeded" /\ n \in Containers)
    BY <1>1, <2>1 DEF Newest, Zero
  <2> QED
    BY <2>1, <2>2, <2>3, <2>4, <2>5, <1>0, <1>2, <1>4, Changed
<1>9. CASE Vanish(n)
  <2>1. Change(n, <<>>) /\ UNCHANGED <<attempts, succeeded, reasons>> /\ <<>> \in Seq(Attempt)
    BY <1>9 DEF Vanish
  <2>2. runtime'[n] = <<>> /\ DOMAIN runtime'[n] = {}
    BY <2>1, <1>2
  <2>3. RuntimeOK(n)'
    BY <2>1, <2>2, <1>0 DEF RuntimeOK, Zero, Newest
  <2> QED
    BY <2>1, <2>2, <2>3, <1>0, <1>1, Changed
<1>10. ASSUME NEW code \in {"zero", "failed"}, Exit(n, code) PROVE GenIInv'
  <2> DEFINE y == [runtime[n][1] EXCEPT !.state = "exited", !.code = code]
  <2>1. /\ Newest(n, "running") \/ Newest(n, "unknown")
        /\ runtime[n] # <<>> /\ UNCHANGED <<attempts, reasons>>
        /\ succeeded' = IF code = "zero" THEN succeeded \cup {n} ELSE succeeded
    BY <1>10 DEF Exit, Newest
  <2>2. y \in Attempt /\ y.state = "exited" /\ y.code = code
    BY <2>1, <1>3 DEF Attempt, Codes
  <2>3. Change(n, [runtime[n] EXCEPT ![1] = y])
    <3>1. [runtime[n] EXCEPT ![1].state = "exited", ![1].code = code] = [runtime[n] EXCEPT ![1] = y]
      BY <2>1, <1>0, <1>3 DEF Attempt
    <3> QED
      BY <3>1, <1>10 DEF Exit
  <2> HIDE DEF y
  <2>4. RuntimeOK(n)'
    BY <2>1, <2>2, <2>3, <1>0, <1>2, <1>4 DEF RuntimeOK, Zero, Newest
  <2>5. ~(status.phase = "Succeeded" /\ n \in Containers)
    BY <1>1, <2>1 DEF Newest, Zero
  <2> QED
    BY <2>1, <2>2, <2>3, <2>4, <2>5, <1>0, <1>2, <1>4, Changed
<1> QED
  BY <1>5, <1>6, <1>7, <1>8, <1>9, <1>10

\* A sync leaves the status that it computes, or the one there was.
LEMMA SyncCases ==
  ASSUME Sync
  PROVE  /\ UNCHANGED <<policy, runtime, attempts, succeeded, reasons, deleting, shown>> /\ synced'
         /\ status' = Accepted
         /\ status' = Generated \/ status' = status
BY DEF Sync, Accepted

\* The status that a sync computes, container by container.
LEMMA SyncedOf ==
  ASSUME GenIInv, Sync, status' = Generated
  PROVE  /\ UNCHANGED <<policy, runtime, attempts, succeeded, reasons, deleting, shown>> /\ synced'
         /\ status'.phase = NextPhase(GetPhase(status'.of))
         /\ status' \in [phase: Phases, of: [Names -> ContainerStatus]]
         /\ \A n \in Names :
              /\ status.of[n] \in ContainerStatus
              /\ status'.of[n] = ConvertToAPIContainerStatus(n, status.of[n])
<1> DEFINE of == [n \in Names |-> ConvertToAPIContainerStatus(n, status.of[n])]
<1>1. /\ UNCHANGED <<policy, runtime, attempts, succeeded, reasons, deleting, shown>> /\ synced'
      /\ status' = [phase |-> NextPhase(GetPhase(of)), of |-> of]
  BY SyncCases DEF Generated
<1>2. \A n \in Names : status.of[n] \in ContainerStatus
  BY DEF GenIInv, GenTypeOK
<1>3. of \in [Names -> ContainerStatus]
  BY <1>2, SyncOne DEF GenIInv
<1>4. NextPhase(GetPhase(of)) \in Phases
  BY PhaseFacts DEF GenIInv, GenTypeOK, NextPhase
<1>5. status'.of = of /\ status'.phase = NextPhase(GetPhase(of))
  BY <1>1
<1>6. status' \in [phase: Phases, of: [Names -> ContainerStatus]]
  <2> HIDE DEF of
  <2> QED
    BY <1>1, <1>3, <1>4
<1> QED
  BY <1>1, <1>2, <1>5, <1>6

\* A pod that has succeeded stays so, unless the API server shows otherwise.
LEMMA SucceededIsKept ==
  ASSUME GenIInv, Sync, status' = Generated, status.phase = "Succeeded"
  PROVE  /\ GetPhase(status'.of) = "Succeeded"
         /\ status'.phase = "Succeeded" \/ shown = "Failed"
<1>0. /\ PhaseOK /\ SucceededIsTrue /\ \A n \in Names : RuntimeOK(n) /\ ReportOK(n)
      /\ GenTypeOK
  BY DEF GenIInv
<1>1. GetPhase(status.of) = "Succeeded"
  BY <1>0 DEF PhaseOK
<1>2. /\ policy # "Always"
      /\ \A n \in Containers : status.of[n].state = Terminated("zero")
      /\ \A n \in Inits : Over(status.of[n]) /\ (policy = "Never" => ~Failed(status.of[n]))
  BY <1>1, PhaseFacts
<1>3. ASSUME NEW n \in Containers PROVE status'.of[n].state = Terminated("zero")
  <2>1. n \in Names /\ status.of[n] \in ContainerStatus
    BY SyncedOf DEF Names
  <2>2. (deleting \/ n \notin reasons) /\ (runtime[n] = <<>> \/ Zero(n))
    BY <1>0 DEF PhaseOK
  <2>3. Terminated("zero").is = "terminated"
    BY DEF Terminated
  <2>4. Vanished(status.of[n]) = status.of[n]
    BY <2>1, <2>3, <1>2, VanishedFacts
  <2>5. \/ ConvertToAPIContainerStatus(n, status.of[n]).state = Terminated("zero")
        \/ ConvertToAPIContainerStatus(n, status.of[n]) = Vanished(status.of[n])
    BY <2>1, <2>2, <1>0, SyncOne
  <2> QED
    BY <2>1, <2>4, <2>5, <1>2, SyncedOf
<1>4. Inits \subseteq succeeded
  <2>1. PICK n \in Containers : TRUE
    BY PodSpecAssumption
  <2>2. HasRun(status.of[n])
    BY <1>2 DEF HasRun, Terminated
  <2> QED
    BY <2>2, <1>0 DEF ReportOK, Names
<1>5. ASSUME NEW n \in Inits
      PROVE  Over(status'.of[n]) /\ (policy = "Never" => ~Failed(status'.of[n]))
  <2>1. n \in Names /\ status.of[n] \in ContainerStatus
    BY SyncedOf DEF Names
  <2>2. n \notin reasons /\ (runtime[n] = <<>> \/ Zero(n))
    BY <2>1, <1>0, <1>4 DEF RuntimeOK
  <2>3. \/ status'.of[n].state = Terminated("zero")
        \/ status'.of[n] = Vanished(status.of[n])
    BY <2>1, <2>2, <1>0, SyncOne, SyncedOf
  <2>4. CASE status'.of[n].state = Terminated("zero")
    BY <2>4 DEF Over, Failed, Failure, Terminated
  <2>5. CASE status'.of[n] = Vanished(status.of[n])
    BY <2>1, <2>5, <1>2, VanishedFacts DEF Over, Failed, Failure, Waiting
  <2> QED
    BY <2>3, <2>4, <2>5
<1>6. GetPhase(status'.of) = "Succeeded"
  BY <1>2, <1>3, <1>5, PhaseFacts
<1> QED
  BY <1>0, <1>6, SyncedOf DEF NextPhase, PhaseOK, IsTerminal

\* With nothing new, the next sync computes what this one would.
LEMMA ConvertPrimed ==
  ASSUME NEW n, UNCHANGED <<policy, runtime, reasons, deleting>>
  PROVE  ConvertToAPIContainerStatus(n, status.of[n])' = ConvertToAPIContainerStatus(n, status'.of[n])
<1>1. Vanished(status.of[n])' = Vanished(status'.of[n])
  BY DEF Vanished, DefaultStatus
<1>2. Convert(runtime[n][1], status.of[n])' = Convert(runtime[n][1], status'.of[n])
  BY DEF Convert
<1>3. Convert(runtime[n][2], status.of[n])' = Convert(runtime[n][2], status'.of[n])
  BY DEF Convert
<1>4. Seen(n, status.of[n])' = Seen(n, status'.of[n])
  BY <1>2, <1>3 DEF Seen
<1>5. /\ InitDone(n)' <=> InitDone(n)
      /\ ShouldContainerBeRestarted(n)' <=> ShouldContainerBeRestarted(n)
  BY DEF InitDone, ShouldContainerBeRestarted, Newest
<1> QED
  BY <1>1, <1>4, <1>5 DEF ConvertToAPIContainerStatus, StartFailure

LEMMA GeneratedPrimed ==
  ASSUME UNCHANGED <<policy, runtime, reasons, deleting, shown>>,
         NEW g, g = [n \in Names |-> ConvertToAPIContainerStatus(n, status'.of[n])]
  PROVE  Generated' =
           [phase |-> IF IsTerminal(shown) THEN shown
                      ELSE IF IsTerminal(status'.phase) /\ ~IsTerminal(GetPhase(g)) THEN status'.phase
                      ELSE GetPhase(g),
            of |-> g]
<1> DEFINE of == [n \in Names |-> ConvertToAPIContainerStatus(n, status.of[n])]
<1>1. of' = g
  BY ConvertPrimed
<1>2. Generated' = [phase |-> NextPhase(GetPhase(of)), of |-> of]'
  BY DEF Generated
<1> HIDE DEF of
<1>3. GetPhase(of)' = GetPhase(g)
  BY <1>1 DEF GetPhase
<1> QED
  BY <1>1, <1>2, <1>3 DEF NextPhase, IsTerminal

\* After a sync that is accepted, the next one computes the same.
LEMMA AcceptedSettles ==
  ASSUME GenIInv, Sync, status' = Generated, \A n \in Names : ~Newest(n, "unknown")
  PROVE  Generated' = status'
<1>0. GenTypeOK /\ \A n \in Names : RuntimeOK(n)
  BY DEF GenIInv
<1>1. /\ UNCHANGED <<policy, runtime, attempts, succeeded, reasons, deleting, shown>>
      /\ status'.phase = NextPhase(GetPhase(status'.of))
      /\ status' \in [phase: Phases, of: [Names -> ContainerStatus]]
      /\ \A n \in Names : /\ status.of[n] \in ContainerStatus
                           /\ status'.of[n] = ConvertToAPIContainerStatus(n, status.of[n])
  BY SyncedOf
<1>2. ASSUME NEW n \in Names
      PROVE  ConvertToAPIContainerStatus(n, status'.of[n]) = status'.of[n]
  BY <1>0, <1>1, SyncOne
<1> DEFINE g == [n \in Names |-> ConvertToAPIContainerStatus(n, status'.of[n])]
<1>3. g = status'.of
  BY <1>1, <1>2
<1>4. Generated' =
        [phase |-> IF IsTerminal(shown) THEN shown
                   ELSE IF IsTerminal(status'.phase) /\ ~IsTerminal(GetPhase(g)) THEN status'.phase
                   ELSE GetPhase(g),
         of |-> g]
  BY <1>1, GeneratedPrimed
<1> HIDE DEF g
<1>5. Generated' = [phase |-> status'.phase, of |-> status'.of]
  BY <1>1, <1>3, <1>4 DEF NextPhase
<1> QED
  BY <1>1, <1>5

\* With nothing new at all, the next sync would leave the same.
LEMMA AcceptedUnchanged ==
  ASSUME UNCHANGED <<policy, runtime, reasons, deleting, shown, status>>
  PROVE  Accepted' = Accepted
<1> DEFINE g == [n \in Names |-> ConvertToAPIContainerStatus(n, status.of[n])]
<1>1. Generated' = [phase |-> NextPhase(GetPhase(g)), of |-> g]
  <2>1. g = [n \in Names |-> ConvertToAPIContainerStatus(n, status'.of[n])]
    OBVIOUS
  <2> HIDE DEF g
  <2> QED
    BY <2>1, GeneratedPrimed DEF NextPhase
<1>2. Generated' = Generated
  BY <1>1 DEF Generated
<1>3. LegalTransition(Generated)' <=> LegalTransition(Generated)
  BY <1>2 DEF LegalTransition
<1> QED
  BY <1>2, <1>3 DEF Accepted

\* A sync keeps the invariant.
LEMMA SyncInv ==
  ASSUME GenIInv, Sync
  PROVE  GenIInv'
<1>0. /\ GenTypeOK /\ PhaseOK /\ SucceededIsTrue /\ \A n \in Names : RuntimeOK(n) /\ ReportOK(n)
      /\ shown \in Phases /\ status.phase \in Phases
  BY DEF GenIInv, GenTypeOK
<1>a. /\ UNCHANGED <<policy, runtime, attempts, succeeded, reasons, deleting, shown>> /\ synced'
      /\ status' = Accepted
      /\ status' = Generated \/ status' = status
  BY SyncCases
<1>3. ASSUME NEW n \in Names PROVE RuntimeOK(n)'
  BY <1>0, <1>a DEF RuntimeOK, Zero, Newest
<1>b. \A n : (Zero(n)' <=> Zero(n)) /\ (Newest(n, "unknown")' <=> Newest(n, "unknown"))
  BY <1>a DEF Zero, Newest
<1>c. GetPhase(status.of)' = GetPhase(status'.of)
  BY <1>a DEF GetPhase
<1>r. CASE status' = status
  <2>1. GenTypeOK' /\ SucceededIsTrue'
    BY <1>0, <1>a, <1>r DEF GenTypeOK, SucceededIsTrue
  <2>2. \A n \in Names : ReportOK(n)'
    BY <1>0, <1>a, <1>r DEF ReportOK, HasRun
  <2>3. PhaseOK'
    BY <1>0, <1>a, <1>b, <1>c, <1>r DEF PhaseOK
  <2>4. Settled'
    <3>1. Accepted' = Accepted
      BY <1>a, <1>r, AcceptedUnchanged
    <3> QED
      BY <3>1, <1>a DEF Settled
  <2> QED
    BY <2>1, <2>2, <2>3, <2>4, <1>3 DEF GenIInv
<1>s. CASE status' = Generated
  <2>1. /\ status'.phase = NextPhase(GetPhase(status'.of))
        /\ status' \in [phase: Phases, of: [Names -> ContainerStatus]]
        /\ \A n \in Names : /\ status.of[n] \in ContainerStatus
                             /\ status'.of[n] = ConvertToAPIContainerStatus(n, status.of[n])
    BY <1>s, SyncedOf
  <2>2. GenTypeOK'
    BY <1>0, <1>a, <2>1 DEF GenTypeOK
  <2>4. ASSUME NEW n \in Names PROVE ReportOK(n)'
    <3> DEFINE new == ConvertToAPIContainerStatus(n, status.of[n])
    <3>1. /\ new.state.is # "nothing"
          /\ new.state = Terminated("zero") => n \in succeeded \/ status.of[n].state = Terminated("zero")
          /\ HasRun(new) => runtime[n] # <<>> \/ HasRun(status.of[n])
      BY <1>0, <2>1, SyncOne
    <3>3. status'.of[n] = new
      BY <2>1
    <3> HIDE DEF new
    <3>4. /\ status'.of[n].state = Terminated("zero") => n \in succeeded'
          /\ n \in Containers /\ HasRun(status'.of[n]) => Inits \subseteq succeeded'
      BY <3>1, <3>3, <1>0, <1>a DEF ReportOK, RuntimeOK
    <3> QED
      BY <3>1, <3>3, <3>4 DEF ReportOK, HasRun
  <2>5. status'.phase \in {"Running", "Succeeded"} => GetPhase(status'.of) = status'.phase
    <3>1. CASE status.phase = "Succeeded"
      BY <3>1, <1>s, <2>1, SucceededIsKept DEF NextPhase, IsTerminal
    <3>2. CASE status.phase # "Succeeded"
      BY <3>2, <1>0, <2>1 DEF NextPhase, PhaseOK, IsTerminal
    <3> QED
      BY <3>1, <3>2
  <2>6. status'.phase = "Succeeded" =>
          /\ Containers \subseteq succeeded
          /\ \A n \in Containers : (deleting \/ n \notin reasons) /\ (runtime[n] = <<>> \/ Zero(n))
    <3> SUFFICES ASSUME status'.phase = "Succeeded", NEW n \in Containers
                 PROVE  /\ n \in succeeded
                        /\ deleting \/ n \notin reasons
                        /\ runtime[n] = <<>> \/ Zero(n)
      OBVIOUS
    <3>1. policy # "Always" /\ status'.of[n].state = Terminated("zero") /\ n \in Names
      BY <2>5, PhaseFacts DEF Names
    <3> QED
      BY <3>1, <1>0, <2>1, SyncOne DEF ReportOK
  <2>7. SucceededIsTrue'
    BY <1>a, <2>6 DEF SucceededIsTrue
  <2>8. PhaseOK'
    <3>1. shown' = "Succeeded" => status'.phase = "Succeeded"
      BY <1>a, <2>1 DEF NextPhase, IsTerminal
    <3> QED
      BY <3>1, <1>a, <1>b, <1>c, <2>5, <2>6 DEF PhaseOK
  <2>9. Settled'
    <3> SUFFICES ASSUME \A n \in Names : ~Newest(n, "unknown") PROVE Accepted' = status'
      BY <1>b DEF Settled
    <3>1. Generated' = status'
      BY <1>s, AcceptedSettles
    <3> QED
      BY <3>1 DEF Accepted
  <2> QED
    BY <2>2, <2>4, <2>7, <2>8, <2>9, <1>3 DEF GenIInv
<1> QED
  BY <1>a, <1>r, <1>s

\* GenIInv is inductive: between two syncs what is known of the containers stays
\* consistent, and a sync turns it into a status that a further sync confirms.
THEOREM Invariance == Spec => []GenIInv
<1>1. ASSUME GenIInv, [Next]_vars PROVE GenIInv'
  <2>1. CASE Sync
    BY <2>1, <1>1, SyncInv
  <2>2. CASE \E n \in Names :
               \/ Create(n) \/ FailToStart(n) \/ Start(n) \/ Lose(n) \/ Vanish(n)
               \/ \E code \in {"zero", "failed"} : Exit(n, code)
    BY <2>2, <1>1, WorldInv
  <2>3. CASE Delete \/ Publish \/ FailPod \/ UNCHANGED vars
    <3>0. /\ GenTypeOK /\ SucceededIsTrue /\ PhaseOK /\ \A n \in Names : RuntimeOK(n) /\ ReportOK(n)
          /\ Settled
      BY <1>1 DEF GenIInv
    <3>1. /\ UNCHANGED <<policy, runtime, attempts, succeeded, reasons, status>>
          /\ deleting => deleting'
          /\ shown' \in {shown, status.phase, "Failed"}
          /\ ~synced' \/ UNCHANGED <<shown, deleting, synced>>
      BY <2>3 DEF Delete, Publish, FailPod, vars
    <3>2. \A n : (Zero(n)' <=> Zero(n)) /\ \A s : Newest(n, s)' <=> Newest(n, s)
      BY <3>1 DEF Zero, Newest
    <3>3. GenTypeOK' /\ SucceededIsTrue'
      BY <3>0, <3>1 DEF GenTypeOK, SucceededIsTrue, Phases
    <3>4. ASSUME NEW n \in Names PROVE RuntimeOK(n)'
      BY <3>0, <3>1, <3>2 DEF RuntimeOK
    <3>5. \A n \in Names : ReportOK(n)'
      BY <3>0, <3>1 DEF ReportOK, HasRun
    <3>6. GetPhase(status.of)' = GetPhase(status.of)
      BY <3>1 DEF GetPhase
    <3>7. PhaseOK'
      BY <3>0, <3>1, <3>2, <3>6 DEF PhaseOK
    <3>8. Settled'
      <4>1. CASE ~synced'
        BY <4>1 DEF Settled
      <4>2. CASE UNCHANGED <<shown, deleting, synced>>
        <5>1. Accepted' = Accepted
          BY <3>1, <4>2, AcceptedUnchanged
        <5> QED
          BY <5>1, <3>0, <3>1, <3>2, <4>2 DEF Settled
      <4> QED
        BY <3>1, <4>1, <4>2
    <3> QED
      BY <3>3, <3>4, <3>5, <3>7, <3>8 DEF GenIInv
  <2> QED
    BY <2>1, <2>2, <2>3, <1>1 DEF Next
<1> QED
  BY <1>1, InitInv, PTL DEF Spec

\* SucceededIsTrue for every pod: getPhase and the terminal phase that
\* generateAPIPodStatus keeps never report a success that did not happen.
THEOREM SucceededSafe == Spec => []SucceededIsTrue
<1>1. GenIInv => SucceededIsTrue
  BY DEF GenIInv
<1> QED
  BY <1>1, Invariance, PTL

\* SyncSettles: convertToAPIContainerStatuses is idempotent on its own results
\* as long as nothing happens to the containers, and what the status manager
\* refuses once it refuses again.
THEOREM SyncIsIdempotent == Spec => SyncSettles
<1>1. ASSUME GenIInv, Sync, synced, \A n \in Names : ~Newest(n, "unknown")
      PROVE  status' = status
  BY <1>1, SyncCases DEF GenIInv, Settled
<1>2. GenIInv /\ [Next]_vars =>
        [Sync /\ synced /\ (\A n \in Names : ~Newest(n, "unknown")) => status' = status]_vars
  BY <1>1
<1> QED
  BY <1>2, Invariance, PTL DEF Spec, SyncSettles

\* RanIsNotPending: a pod whose containers have run does not wait for them to be
\* created because the runtime has forgotten them.
THEOREM RunningIsKept == Spec => RanIsNotPending
<1>1. ASSUME GenIInv, Sync, status.phase = "Running",
             \A n \in Names : ~Newest(n, "created") /\ ~Newest(n, "unknown")
      PROVE  status'.phase # "Pending"
  <2> SUFFICES ASSUME status' = Generated PROVE status'.phase # "Pending"
    BY <1>1, SyncCases
  <2>0. /\ GenTypeOK /\ PhaseOK /\ \A n \in Names : RuntimeOK(n) /\ ReportOK(n)
        /\ GetPhase(status.of) = "Running" /\ shown \in Phases
    BY <1>1 DEF GenIInv, PhaseOK, GenTypeOK
  <2>1. \A n \in Names : /\ status.of[n] \in ContainerStatus
                         /\ status'.of[n] = ConvertToAPIContainerStatus(n, status.of[n])
    BY <1>1, SyncedOf
  <2>2. ASSUME NEW n \in Containers PROVE HasRun(status.of[n]) /\ n \in Names
    <3>1. n \in Names /\ status.of[n].state \in ContainerState
      BY <2>1 DEF Names, ContainerStatus
    <3>2. status.of[n].state.is \in {"waiting", "running", "terminated"}
      BY <3>1, <2>0, <1>1 DEF ReportOK, ContainerState
    <3> QED
      BY <3>1, <3>2, <2>0, PhaseFacts DEF HasRun
  <2>3. Inits \subseteq succeeded
    BY <2>0, <2>2, PodSpecAssumption DEF ReportOK
  <2>4. ASSUME NEW n \in Containers
        PROVE  ~(status'.of[n].state.is = "waiting" /\ status'.of[n].last.is # "terminated")
    <3>1. HasRun(status'.of[n])
      BY <2>0, <2>1, <2>2, <1>1, SyncOne
    <3> QED
      BY <3>1 DEF HasRun
  <2>5. ASSUME NEW n \in Inits PROVE Over(status'.of[n])
    <3>1. n \in Names /\ Over(status.of[n])
      BY <2>0, PhaseFacts DEF Names
    <3>2. n \notin reasons /\ (runtime[n] = <<>> \/ Zero(n))
      BY <3>1, <2>0, <2>3 DEF RuntimeOK
    <3>3. \/ status'.of[n].state = Terminated("zero")
          \/ status'.of[n] = Vanished(status.of[n])
      BY <3>1, <3>2, <2>0, <2>1, SyncOne
    <3>4. CASE status'.of[n].state = Terminated("zero")
      BY <3>4 DEF Over, Terminated
    <3>5. CASE status'.of[n] = Vanished(status.of[n])
      BY <3>1, <3>5, <2>1, VanishedFacts DEF Over, Waiting
    <3> QED
      BY <3>3, <3>4, <3>5
  <2>6. GetPhase(status'.of) # "Pending"
    BY <2>4, <2>5, PhaseFacts
  <2> QED
    BY <2>6, <1>1, SyncedOf DEF NextPhase, IsTerminal
<1>2. GenIInv /\ [Next]_vars =>
        [Sync /\ status.phase = "Running"
           /\ (\A n \in Names : ~Newest(n, "created") /\ ~Newest(n, "unknown"))
         => status'.phase # "Pending"]_vars
  BY <1>1
<1> QED
  BY <1>2, Invariance, PTL DEF Spec, RanIsNotPending

\* InitializedIsKept: GeneratePodInitializedCondition never takes back that the
\* pod is initialized, of a pod that nobody else has failed.
THEOREM InitializedStays == Spec => InitializedIsKept
<1>1. ASSUME GenIInv, Sync, Initialized(status), ~(status.phase = "Succeeded" /\ shown = "Failed")
      PROVE  Initialized(status')
  <2> SUFFICES ASSUME status' = Generated PROVE Initialized(status')
    BY <1>1, SyncCases
  <2>1. CASE status.phase = "Succeeded"
    BY <2>1, <1>1, SucceededIsKept DEF Initialized
  <2>2. CASE \A n \in Inits : status.of[n].state = Terminated("zero")
    <3> SUFFICES ASSUME NEW n \in Inits PROVE status'.of[n].state = Terminated("zero")
      BY DEF Initialized
    <3>1. n \in Names /\ n \in succeeded /\ RuntimeOK(n) /\ GenTypeOK
      BY <2>2, <1>1 DEF GenIInv, ReportOK, Names
    <3>2. n \notin reasons /\ (runtime[n] = <<>> \/ Zero(n))
      BY <3>1 DEF RuntimeOK
    <3>3. Terminated("zero").is = "terminated"
      BY DEF Terminated
    <3>4. /\ status.of[n] \in ContainerStatus
          /\ status'.of[n] = ConvertToAPIContainerStatus(n, status.of[n])
      BY <3>1, <1>1, SyncedOf
    <3>5. Vanished(status.of[n]) = status.of[n]
      BY <3>3, <3>4, <2>2, VanishedFacts
    <3> QED
      BY <3>1, <3>2, <3>4, <3>5, <2>2, SyncOne
  <2> QED
    BY <2>1, <2>2, <1>1 DEF Initialized
<1>2. ASSUME GenIInv, [Next]_vars, ~Sync PROVE status' = status
  BY <1>2 DEF Next, vars, Create, FailToStart, Start, Lose, Vanish, Exit, Change, Delete, Publish,
           FailPod
<1>3. GenIInv /\ [Next]_vars =>
        [Initialized(status) /\ ~(status.phase = "Succeeded" /\ shown = "Failed")
         => Initialized(status')]_vars
  BY <1>1, <1>2
<1> QED
  BY <1>3, Invariance, PTL DEF Spec, InitializedIsKept

=============================================================================
