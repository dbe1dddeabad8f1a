------------------------- MODULE CrashDetectorProofs -------------------------
(***************************************************************************)
(* Proofs about CrashDetector, for every set of services and API           *)
(* goroutines and any number of containers and crashes.                    *)
(***************************************************************************)
EXTENDS CrashDetector, TLAPS

LEMMA SomeService ==
    /\ AnyService \in Service /\ <<AnyService, 0>> \in Container
    /\ WaitLimit \in Nat /\ detector \in Caller /\ Restarter \subseteq Caller
  BY DetectorAssumption DEF AnyService, Container, Caller

LEMMA NewEvents ==
  ASSUME TypeOK, NEW s \in Service
  PROVE  /\ <<s, run[s]>> \in Container
         /\ <<Removed(s)>> \in Seq(Event) /\ <<Kill9(s)>> \in Seq(Event)
         /\ <<Die(s)>> \in Seq(Event) /\ <<Kill9(s), Die(s)>> \in Seq(Event)
  <1>1. Removed(s) \in Event /\ Kill9(s) \in Event /\ Die(s) \in Event
    BY DEF TypeOK, Event, Removed, Kill9, Die
  <1>2. <<s, run[s]>> \in Container
    BY DEF TypeOK, Container
  <1> QED
    BY <1>1, <1>2

LEMMA EmitTypes ==
  ASSUME TypeOK, NEW new \in Seq(Event), Emit(new)
  PROVE  events' \in Seq(Event)
  BY DEF TypeOK, Emit

LEMMA HeadTypes ==
  ASSUME TypeOK, NEW kind, NextEvent(kind)
  PROVE  /\ Head(events) \in Event /\ Tail(events) \in Seq(Event)
         /\ Head(events).svc \in Service /\ Head(events).cont \in Nat
         /\ Dead \in Container /\ Dead[1] \in Service
  <1>1. Head(events) \in Event /\ Tail(events) \in Seq(Event)
    BY DEF TypeOK, NextEvent
  <1>2. Head(events).svc \in Service /\ Head(events).cont \in Nat
    BY <1>1 DEF Event
  <1> QED
    BY <1>1, <1>2 DEF Dead, Container

LEMMA ReturnTypes ==
  ASSUME TypeOK, NEW w \in Caller, NEW from, Return(w, from)
  PROVE  /\ pc' \in [Caller -> {"idle", "list", "remove", "dying", "wait", "post"}]
         /\ job' \in [Caller -> Service]
         /\ old' \in [Caller -> Nat] /\ found' \in [Caller -> Nat]
         /\ loopCount' \in [Caller -> 0..WaitLimit]
  <1>1. 0 \in 0..WaitLimit
    BY SomeService
  <1>2. loopCount' \in [Caller -> 0..WaitLimit]
    BY <1>1 DEF TypeOK, Return
  <1>3. job' \in [Caller -> Service]
    BY SomeService DEF TypeOK, Return
  <1> QED
    BY <1>2, <1>3 DEF TypeOK, Return, Step

LEMMA FailTypes ==
  ASSUME TypeOK, NEW w \in Caller, NEW from, Fail(w, from)
  PROVE  Return(w, from) /\ failed' \subseteq Service
  BY DEF TypeOK, Fail

\* Every step keeps the types.
LEMMA TypesStep == TypeOK /\ [Next]_vars => TypeOK'
<1> USE SomeService
<1> SUFFICES ASSUME TypeOK, [Next]_vars PROVE TypeOK'
  OBVIOUS
<1>1. ASSUME NEW s \in Service, Crash(s) PROVE TypeOK'
  <2>1. events' \in Seq(Event)
    BY <1>1, NewEvents, EmitTypes DEF Crash
  <2>2. crashed' \subseteq Container
    BY <1>1, NewEvents DEF Crash, TypeOK
  <2>3. run' \in [Service -> Nat] /\ crashes' \in Nat
    BY <1>1 DEF Crash, TypeOK
  <2> QED
    BY <2>1, <2>2, <2>3, <1>1 DEF TypeOK, Crash, detectorVars, restartVars
<1>2. ASSUME NEW s \in Service, StartContainer(s) PROVE TypeOK'
  <2>1. made[s] + 1 \in Nat
    BY DEF TypeOK
  <2>2. made' \in [Service -> Nat] /\ made'[s] \in Nat
    BY <1>2, <2>1 DEF StartContainer, TypeOK
  <2>3. run' \in [Service -> Nat]
    BY <1>2, <2>2 DEF StartContainer, TypeOK
  <2> QED
    BY <1>2, <2>2, <2>3 DEF TypeOK, StartContainer, detectorVars, restartVars
<1>3. ASSUME NEW s \in Service, RemoveService(s) PROVE TypeOK'
  BY NewEvents, EmitTypes, <1>3 DEF TypeOK, Caller, RemoveService, dockerVars,
     detectorVars, restartVars
<1>4. ASSUME NEW s \in Service, StopContainer(s) PROVE TypeOK'
  BY NewEvents, EmitTypes, <1>4 DEF TypeOK, Caller, StopContainer, dockerVars,
     detectorVars, restartVars
<1>5. ASSUME BreakStream PROVE TypeOK'
  BY <1>5 DEF TypeOK, Caller, BreakStream, dockerVars, detectorVars, restartVars
<1>6. ASSUME Subscribe PROVE TypeOK'
  BY <1>6 DEF TypeOK, Caller, Subscribe, dockerVars, detectorVars, restartVars
<1>7. ASSUME NEW w \in Restarter, NEW s \in Service, RestartCommand(w, s)
      PROVE  TypeOK'
  BY <1>7 DEF TypeOK, Caller, RestartCommand, Restart, Step, dockerVars,
     detectorVars, restartVars
<1>8. ASSUME NEW w \in Caller, ListContainers(w) PROVE TypeOK'
  <2>1. CASE Fail(w, "list")
    BY <1>8, <2>1, ReturnTypes, FailTypes
       DEF TypeOK, ListContainers, Rest, dockerVars, detectorVars
  <2>2. CASE /\ Step(w, "list", "remove")
             /\ old' = [old EXCEPT ![w] = run[job[w]]]
             /\ UNCHANGED <<job, found, loopCount, failed>>
    <3>1. run[job[w]] \in Nat
      BY DEF TypeOK
    <3>2. old' \in [Caller -> Nat]
      BY <2>2, <3>1 DEF TypeOK
    <3> QED
      BY <1>8, <2>2, <3>2
         DEF TypeOK, ListContainers, Step, Rest, dockerVars, detectorVars
  <2> QED
    BY <1>8, <2>1, <2>2 DEF ListContainers
<1>9. ASSUME NEW w \in Caller, RemoveContainer(w) PROVE TypeOK'
  <2>1. CASE Fail(w, "remove") /\ UNCHANGED events
    BY <1>9, <2>1, ReturnTypes, FailTypes
       DEF TypeOK, RemoveContainer, Rest, dockerVars, detectorVars
  <2>2. CASE /\ Step(w, "remove", "dying")
             /\ IF run[job[w]] = old[w] THEN Emit(<<Kill9(job[w])>>)
                                        ELSE UNCHANGED events
             /\ UNCHANGED <<job, old, found, loopCount, failed>>
    <3>1. job[w] \in Service
      BY DEF TypeOK
    <3>2. events' \in Seq(Event)
      BY <2>2, <3>1, NewEvents, EmitTypes DEF TypeOK
    <3> QED
      BY <1>9, <2>2, <3>2
         DEF TypeOK, RemoveContainer, Step, Rest, dockerVars, detectorVars
  <2> QED
    BY <1>9, <2>1, <2>2 DEF RemoveContainer
<1>10. ASSUME NEW w \in Caller, ContainerDies(w) PROVE TypeOK'
  <2>1. events' \in Seq(Event)
    BY <1>10, job[w] \in Service, NewEvents, EmitTypes DEF ContainerDies, TypeOK
  <2>2. run' \in [Service -> Nat]
    <3>1. job[w] \in Service /\ run \in [Service -> Nat]
      BY DEF TypeOK
    <3>2. run' = run \/ run' = [run EXCEPT ![job[w]] = 0]
      BY <1>10 DEF ContainerDies
    <3> QED
      BY <3>1, <3>2
  <2>3. CASE Fail(w, "dying")
    BY <1>10, <2>1, <2>2, <2>3, ReturnTypes, FailTypes
       DEF TypeOK, ContainerDies, Rest, detectorVars
  <2>4. CASE Step(w, "dying", "wait") /\ UNCHANGED <<job, old, found, loopCount, failed>>
    <3>1. pc' \in [Caller -> {"idle", "list", "remove", "dying", "wait", "post"}]
      BY <2>4 DEF TypeOK, Step
    <3> QED
      BY <1>10, <2>1, <2>2, <2>4, <3>1 DEF TypeOK, ContainerDies, Rest, detectorVars
  <2> QED
    BY <1>10, <2>3, <2>4 DEF ContainerDies
<1>11. ASSUME NEW w \in Caller, WaitForService(w) PROVE TypeOK'
  <2>1. CASE SeeContainer(w)
    BY <1>11, <2>1 DEF TypeOK, WaitForService, SeeContainer, Step, Rest, dockerVars,
       detectorVars
  <2>2. CASE Fail(w, "wait")
    BY <1>11, <2>2, ReturnTypes, FailTypes DEF TypeOK, WaitForService, Rest,
       dockerVars,
       detectorVars
  <2>3. CASE loopCount[w] < WaitLimit /\ loopCount' = [loopCount EXCEPT ![w] = @ + 1]
             /\ Step(w, "wait", "wait") /\ UNCHANGED <<job, old, found, failed>>
    <3>1. loopCount[w] + 1 \in 0..WaitLimit
      <4>1. loopCount[w] \in 0..WaitLimit
        BY DEF TypeOK
      <4> QED
        BY <2>3, <4>1, SomeService
    <3> QED
      BY <1>11, <2>3, <3>1 DEF TypeOK, WaitForService, Step, Rest, dockerVars,
         detectorVars
  <2> QED
    BY <1>11, <2>1, <2>2, <2>3 DEF WaitForService
<1>12. ASSUME NEW w \in Caller, ServiceRestart(w) PROVE TypeOK'
  BY ReturnTypes, FailTypes, <1>12 DEF TypeOK, Caller, ServiceRestart, Step,
     Rest, dockerVars, detectorVars, restartVars
<1>13. ASSUME SeeRemove PROVE TypeOK'
  BY HeadTypes, <1>13 DEF TypeOK, Caller, SeeRemove, NextEvent, dockerVars,
     detectorVars, restartVars
<1>14. ASSUME SeeKill PROVE TypeOK'
  BY HeadTypes, <1>14 DEF TypeOK, Caller, SeeKill, NextEvent, dockerVars,
     detectorVars, restartVars
<1>15. ASSUME SeeDeath PROVE TypeOK'
  BY HeadTypes, <1>15 DEF TypeOK, Caller, SeeDeath, NextEvent, Restart, Step,
     dockerVars, detectorVars, restartVars
<1>16. CASE UNCHANGED vars
  BY <1>16 DEF TypeOK, Caller, vars, dockerVars, detectorVars, restartVars
<1> QED
  BY <1>1, <1>2, <1>3, <1>4, <1>5, <1>6, <1>7, <1>8, <1>9, <1>10, <1>11, <1>12,
     <1>13, <1>14, <1>15, <1>16 DEF Next, RestartStep, DetectorStep, Caller

\* The state keeps its types, and WaitForService polls no more often than it
\* should (Restart, WaitForService and crashDetectore).
THEOREM TypeCorrect == Spec => []TypeOK
<1>1. ASSUME Init PROVE TypeOK
  <2>1. /\ run \in [Service -> Nat] /\ made \in [Service -> Nat]
        /\ reg \in [Service -> Nat] /\ events \in Seq(Event)
    BY <1>1 DEF Init
  <2>2. /\ pc \in [Caller -> {"idle", "list", "remove", "dying", "wait", "post"}]
        /\ job \in [Caller -> Service]
        /\ old \in [Caller -> Nat] /\ found \in [Caller -> Nat]
        /\ loopCount \in [Caller -> 0..WaitLimit]
    BY <1>1, SomeService DEF Init
  <2>3. cause \in Container /\ labelled \subseteq Service /\ up \subseteq Service
    BY <1>1, SomeService DEF Init
  <2>4. /\ stream \in {"closed", "open", "broken"}
        /\ restartDetected = {} /\ uninstallDetected = {}
        /\ crashes \in Nat /\ crashed = {} /\ late \in BOOLEAN
        /\ failed = {} /\ overlapped = {}
    BY <1>1 DEF Init
  <2> QED
    BY <2>1, <2>2, <2>3, <2>4 DEF TypeOK
<1> QED
  BY <1>1, TypesStep, PTL DEF Spec

(***************************************************************************)
(* Registered addresses move forward                                       *)
(***************************************************************************)
LEMMA Typed ==
  TypeOK => /\ run \in [Service -> Nat] /\ made \in [Service -> Nat]
            /\ reg \in [Service -> Nat]
            /\ pc \in [Caller -> {"idle", "list", "remove", "dying", "wait", "post"}]
            /\ job \in [Caller -> Service]
            /\ old \in [Caller -> Nat] /\ found \in [Caller -> Nat]
            /\ overlapped \subseteq Caller
  BY DEF TypeOK

LEMMA ContainerStep == TypeOK /\ ContainerInv /\ [Next]_vars => ContainerInv'
<1> USE SomeService, Typed
<1> SUFFICES ASSUME TypeOK, ContainerInv, [Next]_vars PROVE ContainerInv'
  OBVIOUS
<1>1. ASSUME NEW s \in Service, Crash(s) PROVE ContainerInv'
  BY <1>1 DEF ContainerInv, Crash, dockerVars, detectorVars, restartVars
<1>2. ASSUME NEW s \in Service, StartContainer(s) PROVE ContainerInv'
  BY <1>2 DEF ContainerInv, StartContainer, dockerVars, detectorVars,
     restartVars
<1>3. ASSUME NEW s \in Service, RemoveService(s) PROVE ContainerInv'
  BY <1>3 DEF ContainerInv, RemoveService, dockerVars, detectorVars, restartVars
<1>4. ASSUME NEW s \in Service, StopContainer(s) PROVE ContainerInv'
  BY <1>4 DEF ContainerInv, StopContainer, dockerVars, detectorVars, restartVars
<1>5. ASSUME BreakStream PROVE ContainerInv'
  BY <1>5 DEF ContainerInv, BreakStream, dockerVars, detectorVars, restartVars
<1>6. ASSUME Subscribe PROVE ContainerInv'
  BY <1>6 DEF ContainerInv, Subscribe, dockerVars, detectorVars, restartVars
<1>7. ASSUME NEW w \in Restarter, NEW s \in Service, RestartCommand(w, s)
      PROVE  ContainerInv'
  BY <1>7 DEF ContainerInv, RestartCommand, Restart, Step, dockerVars,
     detectorVars, restartVars
<1>8. ASSUME NEW w \in Caller, ListContainers(w) PROVE ContainerInv'
  BY <1>8 DEF ContainerInv, ListContainers, Step, Rest, Fail, Return,
     dockerVars, detectorVars, restartVars
<1>9. ASSUME NEW w \in Caller, RemoveContainer(w) PROVE ContainerInv'
  BY <1>9 DEF ContainerInv, RemoveContainer, Step, Rest, Fail, Return,
     dockerVars, detectorVars, restartVars
<1>10. ASSUME NEW w \in Caller, ContainerDies(w) PROVE ContainerInv'
  BY <1>10 DEF ContainerInv, ContainerDies, Step, Rest, Fail, Return,
     dockerVars, detectorVars, restartVars
<1>11. ASSUME NEW w \in Caller, WaitForService(w) PROVE ContainerInv'
  BY <1>11 DEF ContainerInv, WaitForService, SeeContainer, Step, Rest, Fail,
     Return, dockerVars, detectorVars, restartVars
<1>12. ASSUME NEW w \in Caller, ServiceRestart(w) PROVE ContainerInv'
  BY <1>12 DEF ContainerInv, ServiceRestart, Step, Rest, Fail, Return,
     dockerVars, detectorVars, restartVars
<1>13. ASSUME SeeRemove PROVE ContainerInv'
  BY <1>13 DEF ContainerInv, SeeRemove, NextEvent, dockerVars, detectorVars,
     restartVars
<1>14. ASSUME SeeKill PROVE ContainerInv'
  BY <1>14 DEF ContainerInv, SeeKill, NextEvent, dockerVars, detectorVars,
     restartVars
<1>15. ASSUME SeeDeath PROVE ContainerInv'
  <2>1. CASE Restart(detector, Dead[1])
    BY <1>15, <2>1 DEF ContainerInv, SeeDeath, NextEvent, Restart, Step, dockerVars
  <2>2. CASE UNCHANGED <<pc, job, overlapped>>
    BY <1>15, <2>2 DEF ContainerInv, SeeDeath, NextEvent, dockerVars
  <2> QED
    BY <1>15, <2>1, <2>2 DEF SeeDeath
<1>16. CASE UNCHANGED vars
  BY <1>16 DEF ContainerInv, vars, dockerVars, detectorVars, restartVars
<1> QED
  BY <1>1, <1>2, <1>3, <1>4, <1>5, <1>6, <1>7, <1>8, <1>9, <1>10, <1>11, <1>12,
     <1>13, <1>14, <1>15, <1>16 DEF Next, RestartStep, DetectorStep, Caller

LEMMA ForwardStep ==
    TypeOK /\ ContainerInv /\ ForwardInv /\ [Next]_vars => ForwardInv'
<1> USE SomeService, Typed
<1> SUFFICES ASSUME TypeOK, ContainerInv, ForwardInv, [Next]_vars PROVE ForwardInv'
  OBVIOUS
<1>1. ASSUME NEW s \in Service, Crash(s) PROVE ForwardInv'
  BY <1>1 DEF ContainerInv, ForwardInv, Crash, dockerVars, detectorVars,
     restartVars
<1>2. ASSUME NEW s \in Service, StartContainer(s) PROVE ForwardInv'
  BY <1>2 DEF ContainerInv, ForwardInv, StartContainer, dockerVars,
     detectorVars, restartVars
<1>3. ASSUME NEW s \in Service, RemoveService(s) PROVE ForwardInv'
  BY <1>3 DEF ContainerInv, ForwardInv, RemoveService, dockerVars, detectorVars,
     restartVars
<1>4. ASSUME NEW s \in Service, StopContainer(s) PROVE ForwardInv'
  BY <1>4 DEF ContainerInv, ForwardInv, StopContainer, dockerVars, detectorVars,
     restartVars
<1>5. ASSUME BreakStream PROVE ForwardInv'
  BY <1>5 DEF ContainerInv, ForwardInv, BreakStream, dockerVars, detectorVars,
     restartVars
<1>6. ASSUME Subscribe PROVE ForwardInv'
  BY <1>6 DEF ContainerInv, ForwardInv, Subscribe, dockerVars, detectorVars,
     restartVars
<1>7. ASSUME NEW w \in Restarter, NEW s \in Service, RestartCommand(w, s)
      PROVE  ForwardInv'
  BY <1>7 DEF ContainerInv, ForwardInv, RestartCommand, Restart, Step,
     dockerVars, detectorVars, restartVars
<1>8. ASSUME NEW w \in Caller, ListContainers(w) PROVE ForwardInv'
  BY <1>8 DEF ContainerInv, ForwardInv, ListContainers, Step, Rest, Fail,
     Return, dockerVars, detectorVars, restartVars
<1>9. ASSUME NEW w \in Caller, RemoveContainer(w) PROVE ForwardInv'
  BY <1>9 DEF ContainerInv, ForwardInv, RemoveContainer, Step, Rest, Fail,
     Return, dockerVars, detectorVars, restartVars
<1>10. ASSUME NEW w \in Caller, ContainerDies(w) PROVE ForwardInv'
  BY <1>10 DEF ContainerInv, ForwardInv, ContainerDies, Step, Rest, Fail,
     Return, dockerVars, detectorVars, restartVars
<1>11. ASSUME NEW w \in Caller, WaitForService(w) PROVE ForwardInv'
  BY <1>11 DEF ContainerInv, ForwardInv, WaitForService, SeeContainer, Step,
     Rest, Fail, Return, dockerVars, detectorVars, restartVars
<1>12. ASSUME NEW w \in Caller, ServiceRestart(w) PROVE ForwardInv'
  BY <1>12 DEF ContainerInv, ForwardInv, ServiceRestart, Step, Rest, Fail,
     Return, dockerVars, detectorVars, restartVars
<1>13. ASSUME SeeRemove PROVE ForwardInv'
  BY <1>13 DEF ContainerInv, ForwardInv, SeeRemove, NextEvent, dockerVars,
     detectorVars, restartVars
<1>14. ASSUME SeeKill PROVE ForwardInv'
  BY <1>14 DEF ContainerInv, ForwardInv, SeeKill, NextEvent, dockerVars,
     detectorVars, restartVars
<1>15. ASSUME SeeDeath PROVE ForwardInv'
  <2>1. CASE Restart(detector, Dead[1])
    BY <1>15, <2>1 DEF ForwardInv, SeeDeath, NextEvent, Restart, Step
  <2>2. CASE UNCHANGED <<pc, job, overlapped>>
    BY <1>15, <2>2 DEF ForwardInv, SeeDeath, NextEvent
  <2> QED
    BY <1>15, <2>1, <2>2 DEF SeeDeath
<1>16. CASE UNCHANGED vars
  BY <1>16 DEF ContainerInv, ForwardInv, vars, dockerVars, detectorVars,
     restartVars
<1> QED
  BY <1>1, <1>2, <1>3, <1>4, <1>5, <1>6, <1>7, <1>8, <1>9, <1>10, <1>11, <1>12,
     <1>13, <1>14, <1>15, <1>16 DEF Next, RestartStep, DetectorStep, Caller

LEMMA ForwardCorrect == Spec => [](TypeOK /\ ContainerInv /\ ForwardInv)
<1>1. Init => ContainerInv /\ ForwardInv
  BY SomeService DEF Init, ContainerInv, ForwardInv
<1> QED
  BY <1>1, TypeCorrect, ContainerStep, ForwardStep, PTL DEF Spec

\* The address that a Restart posts is newer than that of the container it
\* removed, and than the one it replaces unless another Restart overlapped it
\* (Restart, WaitForService and ServiceRestart).
THEOREM AddressesMoveForward == Spec => RegistrationForward
<1> DEFINE Posted(s, w) ==
       /\ pc[w] = "post" /\ pc'[w] = "idle" /\ job[w] = s
       /\ reg'[s] > old[w]
       /\ w \in overlapped \/ reg'[s] > reg[s]
<1>1. ASSUME TypeOK, ContainerInv, ForwardInv, [Next]_vars, NEW s \in Service,
             reg'[s] # reg[s]
      PROVE  \E w \in Caller : Posted(s, w)
  <2>1. PICK w \in Caller : ServiceRestart(w)
    BY <1>1, SomeService DEF Next, DetectorStep, RestartStep, Crash, StartContainer,
       RemoveService, StopContainer, BreakStream, Subscribe, RestartCommand,
       ListContainers, RemoveContainer, ContainerDies, WaitForService, SeeRemove,
       SeeKill, SeeDeath, NextEvent, vars
  <2>2. /\ pc[w] = "post" /\ pc'[w] = "idle" /\ job[w] = s
        /\ reg'[s] = found[w]
    BY <1>1, <2>1, Typed DEF ServiceRestart, Fail, Return, Step
  <2>3. reg'[s] > old[w] /\ (w \in overlapped \/ reg'[s] > reg[s])
    BY <1>1, <2>2, Typed DEF ContainerInv, ForwardInv
  <2> QED
    BY <2>2, <2>3
<1>2. TypeOK /\ ContainerInv /\ ForwardInv /\ [Next]_vars =>
        [\A s \in Service : reg'[s] # reg[s] =>
           \E w \in Caller :
             /\ pc[w] = "post" /\ pc'[w] = "idle" /\ job[w] = s
             /\ reg'[s] > old[w]
             /\ w \in overlapped \/ reg'[s] > reg[s]]_vars
  BY <1>1
<1> QED
  BY <1>2, ForwardCorrect, PTL DEF Spec, RegistrationForward

(***************************************************************************)
(* Only crashes make the detector restart a component                      *)
(***************************************************************************)

\* What Emit does to an open stream, and to any other.
LEMMA EmitOne ==
  ASSUME TypeOK, NEW e \in Event, Emit(<<e>>)
  PROVE  IF stream = "open"
         THEN /\ Len(events') = Len(events) + 1 /\ events'[Len(events) + 1] = e
              /\ \A i \in 1..Len(events) : events'[i] = events[i]
         ELSE events' = events
  BY DEF TypeOK, Emit

LEMMA EmitTwo ==
  ASSUME TypeOK, NEW d \in Event, NEW e \in Event, Emit(<<d, e>>)
  PROVE  IF stream = "open"
         THEN /\ Len(events') = Len(events) + 2
              /\ events'[Len(events) + 1] = d /\ events'[Len(events) + 2] = e
              /\ \A i \in 1..Len(events) : events'[i] = events[i]
         ELSE events' = events
  BY DEF TypeOK, Emit

LEMMA TakeHead ==
  ASSUME TypeOK, NEW kind, NextEvent(kind)
  PROVE  /\ Len(events) > 0 /\ Len(events') = Len(events) - 1
         /\ \A i \in 1..Len(events') : events'[i] = events[i + 1]
         /\ Head(events) = events[1] /\ events[1].kind = kind
         /\ Dead = DeadAt(1)
         /\ stream = "open"
  BY DEF TypeOK, NextEvent, Dead, DeadAt

LEMMA EventsTyped ==
  ASSUME TypeOK
  PROVE  /\ Len(events) \in Nat
         /\ \A i \in 1..Len(events) :
              events[i].svc \in Service /\ events[i].cont \in Nat
  <1>1. Len(events) \in Nat /\ \A i \in 1..Len(events) : events[i] \in Event
    BY DEF TypeOK
  <1> QED
    BY <1>1 DEF Event

LEMMA KindsOf ==
  ASSUME TypeOK, NEW s \in Service
  PROVE  /\ Removed(s) \in Event /\ Removed(s).kind = "remove"
         /\ Kill9(s) \in Event /\ Kill9(s).kind = "kill9"
         /\ Kill9(s).svc = s /\ Kill9(s).cont = run[s]
         /\ Die(s) \in Event /\ Die(s).kind = "die"
         /\ Die(s).svc = s /\ Die(s).cont = run[s]
  BY DEF TypeOK, Event, Removed, Kill9, Die

\* No death is reported that was not before.
Quiet == Deaths' \subseteq Deaths /\ \A i \in Deaths' : events'[i] = events[i]

\* The death of the container of service s is the new last event.
NewDeath(s) ==
    /\ Len(events') \in Nat /\ Len(events') > Len(events)
    /\ Deaths' = Deaths \cup {Len(events')}
    /\ \A i \in 1..Len(events) : events'[i] = events[i]
    /\ events'[Len(events')].svc = s /\ events'[Len(events')].cont = run[s]

LEMMA QuietSame ==
  ASSUME events' = events
  PROVE  Quiet
  BY DEF Quiet, Deaths

LEMMA EmitNoDeath ==
  ASSUME TypeOK, NEW e \in Event, e.kind # "die", Emit(<<e>>)
  PROVE  Quiet
  <1>1. CASE stream = "open"
    BY <1>1, EmitOne, EventsTyped DEF Quiet, Deaths
  <1>2. CASE stream # "open"
    BY <1>2, EmitOne, QuietSame
  <1> QED
    BY <1>1, <1>2

LEMMA EmitDeath ==
  ASSUME TypeOK, NEW s \in Service,
         Emit(<<Die(s)>>) \/ Emit(<<Kill9(s), Die(s)>>)
  PROVE  events' = events \/ NewDeath(s)
  <1> DEFINE L == Len(events)
  <1>1. CASE stream # "open"
    BY <1>1 DEF Emit
  <1>2. CASE stream = "open" /\ Emit(<<Die(s)>>)
    <2>1. /\ Len(events') = L + 1 /\ events'[L + 1] = Die(s) /\ L \in Nat
          /\ \A i \in 1..L : events'[i] = events[i]
      BY <1>2, EmitOne, KindsOf, EventsTyped
    <2>2. Deaths' = Deaths \cup {L + 1}
      BY <2>1, KindsOf DEF Deaths
    <2> QED
      BY <2>1, <2>2, KindsOf DEF NewDeath
  <1>3. CASE stream = "open" /\ Emit(<<Kill9(s), Die(s)>>)
    <2>1. /\ Len(events') = L + 2 /\ events'[L + 1] = Kill9(s) /\ events'[L + 2] = Die(s)
          /\ L \in Nat
          /\ \A i \in 1..L : events'[i] = events[i]
      BY <1>3, EmitTwo, KindsOf, EventsTyped
    <2>2. Deaths' = Deaths \cup {L + 2}
      BY <2>1, KindsOf DEF Deaths
    <2> QED
      BY <2>1, <2>2, KindsOf DEF NewDeath
  <1> QED
    BY <1>1, <1>2, <1>3

LEMMA DeathTypes ==
  ASSUME TypeOK, NEW i \in Deaths
  PROVE  i \in 1..Len(events) /\ events[i].svc \in Service /\ events[i].cont \in Nat
  BY EventsTyped DEF Deaths

\* Containers only die, and get numbers that were not used.
LEMMA OnceKept ==
  ASSUME TypeOK, DeathsOnce, Quiet,
         \A s \in Service : /\ made'[s] \in Nat /\ made'[s] >= made[s]
                            /\ run'[s] \in {0, run[s]} \/ run'[s] > made[s]
  PROVE  DeathsOnce'
  <1> SUFFICES ASSUME NEW i \in Deaths'
               PROVE  /\ 0 < events'[i].cont /\ events'[i].cont <= made'[events'[i].svc]
                      /\ run'[events'[i].svc] # events'[i].cont
                      /\ \A j \in Deaths' : DeadAt(j)' = DeadAt(i)' => j = i
    BY DEF DeathsOnce
  <1>1. i \in Deaths /\ events'[i] = events[i]
    BY DEF Quiet
  <1>2. /\ 0 < events[i].cont /\ events[i].cont <= made[events[i].svc]
        /\ run[events[i].svc] # events[i].cont
        /\ events[i].svc \in Service /\ events[i].cont \in Nat
        /\ made \in [Service -> Nat] /\ run \in [Service -> Nat]
    BY <1>1, DeathTypes, Typed DEF DeathsOnce
  <1>3. ASSUME NEW j \in Deaths', DeadAt(j)' = DeadAt(i)' PROVE j = i
    BY <1>1, <1>3 DEF Quiet, DeathsOnce, DeadAt
  <1>4. events'[i].svc = events[i].svc /\ events'[i].cont = events[i].cont
    BY <1>1
  <1> HIDE DEF Quiet
  <1>5. events[i].cont <= made'[events[i].svc] /\ run'[events[i].svc] # events[i].cont
    BY <1>2
  <1> QED
    BY <1>2, <1>3, <1>4, <1>5

LEMMA OnceMore ==
  ASSUME TypeOK, ContainerInv, DeathsOnce, NEW s \in Service, run[s] # 0,
         run' = [run EXCEPT ![s] = 0], made' = made, NewDeath(s)
  PROVE  DeathsOnce'
  <1> PICK n \in Nat : n = Len(events')
    BY DEF NewDeath
  <1>1. run[s] = made[s] /\ made[s] > 0 /\ made[s] \in Nat
    BY Typed DEF ContainerInv
  <1>2. run'[s] = 0 /\ \A t \in Service : run'[t] \in {0, run[t]}
    BY Typed
  <1>3. n \in Deaths' /\ events'[n].svc = s /\ events'[n].cont = run[s]
    BY DEF NewDeath
  <1>4. ASSUME NEW i \in Deaths', i # n
        PROVE  /\ i \in Deaths /\ events'[i] = events[i]
               /\ 0 < events'[i].cont /\ events'[i].cont <= made'[events'[i].svc]
               /\ run'[events'[i].svc] # events'[i].cont
               /\ DeadAt(i)' # DeadAt(n)'
    <2>1. i \in Deaths /\ events'[i] = events[i]
      BY <1>4, DeathTypes DEF NewDeath
    <2>2. /\ 0 < events[i].cont /\ events[i].cont <= made[events[i].svc]
          /\ run[events[i].svc] # events[i].cont
          /\ events[i].svc \in Service /\ events[i].cont \in Nat
      BY <2>1, DeathTypes DEF DeathsOnce
    <2>3. events'[i].svc = events[i].svc /\ events'[i].cont = events[i].cont
      BY <2>1
    <2>4. DeadAt(i)' # DeadAt(n)'
      BY <2>2, <2>3, <1>3 DEF DeadAt
    <2> QED
      BY <1>2, <2>1, <2>2, <2>3, <2>4
  <1>5. ASSUME NEW i \in Deaths', NEW j \in Deaths', DeadAt(j)' = DeadAt(i)'
        PROVE  j = i
    <2>1. CASE i # n /\ j # n
      BY <1>4, <1>5, <2>1 DEF DeathsOnce, DeadAt
    <2>2. CASE i = n \/ j = n
      BY <1>4, <1>5, <2>2
    <2> QED
      BY <2>1, <2>2
  <1>6. ASSUME NEW i \in Deaths'
        PROVE  /\ 0 < events'[i].cont /\ events'[i].cont <= made'[events'[i].svc]
               /\ run'[events'[i].svc] # events'[i].cont
    BY <1>1, <1>2, <1>3, <1>4
  <1> QED
    BY <1>5, <1>6 DEF DeathsOnce

\* A container that runs dies, and Docker may report it.
LEMMA OnceDies ==
  ASSUME TypeOK, ContainerInv, DeathsOnce, NEW s \in Service, run[s] # 0,
         run' = [run EXCEPT ![s] = 0], made' = made,
         Emit(<<Die(s)>>) \/ Emit(<<Kill9(s), Die(s)>>)
  PROVE  DeathsOnce'
  <1>1. CASE events' = events
    <2>1. \A t \in Service : /\ made'[t] \in Nat /\ made'[t] >= made[t]
                             /\ run'[t] \in {0, run[t]}
      BY Typed
    <2> QED
      BY <1>1, <2>1, QuietSame, OnceKept
  <1>2. CASE NewDeath(s)
    BY <1>2, OnceMore
  <1> QED
    BY <1>1, <1>2, EmitDeath

\* Taking the first event moves the others forward.
LEMMA DeathTaken ==
  ASSUME TypeOK, NEW kind, NextEvent(kind), NEW i \in Deaths'
  PROVE  /\ i \in 1..Len(events') /\ i + 1 \in Deaths
         /\ events'[i] = events[i + 1] /\ DeadAt(i)' = DeadAt(i + 1)
  <1>1. i \in 1..Len(events') /\ events'[i].kind = "die"
    BY DEF Deaths
  <1>2. events'[i] = events[i + 1] /\ i + 1 \in 1..Len(events)
    BY <1>1, TakeHead, EventsTyped
  <1> QED
    BY <1>1, <1>2 DEF Deaths, DeadAt

LEMMA OnceTaken ==
  ASSUME TypeOK, DeathsOnce, NEW kind, NextEvent(kind)
  PROVE  DeathsOnce'
  <1>1. run' = run /\ made' = made
    BY DEF NextEvent, dockerVars
  <1>2. ASSUME NEW i \in Deaths'
        PROVE  /\ 0 < events'[i].cont /\ events'[i].cont <= made'[events'[i].svc]
               /\ run'[events'[i].svc] # events'[i].cont
    BY <1>1, DeathTaken DEF DeathsOnce
  <1>3. ASSUME NEW i \in Deaths', NEW j \in Deaths', DeadAt(j)' = DeadAt(i)'
        PROVE  j = i
    <2>1. i + 1 = j + 1
      BY <1>3, DeathTaken DEF DeathsOnce
    <2>2. i \in Nat /\ j \in Nat
      BY DeathTaken
    <2> QED
      BY <2>1, <2>2
  <1> QED
    BY <1>2, <1>3 DEF DeathsOnce

LEMMA DeathsOnceStep ==
    TypeOK /\ ContainerInv /\ DeathsOnce /\ [Next]_vars => DeathsOnce'
<1> SUFFICES ASSUME TypeOK, ContainerInv, DeathsOnce, [Next]_vars PROVE DeathsOnce'
  OBVIOUS
<1> USE Typed, SomeService
<1>1. ASSUME NEW s \in Service, Crash(s) PROVE DeathsOnce'
  BY <1>1, OnceDies DEF Crash
<1>2. ASSUME NEW s \in Service, StartContainer(s) PROVE DeathsOnce'
  <2>1. Quiet
    BY <1>2, QuietSame DEF StartContainer
  <2> QED
    BY <1>2, <2>1, OnceKept DEF StartContainer
<1>3. ASSUME NEW s \in Service, RemoveService(s) PROVE DeathsOnce'
  <2>1. Quiet
    BY <1>3, KindsOf, EmitNoDeath DEF RemoveService
  <2> QED
    BY <1>3, <2>1, OnceKept DEF RemoveService
<1>4. ASSUME NEW s \in Service, StopContainer(s) PROVE DeathsOnce'
  BY <1>4, OnceDies DEF StopContainer
<1>5. ASSUME BreakStream PROVE DeathsOnce'
  <2>1. Quiet
    BY <1>5 DEF BreakStream, Quiet, Deaths
  <2> QED
    BY <1>5, <2>1, OnceKept DEF BreakStream, dockerVars
<1>6. ASSUME Subscribe PROVE DeathsOnce'
  BY <1>6, QuietSame, OnceKept DEF Subscribe, dockerVars
<1>7. ASSUME NEW w \in Restarter, NEW s \in Service, RestartCommand(w, s)
      PROVE  DeathsOnce'
  BY <1>7, QuietSame, OnceKept DEF RestartCommand, dockerVars
<1>8. ASSUME NEW w \in Caller, ListContainers(w) PROVE DeathsOnce'
  BY <1>8, QuietSame, OnceKept DEF ListContainers, dockerVars
<1>9. ASSUME NEW w \in Caller, RemoveContainer(w) PROVE DeathsOnce'
  <2>1. Quiet
    BY <1>9, KindsOf, EmitNoDeath, QuietSame DEF RemoveContainer
  <2> QED
    BY <1>9, <2>1, OnceKept DEF RemoveContainer, dockerVars
<1>10. ASSUME NEW w \in Caller, ContainerDies(w) PROVE DeathsOnce'
  <2>1. CASE UNCHANGED <<run, events>>
    BY <1>10, <2>1, QuietSame, OnceKept DEF ContainerDies
  <2>2. CASE /\ run[job[w]] = old[w] /\ Emit(<<Die(job[w])>>)
             /\ run' = [run EXCEPT ![job[w]] = 0]
    <3>1. run[job[w]] # 0
      BY <1>10, <2>2 DEF ContainerInv, ContainerDies, Fail, Return, Step
    <3> QED
      BY <1>10, <2>2, <3>1, OnceDies DEF ContainerDies
  <2> QED
    BY <1>10, <2>1, <2>2 DEF ContainerDies
<1>11. ASSUME NEW w \in Caller, WaitForService(w) PROVE DeathsOnce'
  BY <1>11, QuietSame, OnceKept DEF WaitForService, dockerVars
<1>12. ASSUME NEW w \in Caller, ServiceRestart(w) PROVE DeathsOnce'
  BY <1>12, QuietSame, OnceKept DEF ServiceRestart, dockerVars
<1>13. ASSUME SeeRemove PROVE DeathsOnce'
  BY <1>13, OnceTaken DEF SeeRemove
<1>14. ASSUME SeeKill PROVE DeathsOnce'
  BY <1>14, OnceTaken DEF SeeKill
<1>15. ASSUME SeeDeath PROVE DeathsOnce'
  BY <1>15, OnceTaken DEF SeeDeath
<1>16. CASE UNCHANGED vars
  BY QuietSame, OnceKept, <1>16 DEF vars, dockerVars, detectorVars, restartVars
<1> QED
  BY <1>1, <1>2, <1>3, <1>4, <1>5, <1>6, <1>7, <1>8, <1>9, <1>10, <1>11, <1>12,
     <1>13, <1>14, <1>15, <1>16 DEF Next, RestartStep, DetectorStep, Caller

\* What the explanations rest on only grows.
Grows ==
    /\ \A j \in 1..Len(events) : events'[j] = events[j]
    /\ Len(events') \in Nat /\ Len(events') >= Len(events)
    /\ late => late'
    /\ crashed \subseteq crashed' /\ up' \subseteq up
    /\ \A s \in Service \ up : run[s] = 0 => run'[s] = 0
    /\ restartDetected \subseteq restartDetected'

LEMMA SeenKept ==
  ASSUME TypeOK, Grows, NEW c, NEW n \in Nat, NEW m \in Nat,
         n <= m, n <= Len(events), KillSeen(c, n)
  PROVE  KillSeen(c, m)'
  <1>1. CASE c \in restartDetected
    BY <1>1 DEF Grows, KillSeen
  <1>2. ASSUME NEW j \in 1..n, events[j].kind = "kill9", DeadAt(j) = c
        PROVE  KillSeen(c, m)'
    <2>1. j \in 1..m /\ events'[j] = events[j]
      BY EventsTyped DEF Grows
    <2> QED
      BY <1>2, <2>1 DEF KillSeen, DeadAt
  <1> QED
    BY <1>1, <1>2 DEF KillSeen

LEMMA ExplainedKept ==
  ASSUME TypeOK, DeathsExplained, Grows, NEW i \in Deaths
  PROVE  Explained(i)'
  <1>1. /\ i \in 1..Len(events) /\ events'[i] = events[i] /\ DeadAt(i)' = DeadAt(i)
        /\ i - 1 \in Nat /\ i - 1 <= Len(events) /\ events[i].svc \in Service
    BY DeathTypes, EventsTyped DEF Grows, DeadAt
  <1>2. CASE KillSeen(DeadAt(i), i - 1)
    <2> PICK c : c = DeadAt(i)
      OBVIOUS
    <2>1. KillSeen(c, i - 1)'
      BY <1>1, <1>2, SeenKept
    <2> QED
      BY <1>1, <2>1 DEF Explained
  <1>3. CASE ~KillSeen(DeadAt(i), i - 1)
    BY <1>1, <1>3 DEF DeathsExplained, Explained, Grows
  <1> QED
    BY <1>2, <1>3

LEMMA AllExplained ==
  ASSUME TypeOK, DeathsExplained, Grows, Quiet
  PROVE  DeathsExplained'
  BY ExplainedKept DEF DeathsExplained, Quiet

\* A new death is explained by what is known when it happens.
LEMMA OneMoreExplained ==
  ASSUME TypeOK, DeathsExplained, Grows, NEW s \in Service, NewDeath(s),
         \/ late' \/ <<s, run[s]>> \in crashed'
         \/ s \notin up' /\ run'[s] = 0
         \/ KillSeen(<<s, run[s]>>, Len(events))
  PROVE  DeathsExplained'
  <1> PICK n \in Nat : n = Len(events')
    BY DEF NewDeath
  <1> PICK c : c = <<s, run[s]>>
    OBVIOUS
  <1>1. DeadAt(n)' = c /\ events'[n].svc = s
    BY DEF NewDeath, DeadAt
  <1>2. Explained(n)'
    <2>1. CASE KillSeen(<<s, run[s]>>, Len(events))
      <3>1. KillSeen(c, Len(events))
        BY <2>1
      <3>2. KillSeen(c, n - 1)'
        BY <3>1, EventsTyped, SeenKept DEF NewDeath
      <3> QED
        BY <1>1, <3>2 DEF Explained
    <2>2. CASE \/ late' \/ <<s, run[s]>> \in crashed'
               \/ s \notin up' /\ run'[s] = 0
      BY <1>1, <2>2 DEF Explained
    <2> QED
      BY <2>1, <2>2
  <1>3. ASSUME NEW i \in Deaths', i # n PROVE Explained(i)'
    BY <1>3, ExplainedKept DEF NewDeath
  <1> QED
    BY <1>2, <1>3 DEF DeathsExplained

\* The kill that was seen, or is to come, is still so when an event is taken.
LEMMA SeenTaken ==
  ASSUME TypeOK, NEW kind, NextEvent(kind), NEW c, NEW n \in Nat, n <= Len(events),
         KillSeen(c, n),
         c \in restartDetected => c \in restartDetected',
         kind = "kill9" => Dead \in restartDetected'
  PROVE  KillSeen(c, n - 1)'
  <1>1. CASE c \in restartDetected
    BY <1>1 DEF KillSeen
  <1>2. ASSUME NEW j \in 1..n, events[j].kind = "kill9", DeadAt(j) = c
        PROVE  KillSeen(c, n - 1)'
    <2>1. CASE j = 1
      BY <1>2, <2>1, TakeHead DEF KillSeen
    <2>2. CASE j # 1
      <3>1. j - 1 \in 1..(n - 1) /\ events'[j - 1] = events[j]
        BY <2>2, TakeHead, EventsTyped
      <3>2. events'[j - 1].kind = "kill9" /\ DeadAt(j - 1)' = c
        BY <1>2, <3>1 DEF DeadAt
      <3> QED
        BY <3>1, <3>2 DEF KillSeen
    <2> QED
      BY <2>1, <2>2
  <1> QED
    BY <1>1, <1>2 DEF KillSeen

LEMMA ExplainedTaken ==
  ASSUME TypeOK, DeathsExplained, NEW kind, NextEvent(kind),
         crashed' = crashed, up' = up, run' = run, late' = late,
         \A i \in Deaths : i # 1 /\ DeadAt(i) \in restartDetected =>
                              DeadAt(i) \in restartDetected',
         kind = "kill9" => Dead \in restartDetected'
  PROVE  DeathsExplained'
  <1> SUFFICES ASSUME NEW i \in Deaths' PROVE Explained(i)'
    BY DEF DeathsExplained
  <1>1. /\ i \in 1..Len(events') /\ i + 1 \in Deaths
        /\ events'[i] = events[i + 1] /\ DeadAt(i)' = DeadAt(i + 1)
    BY DeathTaken
  <1>2. i \in Nat /\ i > 0 /\ i + 1 # 1 /\ i <= Len(events)
    BY <1>1, DeathTypes, TakeHead, EventsTyped
  <1>3. CASE KillSeen(DeadAt(i + 1), i)
    <2> PICK c : c = DeadAt(i + 1)
      OBVIOUS
    <2>1. KillSeen(c, i - 1)'
      BY <1>1, <1>2, <1>3, SeenTaken
    <2> QED
      BY <1>1, <2>1 DEF Explained
  <1>4. CASE ~KillSeen(DeadAt(i + 1), i)
    BY <1>1, <1>2, <1>4 DEF DeathsExplained, Explained
  <1> QED
    BY <1>3, <1>4

LEMMA EmitGrows ==
  ASSUME TypeOK, NEW s \in Service,
         \/ events' = events \/ Emit(<<Removed(s)>>) \/ Emit(<<Kill9(s)>>)
         \/ Emit(<<Die(s)>>) \/ Emit(<<Kill9(s), Die(s)>>)
  PROVE  /\ \A j \in 1..Len(events) : events'[j] = events[j]
         /\ Len(events') \in Nat /\ Len(events') >= Len(events)
  <1>1. events' = events \/ NewDeath(s) \/ Emit(<<Removed(s)>>) \/ Emit(<<Kill9(s)>>)
    BY EmitDeath
  <1> QED
    BY <1>1, KindsOf, EmitOne, EventsTyped DEF NewDeath

LEMMA DeathsExplainedStep ==
    TypeOK /\ ContainerInv /\ EventInv /\ [Next]_vars => DeathsExplained'
<1> SUFFICES ASSUME TypeOK, ContainerInv, EventInv, [Next]_vars
             PROVE  DeathsExplained'
  OBVIOUS
<1> USE SomeService, Typed, EventsTyped
<1>a. DeathsOnce /\ DeathsExplained /\ KillsKnown
  BY DEF EventInv
<1>1. ASSUME NEW s \in Service, Crash(s) PROVE DeathsExplained'
  <2>1. Grows
    BY <1>1, EmitGrows DEF Grows, Crash, detectorVars
  <2>2. CASE events' = events
    BY <1>a, <2>1, <2>2, QuietSame, AllExplained
  <2>3. CASE NewDeath(s)
    <3>1. <<s, run[s]>> \in crashed'
      BY <1>1 DEF Crash
    <3> QED
      BY <1>a, <2>1, <2>3, <3>1, OneMoreExplained
  <2> QED
    BY <1>1, <2>2, <2>3, EmitDeath DEF Crash
<1>2. ASSUME NEW s \in Service, StartContainer(s) PROVE DeathsExplained'
  <2>1. Grows
    BY <1>2 DEF Grows, StartContainer, detectorVars
  <2>2. Quiet
    BY <1>2, QuietSame DEF StartContainer, detectorVars
  <2> QED
    BY <1>a, <2>1, <2>2, AllExplained
<1>3. ASSUME NEW s \in Service, RemoveService(s) PROVE DeathsExplained'
  <2>1. Grows
    BY <1>3, EmitGrows DEF Grows, RemoveService, detectorVars
  <2>2. Quiet
    BY <1>3, KindsOf, EmitNoDeath DEF RemoveService, detectorVars
  <2> QED
    BY <1>a, <2>1, <2>2, AllExplained
<1>4. ASSUME NEW s \in Service, StopContainer(s) PROVE DeathsExplained'
  <2>1. Grows
    BY <1>4, EmitGrows DEF Grows, StopContainer, detectorVars
  <2>2. CASE events' = events
    BY <1>a, <2>1, <2>2, QuietSame, AllExplained
  <2>3. CASE NewDeath(s)
    <3>1. s \notin up' /\ run'[s] = 0
      BY <1>4 DEF StopContainer
    <3> QED
      BY <1>a, <2>1, <2>3, <3>1, OneMoreExplained
  <2> QED
    BY <1>4, <2>2, <2>3, EmitDeath DEF StopContainer
<1>5. ASSUME BreakStream PROVE DeathsExplained'
  <2>1. Deaths' = {}
    BY <1>5 DEF BreakStream, Deaths
  <2> QED
    BY <2>1 DEF DeathsExplained
<1>6. ASSUME Subscribe PROVE DeathsExplained'
  <2>1. Deaths' = {}
    BY <1>6 DEF Subscribe, Deaths, EventInv, DetectorInv
  <2> QED
    BY <2>1 DEF DeathsExplained
<1>7. ASSUME NEW w \in Restarter, NEW s \in Service, RestartCommand(w, s)
      PROVE  DeathsExplained'
  <2>1. Grows
    BY <1>7 DEF Grows, RestartCommand, dockerVars, detectorVars
  <2>2. Quiet
    BY <1>7, QuietSame DEF RestartCommand, dockerVars, detectorVars
  <2> QED
    BY <1>a, <2>1, <2>2, AllExplained
<1>8. ASSUME NEW w \in Caller, ListContainers(w) PROVE DeathsExplained'
  <2>1. Grows
    BY <1>8 DEF Grows, ListContainers, dockerVars, detectorVars, Rest
  <2>2. Quiet
    BY <1>8, QuietSame DEF ListContainers, dockerVars, detectorVars, Rest
  <2> QED
    BY <1>a, <2>1, <2>2, AllExplained
<1>9. ASSUME NEW w \in Caller, RemoveContainer(w) PROVE DeathsExplained'
  <2>1. Grows
    BY <1>9, EmitGrows DEF Grows, RemoveContainer, dockerVars, detectorVars, Rest
  <2>2. Quiet
    BY <1>9, KindsOf, EmitNoDeath, QuietSame DEF RemoveContainer, dockerVars,
       detectorVars, Rest
  <2> QED
    BY <1>a, <2>1, <2>2, AllExplained
<1>10. ASSUME NEW w \in Caller, ContainerDies(w) PROVE DeathsExplained'
  <2>1. CASE UNCHANGED <<run, events>>
    <3>1. Grows
      BY <1>10, <2>1 DEF Grows, ContainerDies, Rest, detectorVars
    <3> QED
      BY <1>a, <2>1, <3>1, QuietSame, AllExplained
  <2>2. CASE /\ run[job[w]] = old[w] /\ Emit(<<Die(job[w])>>)
             /\ run' = [run EXCEPT ![job[w]] = 0]
    <3> PICK s \in Service : s = job[w]
      OBVIOUS
    <3>1. events' = events \/ NewDeath(s)
      BY <2>2, EmitDeath
    <3>3. Grows
      BY <1>10, <2>2, EmitGrows DEF Grows, ContainerDies, Rest, detectorVars
    <3>4. CASE events' = events
      BY <1>a, <3>3, <3>4, QuietSame, AllExplained
    <3>5. CASE stream = "open" /\ NewDeath(s)
      <4>1. late \/ KillSeen(<<s, run[s]>>, Len(events))
        BY <1>10, <1>a, <2>2, <3>5 DEF KillsKnown, Known, ContainerDies,
               Fail, Return, Step
      <4>2. late' \/ KillSeen(<<s, run[s]>>, Len(events))
        BY <3>3, <4>1 DEF Grows
      <4> QED
        BY <1>a, <3>3, <3>5, <4>2, OneMoreExplained
    <3> QED
      BY <2>2, <3>1, <3>4, <3>5 DEF Emit
  <2> QED
    BY <1>10, <2>1, <2>2 DEF ContainerDies
<1>11. ASSUME NEW w \in Caller, WaitForService(w) PROVE DeathsExplained'
  <2>1. Grows
    BY <1>11 DEF Grows, WaitForService, dockerVars, detectorVars, Rest
  <2>2. Quiet
    BY <1>11, QuietSame DEF WaitForService, dockerVars, detectorVars, Rest
  <2> QED
    BY <1>a, <2>1, <2>2, AllExplained
<1>12. ASSUME NEW w \in Caller, ServiceRestart(w) PROVE DeathsExplained'
  <2>1. Grows
    BY <1>12 DEF Grows, ServiceRestart, dockerVars, detectorVars, Rest
  <2>2. Quiet
    BY <1>12, QuietSame DEF ServiceRestart, dockerVars, detectorVars, Rest
  <2> QED
    BY <1>a, <2>1, <2>2, AllExplained
<1>13. ASSUME SeeRemove PROVE DeathsExplained'
  BY <1>13, <1>a, ExplainedTaken DEF SeeRemove, NextEvent, dockerVars
<1>14. ASSUME SeeKill PROVE DeathsExplained'
  BY <1>14, <1>a, ExplainedTaken DEF SeeKill, NextEvent, dockerVars
<1>15. ASSUME SeeDeath PROVE DeathsExplained'
  <2>1. 1 \in Deaths /\ Dead = DeadAt(1)
    BY <1>15, TakeHead DEF SeeDeath, Deaths
  <2>2. \A i \in Deaths : i # 1 => DeadAt(i) # Dead
    BY <1>a, <2>1 DEF DeathsOnce
  <2>3. restartDetected \ {Dead} \subseteq restartDetected'
    BY <1>15 DEF SeeDeath
  <2>4. crashed' = crashed /\ up' = up /\ run' = run /\ late' = late
    BY <1>15 DEF SeeDeath, NextEvent, dockerVars
  <2> QED
    BY <1>15, <1>a, <2>2, <2>3, <2>4, ExplainedTaken DEF SeeDeath
<1>16. CASE UNCHANGED vars
  BY <1>a, <1>16, QuietSame, AllExplained DEF Grows, vars, dockerVars, detectorVars,
     restartVars
<1> QED
  BY <1>1, <1>2, <1>3, <1>4, <1>5, <1>6, <1>7, <1>8, <1>9, <1>10, <1>11, <1>12,
     <1>13, <1>14, <1>15, <1>16 DEF Next, RestartStep, DetectorStep, Caller

\* The death that a Restart is about to cause stays explained.
LEMMA KnownKept ==
  ASSUME TypeOK, ContainerInv, KillsKnown, Grows, NEW w \in Caller,
         pc'[w] = "dying" => pc[w] = "dying" /\ job'[w] = job[w] /\ old'[w] = old[w],
         \A s \in Service : run'[s] \in {0, run[s]} \/ run'[s] > made[s],
         stream' = stream
  PROVE  Known(w)'
  <1> USE EventsTyped
  <1> PICK c : c = <<job[w], old[w]>>
    OBVIOUS
  <1> PICK m \in Nat : m = Len(events')
    BY DEF Grows
  <1> SUFFICES ASSUME pc'[w] = "dying", run'[job'[w]] = old'[w], stream' = "open", ~late'
               PROVE  KillSeen(c, m)'
    BY DEF Known
  <1>1. /\ pc[w] = "dying" /\ job'[w] = job[w] /\ old'[w] = old[w]
        /\ 0 < old[w] /\ old[w] <= made[job[w]]
        /\ job[w] \in Service /\ old[w] \in Nat /\ made[job[w]] \in Nat
    BY Typed, SomeService DEF ContainerInv
  <1>2. run[job[w]] = old[w]
    BY <1>1
  <1>3. KillSeen(c, Len(events))
    BY <1>1, <1>2 DEF KillsKnown, Known, Grows
  <1> QED
    BY <1>3, SeenKept DEF Grows

LEMMA KnownTaken ==
  ASSUME TypeOK, ContainerInv, KillsKnown, NEW kind, NextEvent(kind), NEW w \in Caller,
         pc'[w] = "dying" => pc[w] = "dying" /\ job'[w] = job[w],
         run[job[w]] # old[w] \/ <<job[w], old[w]>> \notin restartDetected
           \/ <<job[w], old[w]>> \in restartDetected',
         kind # "kill9" \/ Dead \in restartDetected'
  PROVE  Known(w)'
  <1> USE EventsTyped, TakeHead
  <1> PICK c : c = <<job[w], old[w]>>
    OBVIOUS
  <1> PICK m \in Nat : m = Len(events')
    OBVIOUS
  <1>1. run' = run /\ old' = old /\ late' = late /\ stream = "open"
    BY DEF NextEvent, dockerVars
  <1> SUFFICES ASSUME pc'[w] = "dying", run'[job'[w]] = old'[w], ~late'
               PROVE  KillSeen(c, m)'
    BY <1>1 DEF Known
  <1> PICK n \in Nat : n = Len(events)
    OBVIOUS
  <1>2. KillSeen(c, n)
    BY <1>1 DEF KillsKnown, Known
  <1>3. pc[w] = "dying" /\ run[job[w]] = old[w]
    BY <1>1
  <1>4. KillSeen(c, n - 1)'
    BY <1>2, <1>3, SeenTaken
  <1> QED
    BY <1>4

LEMMA KillsKnownStep ==
    TypeOK /\ ContainerInv /\ EventInv /\ [Next]_vars => KillsKnown'
<1> SUFFICES ASSUME TypeOK, ContainerInv, EventInv, [Next]_vars PROVE KillsKnown'
  OBVIOUS
<1> USE SomeService, Typed, EventsTyped
<1>a. DeathsOnce /\ KillsKnown
  BY DEF EventInv
<1>1. ASSUME NEW s \in Service, Crash(s) PROVE KillsKnown'
  <2>1. Grows
    BY <1>1, EmitGrows DEF Grows, Crash, dockerVars, detectorVars, Rest
  <2> QED
    BY <1>1, <1>a, <2>1, KnownKept DEF KillsKnown, Crash, restartVars, detectorVars
<1>2. ASSUME NEW s \in Service, StartContainer(s) PROVE KillsKnown'
  <2>1. Grows
    BY <1>2, EmitGrows DEF Grows, StartContainer, detectorVars
  <2>2. stream' = stream /\ pc' = pc /\ job' = job /\ old' = old
    BY <1>2 DEF StartContainer, restartVars, detectorVars
  <2>3. \A t \in Service : run'[t] \in {0, run[t]} \/ run'[t] > made[t]
    BY <1>2 DEF StartContainer
  <2>4. ASSUME NEW w \in Caller PROVE Known(w)'
    BY <1>a, <2>1, <2>2, <2>3, KnownKept
  <2> QED
    BY <2>4 DEF KillsKnown
<1>3. ASSUME NEW s \in Service, RemoveService(s) PROVE KillsKnown'
  <2>1. Grows
    BY <1>3, EmitGrows DEF Grows, RemoveService, dockerVars, detectorVars, Rest
  <2> QED
    BY <1>3, <1>a, <2>1, KnownKept DEF KillsKnown, RemoveService, restartVars,
       detectorVars
<1>4. ASSUME NEW s \in Service, StopContainer(s) PROVE KillsKnown'
  <2>1. Grows
    BY <1>4, EmitGrows DEF Grows, StopContainer, dockerVars, detectorVars, Rest
  <2> QED
    BY <1>4, <1>a, <2>1, KnownKept DEF KillsKnown, StopContainer, restartVars,
       detectorVars
<1>5. ASSUME BreakStream PROVE KillsKnown'
  BY <1>5 DEF BreakStream, KillsKnown, Known
<1>6. ASSUME Subscribe PROVE KillsKnown'
  <2>1. ASSUME NEW w \in Caller PROVE Known(w)'
    BY <1>6 DEF Subscribe, Known, restartVars
  <2> QED
    BY <2>1 DEF KillsKnown
<1>7. ASSUME NEW w \in Restarter, NEW s \in Service, RestartCommand(w, s)
      PROVE  KillsKnown'
  <2>1. Grows
    BY <1>7, EmitGrows DEF Grows, RestartCommand, dockerVars, detectorVars, Rest
  <2> QED
    BY <1>7, <1>a, <2>1, KnownKept DEF KillsKnown, RestartCommand, Restart, Step,
       dockerVars, detectorVars
<1>8. ASSUME NEW w \in Caller, ListContainers(w) PROVE KillsKnown'
  <2>1. Grows
    BY <1>8, EmitGrows DEF Grows, ListContainers, dockerVars, detectorVars, Rest
  <2> QED
    BY <1>8, <1>a, <2>1, KnownKept DEF KillsKnown, ListContainers, Step, Fail,
       Return, Rest, dockerVars, detectorVars
<1>9. ASSUME NEW w \in Caller, RemoveContainer(w) PROVE KillsKnown'
  <2>1. Grows
    BY <1>9, EmitGrows DEF Grows, RemoveContainer, Rest, dockerVars, detectorVars
  <2>2. /\ run' = run /\ stream' = stream
        /\ \A v \in Caller \ {w} : pc'[v] = pc[v] /\ job'[v] = job[v] /\ old'[v] = old[v]
    BY <1>9 DEF RemoveContainer, Fail, Return, Step, Rest, dockerVars, detectorVars
  <2>3. ASSUME NEW v \in Caller \ {w} PROVE Known(v)'
    BY <1>a, <2>1, <2>2, KnownKept
  <2>4. Known(w)'
    <3>1. SUFFICES ASSUME pc'[w] = "dying", run'[job'[w]] = old'[w], stream' = "open"
                   PROVE  KillSeen(<<job[w], old[w]>>, Len(events))'
      BY DEF Known
    <3>2. job' = job /\ old' = old /\ (run[job[w]] = old[w] => Emit(<<Kill9(job[w])>>))
      BY <1>9, <3>1 DEF RemoveContainer, Fail, Return, Step
    <3>3. Emit(<<Kill9(job[w])>>) /\ stream = "open"
      BY <2>2, <3>1, <3>2
    <3>4. /\ Len(events') = Len(events) + 1
          /\ events'[Len(events) + 1] = Kill9(job[w])
      BY <3>3, EmitOne, KindsOf
    <3>k. /\ job[w] \in Service /\ run[job[w]] = old[w]
          /\ Kill9(job[w]).kind = "kill9" /\ Kill9(job[w]).svc = job[w]
          /\ Kill9(job[w]).cont = run[job[w]]
      BY <2>2, <3>1, <3>2, Typed, KindsOf
    <3>n. Len(events) \in Nat
      BY EventsTyped
    <3>5. LET j == Len(events') IN
            /\ j \in 1..Len(events') /\ events'[j].kind = "kill9"
            /\ events'[j].svc = job'[w] /\ events'[j].cont = old'[w]
      BY <3>2, <3>4, <3>k, <3>n
    <3> QED
      BY <3>5 DEF KillSeen, DeadAt
  <2> QED
    BY <2>3, <2>4 DEF KillsKnown
<1>10. ASSUME NEW w \in Caller, ContainerDies(w) PROVE KillsKnown'
  <2>1. Grows
    BY <1>10, EmitGrows DEF Grows, ContainerDies, Rest, detectorVars
  <2>2. stream' = stream /\ \A s \in Service : run'[s] \in {0, run[s]}
    BY <1>10 DEF ContainerDies, Rest, detectorVars
  <2>3. \A v \in Caller : pc'[v] = "dying" =>
          pc[v] = "dying" /\ job'[v] = job[v] /\ old'[v] = old[v]
    BY <1>10 DEF ContainerDies, Fail, Return, Step, TypeOK
  <2> QED
    BY <1>a, <2>1, <2>2, <2>3, KnownKept DEF KillsKnown
<1>11. ASSUME NEW w \in Caller, WaitForService(w) PROVE KillsKnown'
  <2>1. Grows
    BY <1>11, EmitGrows DEF Grows, WaitForService, dockerVars, detectorVars, Rest
  <2> QED
    BY <1>11, <1>a, <2>1, KnownKept DEF KillsKnown, WaitForService, SeeContainer,
       Step, Fail, Return, Rest, dockerVars, detectorVars
<1>12. ASSUME NEW w \in Caller, ServiceRestart(w) PROVE KillsKnown'
  <2>1. Grows
    BY <1>12, EmitGrows DEF Grows, ServiceRestart, dockerVars, detectorVars, Rest
  <2> QED
    BY <1>12, <1>a, <2>1, KnownKept DEF KillsKnown, ServiceRestart, Step, Fail,
       Return, Rest, dockerVars, detectorVars
<1>13. ASSUME SeeRemove PROVE KillsKnown'
  <2>1. NextEvent("remove") /\ UNCHANGED <<restartDetected, pc, job>>
    BY <1>13 DEF SeeRemove
  <2>2. ASSUME NEW w \in Caller PROVE Known(w)'
    <3>1. pc'[w] = "dying" => pc[w] = "dying" /\ job'[w] = job[w]
      BY <2>1
    <3>2. restartDetected' = restartDetected
      BY <2>1
    <3>3. "remove" # "kill9"
      OBVIOUS
    <3>4. NextEvent("remove")
      BY <2>1
    <3> QED
      BY <1>a, <3>1, <3>2, <3>3, <3>4, KnownTaken
  <2> QED
    BY <2>2 DEF KillsKnown
<1>14. ASSUME SeeKill PROVE KillsKnown'
  BY <1>14, <1>a, KnownTaken DEF SeeKill, KillsKnown
<1>15. ASSUME SeeDeath PROVE KillsKnown'
  <2>1. 1 \in Deaths /\ Dead = DeadAt(1)
    BY <1>15, TakeHead DEF SeeDeath, Deaths
  <2>2. ASSUME NEW w \in Caller, run[job[w]] = old[w] PROVE <<job[w], old[w]>> # Dead
    BY <1>a, <2>1, <2>2 DEF DeathsOnce, DeadAt
  <2>3. restartDetected \ {Dead} \subseteq restartDetected'
    BY <1>15 DEF SeeDeath
  <2>4. ASSUME NEW w \in Caller, pc'[w] = "dying"
        PROVE  pc[w] = "dying" /\ job'[w] = job[w]
    BY <1>15, <2>4 DEF SeeDeath, Restart, Step
  <2>5. NextEvent("die")
    BY <1>15 DEF SeeDeath
  <2>6. ASSUME NEW w \in Caller PROVE Known(w)'
    <3>1. pc'[w] = "dying" => pc[w] = "dying" /\ job'[w] = job[w]
      BY <2>4
    <3>2. \/ run[job[w]] # old[w] \/ <<job[w], old[w]>> \notin restartDetected
          \/ <<job[w], old[w]>> \in restartDetected'
      BY <2>2, <2>3
    <3>3. "die" # "kill9"
      OBVIOUS
    <3> QED
      BY <1>a, <2>5, <3>1, <3>2, <3>3, KnownTaken
  <2> QED
    BY <2>6 DEF KillsKnown
<1>16. CASE UNCHANGED vars
  BY <1>a, <1>16 DEF KillsKnown, Known, KillSeen, DeadAt, vars, dockerVars,
     detectorVars, restartVars
<1> QED
  BY <1>1, <1>2, <1>3, <1>4, <1>5, <1>6, <1>7, <1>8, <1>9, <1>10, <1>11, <1>12,
     <1>13, <1>14, <1>15, <1>16 DEF Next, RestartStep, DetectorStep, Caller

LEMMA DetectorInvStep ==
    TypeOK /\ ContainerInv /\ EventInv /\ [Next]_vars => DetectorInv'
<1> SUFFICES ASSUME TypeOK, ContainerInv, EventInv, [Next]_vars PROVE DetectorInv'
  OBVIOUS
<1> USE SomeService, Typed
<1>a. DeathsExplained /\ DetectorInv
  BY DEF EventInv
<1>1. ASSUME NEW s \in Service, Crash(s) PROVE DetectorInv'
  BY <1>a, <1>1 DEF DetectorInv, OnlyCrashesRestart, Emit, Crash, dockerVars,
     detectorVars, restartVars
<1>2. ASSUME NEW s \in Service, StartContainer(s) PROVE DetectorInv'
  BY <1>a, <1>2 DEF DetectorInv, OnlyCrashesRestart, Emit, StartContainer,
     dockerVars, detectorVars, restartVars
<1>3. ASSUME NEW s \in Service, RemoveService(s) PROVE DetectorInv'
  BY <1>a, <1>3 DEF DetectorInv, OnlyCrashesRestart, Emit, RemoveService,
     dockerVars, detectorVars, restartVars
<1>4. ASSUME NEW s \in Service, StopContainer(s) PROVE DetectorInv'
  BY <1>a, <1>4 DEF DetectorInv, OnlyCrashesRestart, Emit, StopContainer,
     dockerVars, detectorVars, restartVars
<1>5. ASSUME BreakStream PROVE DetectorInv'
  BY <1>a, <1>5 DEF DetectorInv, OnlyCrashesRestart, Emit, BreakStream,
     dockerVars, detectorVars, restartVars
<1>6. ASSUME Subscribe PROVE DetectorInv'
  BY <1>a, <1>6 DEF DetectorInv, OnlyCrashesRestart, Emit, Subscribe,
     dockerVars, detectorVars, restartVars
<1>7. ASSUME NEW w \in Restarter, NEW s \in Service, RestartCommand(w, s)
      PROVE  DetectorInv'
  <2>1. w \in Caller /\ w # detector
    BY DetectorAssumption
  <2>2. pc'[detector] = pc[detector] /\ job'[detector] = job[detector]
    BY <1>7, <2>1 DEF RestartCommand, Restart, Step
  <2> QED
    BY <1>7, <1>a, <2>2 DEF DetectorInv, OnlyCrashesRestart, RestartCommand,
       dockerVars,
       detectorVars
<1>8. ASSUME NEW w \in Caller, ListContainers(w) PROVE DetectorInv'
  BY <1>a, <1>8 DEF DetectorInv, OnlyCrashesRestart, Emit, ListContainers, Step,
     Rest, Fail, Return, dockerVars, detectorVars, restartVars
<1>9. ASSUME NEW w \in Caller, RemoveContainer(w) PROVE DetectorInv'
  BY <1>a, <1>9 DEF DetectorInv, OnlyCrashesRestart, Emit, RemoveContainer,
     Step, Rest, Fail, Return, dockerVars, detectorVars, restartVars
<1>10. ASSUME NEW w \in Caller, ContainerDies(w) PROVE DetectorInv'
  <2>1. /\ up' = up /\ late' = late /\ cause' = cause /\ crashed' = crashed
        /\ stream' = stream
    BY <1>10 DEF ContainerDies, Rest, detectorVars
  <2>2. stream = "closed" => events' = events
    BY <1>10 DEF ContainerDies, Emit
  <2>3. pc'[detector] = pc[detector] \/ (pc[detector] = "dying" /\ pc'[detector] = "wait")
          \/ pc'[detector] = "idle"
    BY <1>10 DEF ContainerDies, Step, Fail, Return
  <2>4. stream = "closed" => pc[detector] = "idle" /\ pc'[detector] = "idle"
    BY <1>a, <1>10 DEF DetectorInv, ContainerDies, Step, Fail, Return
  <2>5. pc'[detector] = "list" =>
          pc[detector] = "list" /\ job'[detector] = job[detector]
    BY <1>10 DEF ContainerDies, Step, Fail, Return
  <2>6. \A s \in Service : run[s] = 0 => run'[s] = 0
    BY <1>10 DEF ContainerDies
  <2>7. job[detector] \in Service
    OBVIOUS
  <2> QED
    BY <1>a, <2>1, <2>2, <2>3, <2>4, <2>5, <2>6, <2>7 DEF DetectorInv,
       OnlyCrashesRestart
<1>11. ASSUME NEW w \in Caller, WaitForService(w) PROVE DetectorInv'
  BY <1>a, <1>11 DEF DetectorInv, OnlyCrashesRestart, Emit, WaitForService,
     SeeContainer, Step, Rest, Fail, Return, dockerVars, detectorVars,
     restartVars
<1>12. ASSUME NEW w \in Caller, ServiceRestart(w) PROVE DetectorInv'
  BY <1>a, <1>12 DEF DetectorInv, OnlyCrashesRestart, Emit, ServiceRestart,
     Step, Rest, Fail, Return, dockerVars, detectorVars, restartVars
<1>13. ASSUME SeeRemove PROVE DetectorInv'
  BY <1>a, <1>13 DEF DetectorInv, OnlyCrashesRestart, Emit, SeeRemove,
     NextEvent, dockerVars, detectorVars, restartVars
<1>14. ASSUME SeeKill PROVE DetectorInv'
  BY <1>a, <1>14 DEF DetectorInv, OnlyCrashesRestart, Emit, SeeKill, NextEvent,
     dockerVars, detectorVars, restartVars
<1>15. ASSUME SeeDeath PROVE DetectorInv'
  <2>1. CASE UNCHANGED <<cause, pc, job, overlapped>>
    BY <1>15, <1>a, <2>1 DEF DetectorInv, OnlyCrashesRestart, SeeDeath, NextEvent,
       dockerVars
  <2>2. CASE /\ Dead \notin restartDetected /\ cause' = Dead
             /\ Restart(detector, Dead[1])
    <3>1. 1 \in Deaths /\ Dead = DeadAt(1) /\ stream = "open"
      BY <1>15, TakeHead DEF SeeDeath, Deaths
    <3>2. ~KillSeen(DeadAt(1), 0)
      BY <2>2, <3>1 DEF KillSeen
    <3>3. \/ late \/ Dead \in crashed
          \/ events[1].svc \notin up /\ run[events[1].svc] = 0
      BY <1>a, <3>1, <3>2 DEF DeathsExplained, Explained
    <3>4. job'[detector] = events[1].svc /\ pc'[detector] = "list"
      BY <2>2, <3>1 DEF Restart, Step, DeadAt
    <3>5. /\ up' = up /\ run' = run /\ late' = late /\ crashed' = crashed
          /\ stream' = stream
      BY <1>15 DEF SeeDeath, NextEvent, dockerVars
    <3> QED
      BY <2>2, <3>1, <3>3, <3>4, <3>5 DEF DetectorInv, OnlyCrashesRestart
  <2> QED
    BY <1>15, <2>1, <2>2 DEF SeeDeath
<1>16. CASE UNCHANGED vars
  BY <1>a, <1>16 DEF DetectorInv, OnlyCrashesRestart, Emit, vars, dockerVars,
     detectorVars, restartVars
<1> QED
  BY <1>1, <1>2, <1>3, <1>4, <1>5, <1>6, <1>7, <1>8, <1>9, <1>10, <1>11, <1>12,
     <1>13, <1>14, <1>15, <1>16 DEF Next, RestartStep, DetectorStep, Caller

LEMMA EventCorrect == Spec => [](TypeOK /\ ContainerInv /\ EventInv)
<1>1. ASSUME Init PROVE ContainerInv /\ EventInv
  <2>1. ContainerInv
    BY <1>1, SomeService DEF Init, ContainerInv
  <2>2. Deaths = {} /\ events = <<>> /\ ~late /\ stream = "closed"
    BY <1>1 DEF Init, Deaths
  <2>3. \A w \in Caller : pc[w] = "idle"
    BY <1>1 DEF Init
  <2>4. KillsKnown /\ DetectorInv
    BY <2>2, <2>3, SomeService DEF KillsKnown, Known, DetectorInv,
       OnlyCrashesRestart
  <2> QED
    BY <2>1, <2>2, <2>4 DEF EventInv, DeathsOnce, DeathsExplained
<1>2. TypeOK /\ ContainerInv /\ EventInv /\ [Next]_vars => EventInv'
  BY DeathsOnceStep, DeathsExplainedStep, KillsKnownStep, DetectorInvStep DEF
     EventInv
<1> QED
  BY <1>1, <1>2, TypeCorrect, ContainerStep, PTL DEF Spec

\* The detector removes a container only in answer to a crash: the kills of
\* every Restart, its own and the API's, are known before the deaths they cause,
\* and an uninstalled service has nothing to remove (crashDetectore).
THEOREM CrashesOnly == Spec => []OnlyCrashesRestart
<1>1. EventInv => OnlyCrashesRestart
  BY DEF EventInv, DetectorInv
<1> QED
  BY <1>1, EventCorrect, PTL

(***************************************************************************)
(* API restarts leave the address of the container that runs               *)
(***************************************************************************)
LEMMA HistoryGrows ==
  ASSUME TypeOK, EventInv, [Next]_vars
  PROVE  /\ crashed \subseteq crashed' /\ (late => late')
         /\ up' \subseteq up /\ failed \subseteq failed'
<1> DEFINE Growth == /\ crashed \subseteq crashed' /\ (late => late')
                     /\ up' \subseteq up /\ failed \subseteq failed'
<1> SUFFICES Growth
  OBVIOUS
<1>1. ASSUME NEW s \in Service, Crash(s) PROVE Growth
  BY <1>1 DEF Crash, dockerVars, detectorVars, restartVars
<1>2. ASSUME NEW s \in Service, StartContainer(s) PROVE Growth
  BY <1>2 DEF StartContainer, dockerVars, detectorVars, restartVars
<1>3. ASSUME NEW s \in Service, RemoveService(s) PROVE Growth
  BY <1>3 DEF RemoveService, dockerVars, detectorVars, restartVars
<1>4. ASSUME NEW s \in Service, StopContainer(s) PROVE Growth
  BY <1>4 DEF StopContainer, dockerVars, detectorVars, restartVars
<1>5. ASSUME BreakStream PROVE Growth
  BY <1>5 DEF BreakStream, dockerVars, detectorVars, restartVars
<1>6. ASSUME Subscribe PROVE Growth
  BY <1>6 DEF Subscribe, EventInv, DetectorInv, dockerVars, detectorVars,
     restartVars
<1>7. ASSUME NEW w \in Restarter, NEW s \in Service, RestartCommand(w, s)
      PROVE  Growth
  BY <1>7 DEF RestartCommand, Restart, Step, dockerVars, detectorVars,
     restartVars
<1>8. ASSUME NEW w \in Caller, ListContainers(w) PROVE Growth
  BY <1>8 DEF ListContainers, Step, Rest, Fail, Return, dockerVars,
     detectorVars, restartVars
<1>9. ASSUME NEW w \in Caller, RemoveContainer(w) PROVE Growth
  BY <1>9 DEF RemoveContainer, Step, Rest, Fail, Return, dockerVars,
     detectorVars, restartVars
<1>10. ASSUME NEW w \in Caller, ContainerDies(w) PROVE Growth
  BY <1>10 DEF ContainerDies, Step, Rest, Fail, Return, dockerVars, detectorVars,
     restartVars
<1>11. ASSUME NEW w \in Caller, WaitForService(w) PROVE Growth
  BY <1>11 DEF WaitForService, SeeContainer, Step, Rest, Fail, Return,
     dockerVars, detectorVars, restartVars
<1>12. ASSUME NEW w \in Caller, ServiceRestart(w) PROVE Growth
  BY <1>12 DEF ServiceRestart, Step, Rest, Fail, Return, dockerVars,
     detectorVars, restartVars
<1>13. ASSUME SeeRemove PROVE Growth
  BY <1>13 DEF SeeRemove, NextEvent, dockerVars, detectorVars, restartVars
<1>14. ASSUME SeeKill PROVE Growth
  BY <1>14 DEF SeeKill, NextEvent, dockerVars, detectorVars, restartVars
<1>15. ASSUME SeeDeath PROVE Growth
  BY <1>15 DEF SeeDeath, NextEvent, Restart, Step, dockerVars, detectorVars,
     restartVars
<1>16. CASE UNCHANGED vars
  BY <1>16 DEF vars, dockerVars, detectorVars, restartVars
<1> QED
  BY <1>1, <1>2, <1>3, <1>4, <1>5, <1>6, <1>7, <1>8, <1>9, <1>10, <1>11, <1>12,
     <1>13, <1>14, <1>15, <1>16 DEF Next, RestartStep, DetectorStep, Caller

LEMMA CurrentStep ==
    TypeOK /\ ContainerInv /\ EventInv /\ CurrentInv /\ [Next]_vars => CurrentInv'
<1> SUFFICES ASSUME TypeOK, ContainerInv, EventInv, CurrentInv, [Next]_vars,
                    crashed' = {}, ~late',
                    NEW r \in Restarter, Restarter = {r},
                    NEW s \in up', s \notin failed'
             PROVE  Current(r, s)'
  BY DEF CurrentInv
<1> USE SomeService, Typed
<1>a. /\ crashed = {} /\ ~late /\ s \in up /\ s \notin failed /\ Current(r, s)
      /\ s \in Service /\ r \in Caller /\ r # detector /\ Caller = {r, detector}
  BY HistoryGrows, DetectorAssumption DEF CurrentInv, TypeOK, Caller
<1>b. /\ pc[detector] \in {"idle", "list"}
      /\ pc[detector] = "list" => job[detector] # s
  BY <1>a DEF EventInv, DetectorInv, OnlyCrashesRestart
<1>1. ASSUME NEW t \in Service, Crash(t) PROVE Current(r, s)'
  BY <1>a, <1>b, <1>1 DEF Current, Crash, dockerVars, detectorVars, restartVars
<1>2. ASSUME NEW t \in Service, StartContainer(t) PROVE Current(r, s)'
  BY <1>a, <1>b, <1>2 DEF Current, StartContainer, dockerVars, detectorVars,
     restartVars
<1>3. ASSUME NEW t \in Service, RemoveService(t) PROVE Current(r, s)'
  BY <1>a, <1>b, <1>3 DEF Current, RemoveService, dockerVars, detectorVars,
     restartVars
<1>4. ASSUME NEW t \in Service, StopContainer(t) PROVE Current(r, s)'
  BY <1>a, <1>b, <1>4 DEF Current, StopContainer, dockerVars, detectorVars,
     restartVars
<1>5. ASSUME BreakStream PROVE Current(r, s)'
  BY <1>a, <1>b, <1>5 DEF Current, BreakStream, dockerVars, detectorVars,
     restartVars
<1>6. ASSUME Subscribe PROVE Current(r, s)'
  BY <1>a, <1>b, <1>6 DEF Current, Subscribe, dockerVars, detectorVars,
     restartVars
<1>7. ASSUME NEW w \in Restarter, NEW t \in Service, RestartCommand(w, t)
      PROVE  Current(r, s)'
  BY <1>a, <1>b, <1>7 DEF Current, RestartCommand, Restart, Step, dockerVars,
     detectorVars, restartVars
<1>8. ASSUME NEW w \in Caller, ListContainers(w) PROVE Current(r, s)'
  BY <1>a, <1>b, <1>8 DEF Current, ListContainers, Step, Rest, Fail, Return,
     dockerVars, detectorVars, restartVars
<1>9. ASSUME NEW w \in Caller, RemoveContainer(w) PROVE Current(r, s)'
  BY <1>a, <1>b, <1>9 DEF Current, RemoveContainer, Step, Rest, Fail, Return,
     dockerVars, detectorVars, restartVars
<1>10. ASSUME NEW w \in Caller, ContainerDies(w) PROVE Current(r, s)'
  BY <1>a, <1>b, <1>10 DEF Current, ContainerDies, Step, Rest, Fail, Return,
     dockerVars, detectorVars, restartVars
<1>11. ASSUME NEW w \in Caller, WaitForService(w) PROVE Current(r, s)'
  BY <1>a, <1>b, <1>11 DEF Current, WaitForService, SeeContainer, Step, Rest,
     Fail, Return, dockerVars, detectorVars, restartVars
<1>12. ASSUME NEW w \in Caller, ServiceRestart(w) PROVE Current(r, s)'
  BY <1>a, <1>b, <1>12 DEF Current, ServiceRestart, Step, Rest, Fail, Return,
     dockerVars, detectorVars, restartVars
<1>13. ASSUME SeeRemove PROVE Current(r, s)'
  BY <1>a, <1>b, <1>13 DEF Current, SeeRemove, NextEvent, dockerVars,
     detectorVars, restartVars
<1>14. ASSUME SeeKill PROVE Current(r, s)'
  BY <1>a, <1>b, <1>14 DEF Current, SeeKill, NextEvent, dockerVars,
     detectorVars, restartVars
<1>15. ASSUME SeeDeath PROVE Current(r, s)'
  BY <1>a, <1>b, <1>15 DEF Current, SeeDeath, NextEvent, Restart, Step,
     dockerVars, detectorVars, restartVars
<1>16. CASE UNCHANGED vars
  BY <1>a, <1>b, <1>16 DEF Current, vars, dockerVars, detectorVars, restartVars
<1> QED
  BY <1>1, <1>2, <1>3, <1>4, <1>5, <1>6, <1>7, <1>8, <1>9, <1>10, <1>11, <1>12,
     <1>13, <1>14, <1>15, <1>16 DEF Next, RestartStep, DetectorStep, Caller

LEMMA CurrentCorrect == Spec => []CurrentInv
<1>1. Init => CurrentInv
  BY SomeService DEF Init, CurrentInv, Current
<1> QED
  BY <1>1, EventCorrect, CurrentStep, PTL DEF Spec

\* API restarts that follow one another leave the core network with the address
\* of the container that runs, if nothing crashed and no restart failed (Restart,
\* crashDetectore).
THEOREM AddressesCurrent == Spec => []RegistrationCurrent
<1>1. CurrentInv => RegistrationCurrent
  BY SomeService DEF CurrentInv, Current, RegistrationCurrent
<1> QED
  BY <1>1, CurrentCorrect, PTL

(***************************************************************************)
(* A crash that was answered                                               *)
(***************************************************************************)

\* What AnsweredInv says of a service and one of its containers.
Answers(s, c) ==
    /\ pc[detector] # "idle" =>
         job[detector] = s /\ 0 < c /\ c <= made[s] /\ run[s] # c
    /\ pc[detector] \in {"remove", "dying", "wait", "post"} => c < old[detector]
    /\ pc[detector] = "idle" /\ s \notin failed =>
         /\ c < reg[s]
         /\ \A w \in Restarter :
              job[w] = s /\ pc[w] \in {"remove", "dying", "wait", "post"} => c < old[w]

LEMMA AnsweredStep ==
    TypeOK /\ ContainerInv /\ ForwardInv /\ EventInv /\ AnsweredInv /\ [Next]_vars
      => AnsweredInv'
<1> SUFFICES ASSUME TypeOK, ContainerInv, ForwardInv, EventInv, AnsweredInv, [Next]_vars,
                    detector \notin overlapped'
             PROVE  Answers(cause[1], cause[2])'
  BY DEF AnsweredInv, Answers
<1> USE SomeService, Typed
<1>a. /\ cause[1] \in Service /\ cause[2] \in Nat
      /\ detector \in Caller /\ Restarter \subseteq Caller /\ detector \notin Restarter
      /\ detector \notin overlapped => Answers(cause[1], cause[2])
  BY DetectorAssumption DEF TypeOK, Container, Caller, AnsweredInv, Answers
\* Docker and the event stream.
<1>1. ASSUME NEW s \in Service, Crash(s) PROVE Answers(cause[1], cause[2])'
  BY <1>a, <1>1 DEF Answers, Crash, dockerVars, detectorVars, restartVars
<1>2. ASSUME NEW s \in Service, StartContainer(s) PROVE Answers(cause[1], cause[2])'
  BY <1>a, <1>2 DEF Answers, ContainerInv, StartContainer, dockerVars, detectorVars,
     restartVars
<1>3. ASSUME NEW s \in Service, RemoveService(s) PROVE Answers(cause[1], cause[2])'
  BY <1>a, <1>3 DEF Answers, RemoveService, dockerVars, detectorVars, restartVars
<1>4. ASSUME NEW s \in Service, StopContainer(s) PROVE Answers(cause[1], cause[2])'
  BY <1>a, <1>4 DEF Answers, StopContainer, dockerVars, detectorVars, restartVars
<1>5. ASSUME BreakStream PROVE Answers(cause[1], cause[2])'
  BY <1>a, <1>5 DEF Answers, BreakStream, dockerVars, detectorVars, restartVars
<1>6. ASSUME Subscribe PROVE Answers(cause[1], cause[2])'
  BY <1>a, <1>6 DEF Answers, Subscribe, dockerVars, detectorVars, restartVars
\* A command that comes while the detector restarts something overlaps it.
<1>7. ASSUME NEW w \in Restarter, NEW s \in Service, RestartCommand(w, s)
      PROVE  Answers(cause[1], cause[2])'
  <2>1. /\ pc[w] = "idle" /\ pc' = [pc EXCEPT ![w] = "list"]
        /\ job' = [job EXCEPT ![w] = s] /\ cause' = cause
        /\ UNCHANGED <<dockerVars, reg, old, failed>>
    BY <1>7 DEF RestartCommand, Restart, Step, detectorVars
  <2>2. pc[detector] = "idle" /\ detector \notin overlapped
    BY <1>7, <1>a DEF RestartCommand, Restart
  <2> QED
    BY <1>a, <2>1, <2>2 DEF Answers, dockerVars
\* What runs when somebody lists it is newer than what has died.
<1>8. ASSUME NEW w \in Caller, ListContainers(w) PROVE Answers(cause[1], cause[2])'
  <2>1. /\ cause' = cause /\ overlapped' = overlapped
        /\ UNCHANGED <<dockerVars, reg>>
    BY <1>8 DEF ListContainers, Rest, detectorVars
  <2>2. CASE Fail(w, "list")
    BY <1>a, <2>1, <2>2 DEF Answers, Fail, Return, Step, dockerVars, Caller
  <2>3. CASE /\ run[job[w]] # 0 /\ Step(w, "list", "remove")
             /\ old' = [old EXCEPT ![w] = run[job[w]]]
             /\ UNCHANGED <<job, found, loopCount, failed>>
    <3>1. run[job[w]] = made[job[w]] /\ reg[job[w]] <= made[job[w]]
      BY <2>3 DEF ContainerInv
    <3> QED
      BY <1>a, <2>1, <2>3, <3>1 DEF Answers, Step, dockerVars, Caller
  <2> QED
    BY <1>8, <2>2, <2>3 DEF ListContainers
<1>9. ASSUME NEW w \in Caller, RemoveContainer(w) PROVE Answers(cause[1], cause[2])'
  <2>1. /\ cause' = cause /\ overlapped' = overlapped
        /\ UNCHANGED <<dockerVars, reg>>
    BY <1>9 DEF RemoveContainer, Rest, detectorVars
  <2>2. CASE Fail(w, "remove")
    BY <1>a, <2>1, <2>2 DEF Answers, Fail, Return, Step, dockerVars, Caller
  <2>3. CASE /\ Step(w, "remove", "dying") /\ UNCHANGED <<job, old, found, failed>>
    BY <1>a, <2>1, <2>3 DEF Answers, Step, dockerVars, Caller
  <2> QED
    BY <1>9, <2>2, <2>3 DEF RemoveContainer
<1>10. ASSUME NEW w \in Caller, ContainerDies(w) PROVE Answers(cause[1], cause[2])'
  <2>1. /\ cause' = cause /\ overlapped' = overlapped
        /\ UNCHANGED <<made, reg>> /\ \A s \in Service : run'[s] \in {0, run[s]}
    BY <1>10 DEF ContainerDies, Rest, detectorVars
  <2>2. CASE Fail(w, "dying")
    BY <1>a, <2>1, <2>2 DEF Answers, Fail, Return, Step, Caller
  <2>3. CASE Step(w, "dying", "wait") /\ UNCHANGED <<job, old, failed>>
    BY <1>a, <2>1, <2>3 DEF Answers, Step, Caller
  <2> QED
    BY <1>10, <2>2, <2>3 DEF ContainerDies
<1>11. ASSUME NEW w \in Caller, WaitForService(w) PROVE Answers(cause[1], cause[2])'
  <2>1. /\ cause' = cause /\ overlapped' = overlapped
        /\ UNCHANGED <<dockerVars, reg>>
    BY <1>11 DEF WaitForService, Rest, detectorVars
  <2>2. CASE Fail(w, "wait")
    BY <1>a, <2>1, <2>2 DEF Answers, Fail, Return, Step, dockerVars, Caller
  <2>3. ASSUME NEW to \in {"wait", "post"}, Step(w, "wait", to),
               UNCHANGED <<job, old, failed>>
        PROVE  Answers(cause[1], cause[2])'
    BY <1>a, <2>1, <2>3 DEF Answers, Step, dockerVars, Caller
  <2> QED
    BY <1>11, <2>2, <2>3 DEF WaitForService, SeeContainer
\* Who posts has found a newer container than the one it read at first.
<1>12. ASSUME NEW w \in Caller, ServiceRestart(w) PROVE Answers(cause[1], cause[2])'
  <2>1. /\ cause' = cause /\ overlapped' = overlapped
        /\ UNCHANGED dockerVars
    BY <1>12 DEF ServiceRestart, Rest, detectorVars
  <2>2. CASE Fail(w, "post") /\ UNCHANGED reg
    BY <1>a, <2>1, <2>2 DEF Answers, Fail, Return, Step, dockerVars, Caller
  <2>3. CASE /\ Return(w, "post") /\ UNCHANGED failed
             /\ reg' = [reg EXCEPT ![job[w]] = found[w]]
    <3>1. old[w] < found[w] /\ old[w] \in Nat /\ found[w] \in Nat
      BY <2>3 DEF ContainerInv, Return, Step
    <3>2. CASE w = detector
      <4>1. \A v \in Restarter : pc[v] = "idle"
        BY <1>a, <2>1, <2>3, <3>2 DEF ForwardInv, Return, Step
      <4> QED
        BY <1>a, <2>1, <2>3, <3>1, <3>2, <4>1 DEF Answers, Return, Step, dockerVars
    <3>3. CASE w \in Restarter
      BY <1>a, <2>1, <2>3, <3>1, <3>3 DEF Answers, Return, Step, dockerVars
    <3> QED
      BY <3>2, <3>3 DEF Caller
  <2> QED
    BY <1>12, <2>2, <2>3 DEF ServiceRestart
\* The detector.
<1>13. ASSUME SeeRemove PROVE Answers(cause[1], cause[2])'
  BY <1>a, <1>13 DEF Answers, SeeRemove, NextEvent, dockerVars
<1>14. ASSUME SeeKill PROVE Answers(cause[1], cause[2])'
  BY <1>a, <1>14 DEF Answers, SeeKill, NextEvent, dockerVars
<1>15. ASSUME SeeDeath PROVE Answers(cause[1], cause[2])'
  <2>1. UNCHANGED <<dockerVars, reg, old, failed>> /\ pc[detector] = "idle"
    BY <1>15 DEF SeeDeath, NextEvent
  <2>2. CASE UNCHANGED <<cause, pc, job, overlapped>>
    BY <1>a, <2>1, <2>2 DEF Answers, dockerVars
  <2>3. CASE cause' = Dead /\ Restart(detector, Dead[1])
    <3>1. 1 \in Deaths /\ Dead = DeadAt(1)
      BY <1>15, TakeHead DEF SeeDeath, Deaths
    <3>2. 0 < Dead[2] /\ Dead[2] <= made[Dead[1]] /\ run[Dead[1]] # Dead[2]
      BY <3>1 DEF EventInv, DeathsOnce, DeadAt
    <3>3. job'[detector] = Dead[1] /\ pc'[detector] = "list"
      BY <1>a, <2>3, <1>15, HeadTypes DEF Restart, Step, SeeDeath
    <3> QED
      BY <2>1, <2>3, <3>2, <3>3 DEF Answers, dockerVars
  <2> QED
    BY <1>15, <2>2, <2>3 DEF SeeDeath
<1>16. CASE UNCHANGED vars
  BY <1>a, <1>16 DEF Answers, vars, dockerVars, detectorVars, restartVars
<1> QED
  BY <1>1, <1>2, <1>3, <1>4, <1>5, <1>6, <1>7, <1>8, <1>9, <1>10, <1>11, <1>12,
     <1>13, <1>14, <1>15, <1>16 DEF Next, RestartStep, DetectorStep, Caller

\* A crash that the detector has answered without an error and alone leaves the core
\* network with a newer address than that of the container that crashed (Restart,
\* crashDetectore); CrashIsFixed asks for this without the conditions, and fails.
THEOREM AnswersMoveOn == Spec => []CrashAnswered
<1>1. Init => AnsweredInv
  BY SomeService DEF Init, AnsweredInv, Caller
<1>2. TypeOK /\ ContainerInv /\ ForwardInv /\ EventInv /\ AnsweredInv /\ [Next]_vars
        => AnsweredInv'
  BY AnsweredStep
<1>3. AnsweredInv => CrashAnswered
  BY DEF AnsweredInv, CrashAnswered
<1> QED
  BY <1>1, <1>2, <1>3, ForwardCorrect, EventCorrect, PTL DEF Spec
=============================================================================
