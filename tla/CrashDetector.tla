---------------------------- MODULE CrashDetector ----------------------------
(***************************************************************************)
(* Restart and crashDetectore: restarting components, and noticing that    *)
(* one crashed, so that the core network learns its new address.           *)
(*                                                                         *)
(* Docker runs one container for a service and replaces it when it dies;   *)
(* containers are numbered, and a number also stands for the container's   *)
(* IP address.  The detector reads Docker's events in order and calls      *)
(* Restart itself, so it reads none while Restart waits; API commands run  *)
(* Restart on goroutines of their own.                                     *)
(***************************************************************************)
EXTENDS Naturals, Sequences

CONSTANTS
    Service,        \* service names
    Restarter,      \* goroutines of API restart commands
    detector,       \* the goroutine of crashDetectore
    WaitLimit,      \* WaitForService polls once more than this: 20 in Restart
    PostFails,      \* the core network may be out of reach
    StreamBreaks,   \* Docker may close the event stream
    MaxContainers,  \* bound: containers Docker starts
    MaxCrashes      \* bound: containers that crash

ASSUME DetectorAssumption ==
    /\ detector \notin Restarter /\ Service # {}
    /\ WaitLimit \in Nat /\ MaxContainers \in Nat /\ MaxCrashes \in Nat
    /\ PostFails \in BOOLEAN /\ StreamBreaks \in BOOLEAN

VARIABLES
    labelled,   \* services whose containers have a databox.type label; never changes
    up,         \* services that exist
    run,        \* service -> its running container, 0 if there is none
    made,       \* containers started so far
    reg,        \* service -> the address the core network has for it
    stream,     \* "closed" before the subscription, "open" or "broken"
    events,     \* events Docker has sent and the detector has not read
    restartDetected, uninstallDetected,
    pc, job,    \* worker -> next call of Restart, and the service
    old,        \* worker -> oldIP
    found,      \* worker -> the container WaitForService saw
    loopCount,  \* worker -> polls of WaitForService that saw nothing
    crashes,    \* crashes so far
    crashed,    \* history: containers that died by themselves
    cause,      \* history: the container whose death the detector answers
    late,       \* history: the subscription fell between a kill and a death
    failed,     \* history: services that a Restart failed on
    overlapped  \* history: callers whose Restart ran at the same time as another

dockerVars == <<labelled, up, run, made>>
detectorVars == <<stream, restartDetected, uninstallDetected, cause, late>>
restartVars == <<pc, job, old, found, loopCount, overlapped>>
vars == <<dockerVars, reg, events, detectorVars, restartVars, crashes, crashed,
          failed>>

Caller == Restarter \cup {detector}
AnyService == CHOOSE s \in Service : TRUE
Container == Service \X Nat
Event == [kind : {"remove", "kill9", "die"}, svc : Service, cont : Nat]
Removed(s) == [kind |-> "remove", svc |-> s, cont |-> 0]
Kill9(s) == [kind |-> "kill9", svc |-> s, cont |-> run[s]]
Die(s) == [kind |-> "die", svc |-> s, cont |-> run[s]]

TypeOK ==
    /\ labelled \subseteq Service /\ up \subseteq Service
    /\ run \in [Service -> Nat] /\ made \in [Service -> Nat]
    /\ reg \in [Service -> Nat]
    /\ stream \in {"closed", "open", "broken"}
    /\ events \in Seq(Event)
    /\ restartDetected \subseteq Container /\ uninstallDetected \subseteq Service
    /\ pc \in [Caller -> {"idle", "list", "remove", "dying", "wait", "post"}]
    /\ job \in [Caller -> Service]
    /\ old \in [Caller -> Nat] /\ found \in [Caller -> Nat]
    /\ loopCount \in [Caller -> 0..WaitLimit]
    /\ crashes \in Nat /\ crashed \subseteq Container
    /\ cause \in Container /\ late \in BOOLEAN /\ failed \subseteq Service
    /\ overlapped \subseteq Caller

\* Every service runs its first container, whose address is registered.
Init ==
    /\ labelled \in SUBSET Service
    /\ up = Service
    /\ run = [s \in Service |-> 1] /\ made = run /\ reg = run
    /\ stream = "closed" /\ events = <<>>
    /\ restartDetected = {} /\ uninstallDetected = {}
    /\ pc = [w \in Caller |-> "idle"]
    /\ job = [w \in Caller |-> AnyService]
    /\ old = [w \in Caller |-> 0] /\ found = old /\ loopCount = old
    /\ crashes = 0 /\ crashed = {} /\ cause = <<AnyService, 0>>
    /\ late = FALSE
    /\ failed = {} /\ overlapped = {}

(***************************************************************************)
(* Docker                                                                  *)
(***************************************************************************)
Emit(new) == events' = IF stream = "open" THEN events \o new ELSE events

Crash(s) ==
    /\ run[s] # 0 /\ s \in up /\ crashes < MaxCrashes
    /\ run' = [run EXCEPT ![s] = 0]
    /\ Emit(<<Die(s)>>)
    /\ crashes' = crashes + 1 /\ crashed' = crashed \cup {<<s, run[s]>>}
    /\ UNCHANGED <<labelled, up, made, reg, detectorVars, restartVars, failed>>

StartContainer(s) ==
    /\ s \in up /\ run[s] = 0 /\ made[s] < MaxContainers
    /\ made' = [made EXCEPT ![s] = @ + 1]
    /\ run' = [run EXCEPT ![s] = made'[s]]
    /\ UNCHANGED <<labelled, up, reg, events, detectorVars, restartVars, crashes,
                   crashed, failed>>

\* Uninstall's ServiceRemove: the service goes, then its container, which is
\* killed if it does not stop in time.
RemoveService(s) ==
    /\ s \in up
    /\ up' = up \ {s}
    /\ Emit(<<Removed(s)>>)
    /\ UNCHANGED <<labelled, run, made, reg, detectorVars, restartVars, crashes,
                   crashed, failed>>

StopContainer(s) ==
    /\ s \notin up /\ run[s] # 0
    /\ run' = [run EXCEPT ![s] = 0]
    /\ Emit(<<Die(s)>>) \/ Emit(<<Kill9(s), Die(s)>>)
    /\ UNCHANGED <<labelled, up, made, reg, detectorVars, restartVars, crashes,
                   crashed, failed>>

BreakStream ==
    /\ StreamBreaks /\ stream = "open"
    /\ stream' = "broken" /\ events' = <<>>
    /\ UNCHANGED <<dockerVars, reg, restartDetected, uninstallDetected, cause, late,
                   restartVars, crashes, crashed, failed>>

(***************************************************************************)
(* Restart                                                                 *)
(***************************************************************************)
Step(w, from, to) == pc[w] = from /\ pc' = [pc EXCEPT ![w] = to]

\* Restart returns; its local variables are gone.
Return(w, from) ==
    /\ Step(w, from, "idle")
    /\ job' = [job EXCEPT ![w] = AnyService]
    /\ old' = [old EXCEPT ![w] = 0] /\ found' = [found EXCEPT ![w] = 0]
    /\ loopCount' = [loopCount EXCEPT ![w] = 0]

Fail(w, from) == Return(w, from) /\ failed' = failed \cup {job[w]}
Rest == <<detectorVars, crashes, crashed, overlapped>>

Restart(w, s) ==
    LET others == {v \in Caller \ {w} : pc[v] # "idle"} IN
    /\ Step(w, "idle", "list")
    /\ job' = [job EXCEPT ![w] = s]
    /\ overlapped' = IF others = {} THEN overlapped \ {w}
                     ELSE overlapped \cup others \cup {w}

RestartCommand(w, s) ==
    /\ w \in Restarter /\ Restart(w, s)
    /\ UNCHANGED <<dockerVars, reg, events, detectorVars, crashes, crashed, old, found,
                   loopCount, failed>>

\* ContainerList shows running containers only.
ListContainers(w) ==
    /\ \/ run[job[w]] = 0 /\ Fail(w, "list")
       \/ /\ run[job[w]] # 0
          /\ Step(w, "list", "remove")
          /\ old' = [old EXCEPT ![w] = run[job[w]]]
          /\ UNCHANGED <<job, found, loopCount, failed>>
    /\ UNCHANGED <<dockerVars, reg, events, Rest>>

\* ContainerRemove with Force kills the container, and its death follows.  It may
\* fail, before the kill or after the death; a container that is dead already may
\* still be there to remove, or be gone.
RemoveContainer(w) ==
    /\ \/ /\ Step(w, "remove", "dying")
          /\ IF run[job[w]] = old[w] THEN Emit(<<Kill9(job[w])>>)
                                     ELSE UNCHANGED events
          /\ UNCHANGED <<job, old, found, loopCount, failed>>
       \/ Fail(w, "remove") /\ UNCHANGED events
    /\ UNCHANGED <<dockerVars, reg, Rest>>

ContainerDies(w) ==
    /\ \/ Step(w, "dying", "wait") /\ UNCHANGED <<job, old, found, loopCount, failed>>
       \/ Fail(w, "dying")
    /\ \/ /\ run[job[w]] = old[w]
          /\ run' = [run EXCEPT ![job[w]] = 0]
          /\ Emit(<<Die(job[w])>>)
       \/ run[job[w]] # old[w] /\ UNCHANGED <<run, events>>
    /\ UNCHANGED <<labelled, up, made, reg, Rest>>

SeeContainer(w) ==
    /\ run[job[w]] # 0
    /\ Step(w, "wait", "post")
    /\ found' = [found EXCEPT ![w] = run[job[w]]]
    /\ UNCHANGED <<job, old, loopCount, failed>>

\* Mutant of WaitForService: a poll that sees nothing is not counted.
WaitForever(w) ==
    /\ SeeContainer(w)
    /\ UNCHANGED <<dockerVars, reg, events, Rest>>

\* Mutant of WaitForService: it compares before it counts.
WaitOnceMore(w) ==
    /\ \/ SeeContainer(w)
       \/ /\ run[job[w]] = 0 /\ loopCount[w] <= WaitLimit
          /\ Step(w, "wait", "wait")
          /\ loopCount' = [loopCount EXCEPT ![w] = @ + 1]
          /\ UNCHANGED <<job, old, found, failed>>
       \/ run[job[w]] = 0 /\ loopCount[w] > WaitLimit /\ Fail(w, "wait")
    /\ UNCHANGED <<dockerVars, reg, events, Rest>>

\* The list is read before the three seconds WaitForService sleeps: what it
\* returns may have died by then.
WaitForService(w) ==
    /\ \/ SeeContainer(w)
       \/ /\ run[job[w]] = 0 /\ loopCount[w] < WaitLimit
          /\ Step(w, "wait", "wait")
          /\ loopCount' = [loopCount EXCEPT ![w] = @ + 1]
          /\ UNCHANGED <<job, old, found, failed>>
       \/ /\ run[job[w]] = 0 /\ loopCount[w] = WaitLimit
          /\ Fail(w, "wait")
    /\ UNCHANGED <<dockerVars, reg, events, Rest>>

\* Mutant of ServiceRestart: the two addresses are swapped.
ServiceRestartSwapped(w) ==
    /\ Return(w, "post")
    /\ reg' = [reg EXCEPT ![job[w]] = old[w]]
    /\ UNCHANGED <<dockerVars, events, Rest, failed>>

\* Mutant of ServiceRestart: its error is logged and not returned.
ServiceRestartLogged(w) ==
    /\ Return(w, "post")
    /\ \/ reg' = [reg EXCEPT ![job[w]] = found[w]]
       \/ PostFails /\ UNCHANGED reg
    /\ UNCHANGED <<dockerVars, events, Rest, failed>>

\* The core network replaces the address of the named service.
ServiceRestart(w) ==
    /\ \/ /\ Return(w, "post")
          /\ reg' = [reg EXCEPT ![job[w]] = found[w]]
          /\ UNCHANGED failed
       \/ PostFails /\ Fail(w, "post") /\ UNCHANGED reg
    /\ UNCHANGED <<dockerVars, events, Rest>>

RestartStep(w) ==
    \/ ListContainers(w) \/ RemoveContainer(w) \/ ContainerDies(w)
    \/ WaitForService(w) \/ ServiceRestart(w)

(***************************************************************************)
(* crashDetectore                                                          *)
(***************************************************************************)
Subscribe ==
    /\ stream = "closed" /\ stream' = "open"
    /\ late' = \E w \in Caller : pc[w] = "dying"
    /\ UNCHANGED <<dockerVars, reg, events, restartDetected, uninstallDetected,
                   cause, restartVars, crashes, crashed, failed>>

\* The detector takes the next event, between two calls of Restart.
NextEvent(kind) ==
    /\ stream = "open" /\ pc[detector] = "idle"
    /\ events # <<>> /\ Head(events).kind = kind
    /\ events' = Tail(events)
    /\ UNCHANGED <<dockerVars, reg, stream, late, old, found, loopCount, crashes,
                   crashed, failed>>

Dead == <<Head(events).svc, Head(events).cont>>

SeeRemove ==
    /\ NextEvent("remove")
    /\ uninstallDetected' = uninstallDetected \cup {Head(events).svc}
    /\ UNCHANGED <<restartDetected, cause, pc, job, overlapped>>

\* Mutant of SeeKill: it looks for another signal.
SeeKillIgnored ==
    /\ NextEvent("kill9")
    /\ UNCHANGED <<restartDetected, uninstallDetected, cause, pc, job, overlapped>>

SeeKill ==
    /\ NextEvent("kill9")
    /\ restartDetected' = restartDetected \cup {Dead}
    /\ UNCHANGED <<uninstallDetected, cause, pc, job, overlapped>>

SeeDeath ==
    /\ NextEvent("die")
    /\ \/ /\ Dead \in restartDetected
          /\ restartDetected' = restartDetected \ {Dead}
          /\ UNCHANGED <<uninstallDetected, cause, pc, job, overlapped>>
       \/ /\ Dead \notin restartDetected /\ Dead[1] \in uninstallDetected
          /\ uninstallDetected' = uninstallDetected \ {Dead[1]}
          /\ UNCHANGED <<restartDetected, cause, pc, job, overlapped>>
       \/ /\ Dead \notin restartDetected /\ Dead[1] \notin uninstallDetected
          /\ Dead[1] \notin labelled
          /\ UNCHANGED <<restartDetected, uninstallDetected, cause, pc, job, overlapped>>
       \/ /\ Dead \notin restartDetected /\ Dead[1] \notin uninstallDetected
          /\ Dead[1] \in labelled
          /\ Restart(detector, Dead[1])
          /\ cause' = Dead
          /\ UNCHANGED <<restartDetected, uninstallDetected>>

DetectorStep == RestartStep(detector) \/ SeeRemove \/ SeeKill \/ SeeDeath

Next ==
    \/ \E s \in Service : Crash(s) \/ StartContainer(s) \/ RemoveService(s)
                          \/ StopContainer(s)
    \/ BreakStream \/ Subscribe \/ DetectorStep
    \/ \E w \in Restarter : RestartStep(w) \/ \E s \in Service : RestartCommand(w, s)

Spec == Init /\ [][Next]_vars

\* The Go scheduler runs the detector, and Docker starts what it can.
FairSpec ==
    /\ Spec /\ WF_vars(DetectorStep) /\ WF_vars(Subscribe)
    /\ \A s \in Service : WF_vars(StartContainer(s))

(***************************************************************************)
(* Properties                                                              *)
(***************************************************************************)

\* The detector removes a container only in answer to one that died by itself:
\* neither its own restarts, nor those of the API, nor an uninstall look like a
\* crash to it, so one crash never starts a chain of restarts.  (It may answer
\* the death of a container uninstalled while it subscribed, but finds nothing.)
OnlyCrashesRestart ==
    (~late /\ pc[detector] \in {"remove", "dying", "wait", "post"}) =>
        cause \in crashed

\* The address of a component that a Restart posts is that of a newer container
\* than the one it removed; and newer than the address it replaces, unless the
\* Restart overlapped another: then it may bring an old address back.
RegistrationForward ==
    [][\A s \in Service : reg'[s] # reg[s] =>
         \E w \in Caller :
             /\ pc[w] = "post" /\ pc'[w] = "idle" /\ job[w] = s
             /\ reg'[s] > old[w]
             /\ w \in overlapped \/ reg'[s] > reg[s]]_vars

\* API restarts that do not overlap leave the core network with the address of
\* the container that runs, if nothing crashed and no restart failed: the deaths
\* they cause do not make the detector restart the component as well.
RegistrationCurrent ==
    (crashed = {} /\ ~late /\ \E r \in Restarter : Restarter = {r}) =>
      \A s \in up \ failed :
        (run[s] # 0 /\ \A w \in Caller : pc[w] = "idle") => reg[s] = run[s]

\* The detector comes back to its events after every restart, whatever Docker
\* does meanwhile.
DetectorReturns == pc[detector] # "idle" ~> pc[detector] = "idle"

\* When the detector has answered a crash with a Restart that returned no error and
\* overlapped no other, the core network has the address of a newer container than
\* the one that crashed, and no API restart brings that one's back.
CrashAnswered ==
    (pc[detector] = "idle" /\ detector \notin overlapped /\ cause[1] \notin failed) =>
        reg[cause[1]] > cause[2]

\* containerManager.go:162-164, "If an app or driver crashes restart it to fix
\* the core-network registration": once the detector has answered the death of
\* the container the core network knows, no other runs under its address.
CrashIsFixed ==
    \A s \in up :
        (cause = <<s, reg[s]>> /\ \A w \in Caller : pc[w] = "idle") => run[s] = 0

(***************************************************************************)
(* The inductive invariants of the proofs                                  *)
(***************************************************************************)
\* A container that died never runs again: numbers only grow.
ContainerInv ==
    /\ \A s \in Service :
         /\ run[s] \in {0, made[s]} /\ made[s] > 0
         /\ reg[s] <= made[s]
    /\ \A w \in Caller :
         /\ pc[w] \in {"remove", "dying", "wait", "post"} =>
              0 < old[w] /\ old[w] <= made[job[w]]
         /\ pc[w] \in {"wait", "post"} => run[job[w]] # old[w]
         /\ pc[w] = "post" => old[w] < found[w] /\ found[w] <= made[job[w]]

\* A Restart that overlaps no other knows that nobody else posts.
ForwardInv ==
    \A w \in Caller : w \notin overlapped =>
        /\ pc[w] # "idle" => \A v \in Caller \ {w} : pc[v] = "idle"
        /\ pc[w] \in {"remove", "dying", "wait", "post"} => reg[job[w]] <= old[w]

Deaths == {i \in 1..Len(events) : events[i].kind = "die"}
DeadAt(i) == <<events[i].svc, events[i].cont>>

\* The detector has seen the kill of container c, or it comes among the first n
\* events.
KillSeen(c, n) ==
    \/ c \in restartDetected
    \/ \E j \in 1..n : events[j].kind = "kill9" /\ DeadAt(j) = c

\* Docker reports one death of a container at most, and it does not run again.
DeathsOnce ==
    \A i \in Deaths :
        /\ 0 < events[i].cont /\ events[i].cont <= made[events[i].svc]
        /\ run[events[i].svc] # events[i].cont
        /\ \A j \in Deaths : DeadAt(j) = DeadAt(i) => j = i

\* A container whose death is reported crashed, or its service has gone, or the
\* detector knows of the kill when it comes to the death.
Explained(i) ==
    \/ late \/ DeadAt(i) \in crashed
    \/ events[i].svc \notin up /\ run[events[i].svc] = 0
    \/ KillSeen(DeadAt(i), i - 1)

DeathsExplained == \A i \in Deaths : Explained(i)

\* The death that a Restart is about to cause will be explained.
Known(w) ==
    (pc[w] = "dying" /\ run[job[w]] = old[w] /\ stream = "open") =>
        late \/ KillSeen(<<job[w], old[w]>>, Len(events))

KillsKnown == \A w \in Caller : Known(w)

\* What the detector knows of the death it answers.
DetectorInv ==
    /\ stream = "closed" => ~late /\ events = <<>> /\ pc[detector] = "idle"
    /\ (~late /\ pc[detector] = "list") =>
         \/ cause \in crashed
         \/ job[detector] \notin up /\ run[job[detector]] = 0
    /\ OnlyCrashesRestart

EventInv == DeathsOnce /\ DeathsExplained /\ KillsKnown /\ DetectorInv

\* The detector restarts the service whose container died, and nobody who restarts
\* it as well has read the address of that container.
AnsweredInv ==
    detector \notin overlapped =>
        /\ pc[detector] # "idle" =>
             /\ job[detector] = cause[1]
             /\ 0 < cause[2] /\ cause[2] <= made[cause[1]] /\ run[cause[1]] # cause[2]
        /\ pc[detector] \in {"remove", "dying", "wait", "post"} =>
             cause[2] < old[detector]
        /\ pc[detector] = "idle" /\ cause[1] \notin failed =>
             /\ cause[2] < reg[cause[1]]
             /\ \A w \in Restarter :
                  job[w] = cause[1] /\ pc[w] \in {"remove", "dying", "wait", "post"} =>
                    cause[2] < old[w]

\* With one API goroutine and no crash: a component is being restarted and waits
\* for its container, or that runs and Restart or the core network has its address.
Current(r, s) ==
    \/ s = job[r] /\ pc[r] = "wait"
    \/ /\ run[s] # 0
       /\ IF s = job[r] /\ pc[r] = "post" THEN found[r] = run[s] ELSE reg[s] = run[s]

CurrentInv ==
    (crashed = {} /\ ~late /\ \E r \in Restarter : Restarter = {r}) =>
      \A s \in up \ failed, r \in Restarter : Current(r, s)
=============================================================================
