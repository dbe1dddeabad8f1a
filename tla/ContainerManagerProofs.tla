----------------------- MODULE ContainerManagerProofs -----------------------
(***************************************************************************)
(* Theorems of ContainerManager for every set of components and workers,   *)
(* every choice of failing calls and every number of commands and crashes. *)
(***************************************************************************)
EXTENDS ContainerManager, TLAPS

LEMMA NoJobType == NoJob \in Job /\ ~NoJob.save
BY ConstantsAssumption DEF NoJob, Job

LEMMA FirstSecretType == FirstSecret \in {"clearPem", "clearKey"}
BY DEF FirstSecret

\* What the types say of a worker.
LEMMA WorkerTypes ==
  ASSUME TypeOK, NEW w \in Worker
  PROVE  /\ Comp(w) \in Component /\ Launch(w) \in Nat /\ job[w] \in Job
         /\ Target(w) \in Service /\ Target(w)[1] = Comp(w)
         /\ Main(Comp(w)) \in Service /\ StoreOf(Comp(w)) \in Service
         /\ mark[w] \in SUBSET (Service \X Nat)
         /\ \A s \in Service : svc[s] \in Nat
BY DEF TypeOK, Job, Comp, Launch, Target, Service, Main, StoreOf

PcValues == {"idle"} \cup LaunchSteps \cup UninstallSteps

LEMMA PcValuesAre ==
  PcValues = {"idle", "preconfig", "createNet", "attachNet", "check", "clearPem",
              "makePem", "clearKey", "makeKey", "register", "connect",
              "store", "storeService", "grant", "create", "save", "track",
              "find", "remove", "listSecrets", "dropSecrets", "disconnect",
              "forget", "untrack"}
BY DEF PcValues, LaunchSteps, UninstallSteps

\* A worker's step keeps the types of pc and job.
LEMMA StepType ==
  ASSUME TypeOK, NEW w \in Worker, NEW from, NEW to \in PcValues
  PROVE  /\ Step(w, from, to) => pc' \in [Worker -> PcValues]
         /\ Finish(w, from) => pc' \in [Worker -> PcValues] /\ job' \in [Worker -> Job]
<1>1. pc \in [Worker -> PcValues] /\ job \in [Worker -> Job]
  BY DEF TypeOK, PcValues
<1>2. "idle" \in PcValues
  BY DEF PcValues
<1> QED
  BY <1>1, <1>2, NoJobType DEF Step, Finish

\* Every step of the CM keeps the types.
LEMMA TypeStep == TypeOK /\ [Next]_vars => TypeOK'
<1> SUFFICES ASSUME TypeOK, [Next]_vars PROVE TypeOK'
  OBVIOUS
<1> USE ConstantsAssumption
<1>launch. ASSUME NEW w \in Worker, NEW c \in Component, NEW save \in BOOLEAN,
                  NEW reload \in BOOLEAN, BeginLaunch(w, c, save, reload),
                  todo' \subseteq Component \X BOOLEAN, installs' \in Nat,
                  gone' \subseteq Component
           PROVE  TypeOK'
  <2>1. pc' \in [Worker -> PcValues]
    BY <1>launch, StepType, PcValuesAre DEF BeginLaunch
  <2>2. job' \in [Worker -> Job] /\ launches' \in Nat
    BY <1>launch DEF BeginLaunch, TypeOK, Job
  <2> QED
    BY <1>launch, <2>1, <2>2
       DEF BeginLaunch, TypeOK, outside, docker, memory, PcValues
<1>1. CASE BootStep
  <2> USE DEF TypeOK, outside, docker, memory, locals, At
  <2>1. CASE StartServing
    BY <2>1 DEF StartServing, Phases
  <2>2. CASE ListKeys
    BY <2>2 DEF ListKeys, Phases
  <2>3. CASE ReadSLAs
    BY <2>3 DEF ReadSLAs, Phases
  <2>4. CASE ReloadApps
    BY <2>4 DEF ReloadApps, Phases
  <2>5. CASE Ready
    BY <2>5 DEF Ready, Phases
  <2>6. CASE Reboot
    BY <2>6 DEF Reboot, Phases
  <2>7. CASE RebootUnclean
    BY <2>7 DEF RebootUnclean, Phases
  <2> QED
    BY <1>1, <2>1, <2>2, <2>3, <2>4, <2>5, <2>6, <2>7 DEF BootStep
<1>2. CASE Crash
  <2>1. pc' \in [Worker -> PcValues] /\ job' \in [Worker -> Job]
    BY <1>2, NoJobType, PcValuesAre DEF Crash
  <2>2. part' \in [Worker -> {"main", "store"}]
    BY <1>2 DEF Crash
  <2>3. mark' \in [Worker -> SUBSET (Service \X Nat)]
    BY <1>2 DEF Crash
  <2>4. phase' \in Phases /\ crashes' \in Nat
    BY <1>2 DEF Crash, Phases, TypeOK
  <2> QED
    BY <1>2, <2>1, <2>2, <2>3, <2>4 DEF Crash, TypeOK, outside, docker, PcValues
<1>3. ASSUME NEW w \in Worker, WorkerStep(w) PROVE TypeOK'
  <2>w. /\ Comp(w) \in Component /\ Launch(w) \in Nat /\ job[w] \in Job
        /\ Target(w) \in Service /\ Target(w)[1] = Comp(w)
        /\ mark[w] \in SUBSET (Service \X Nat)
        /\ \A s \in Service : svc[s] \in Nat
    BY WorkerTypes
  <2>pc. ASSUME NEW from, NEW to \in PcValues, Step(w, from, to)
         PROVE  pc' \in [Worker -> {"idle"} \cup LaunchSteps \cup UninstallSteps]
    BY <2>pc, StepType DEF PcValues
  <2>job. ASSUME NEW from, Finish(w, from)
          PROVE  /\ pc' \in [Worker -> {"idle"} \cup LaunchSteps \cup UninstallSteps]
                 /\ job' \in [Worker -> Job]
    BY <2>job, StepType, PcValuesAre DEF PcValues
  <2> USE <2>w, PcValuesAre DEF outside, docker, boot, memory, locals
  <2>1. CASE PreConfig(w)
    BY <2>1, <2>pc DEF PreConfig, TypeOK
  <2>2. CASE CreateNetwork(w)
    <3>1. net' \in [Component -> {"none", "bare", "attached"}]
      BY <2>2 DEF CreateNetwork, TypeOK
    <3>2. blind' \subseteq Nat
      BY <2>2 DEF CreateNetwork, TypeOK
    <3> QED
      BY <2>2, <2>pc, <3>1, <3>2 DEF CreateNetwork, TypeOK
  <2>3. CASE AttachCoreNetwork(w)
    <3>1. net' \in [Component -> {"none", "bare", "attached"}]
      BY <2>3 DEF AttachCoreNetwork, TypeOK
    <3>2. blind' \subseteq Nat
      BY <2>3 DEF AttachCoreNetwork, TypeOK
    <3> QED
      BY <2>3, <2>pc, <3>1, <3>2 DEF AttachCoreNetwork, TypeOK
  <2>4. CASE Check(w)
    BY <2>4, <2>pc, <2>job, FirstSecretType DEF Check, TypeOK
  <2>5. CASE GenorateSecrets(w)
    <3>s. secret \in [Service \X Kind -> Nat]
      BY DEF TypeOK
    <3>c. ASSUME NEW k, NEW from, NEW to, ClearSecret(w, k, from, to)
          PROVE  secret' \in [Service \X Kind -> Nat]
      BY <3>s, <3>c DEF ClearSecret
    <3>m. ASSUME NEW k, NEW from, NEW to, MakeSecret(w, k, from, to)
          PROVE  secret' \in [Service \X Kind -> Nat]
      BY <3>s, <3>m DEF MakeSecret
    <3>1. secret' \in [Service \X Kind -> Nat]
      BY <2>5, <3>c, <3>m DEF GenorateSecrets
    <3>2. pc' \in [Worker -> {"idle"} \cup LaunchSteps \cup UninstallSteps]
      BY <2>5, <2>pc DEF GenorateSecrets, ClearSecret, MakeSecret
    <3> QED
      BY <2>5, <3>1, <3>2 DEF GenorateSecrets, ClearSecret, MakeSecret, TypeOK
  <2>6. CASE RegisterToken(w)
    <3>1. arb' \in [Service -> Nat]
      BY <2>6 DEF RegisterToken, TypeOK
    <3>2. pc' \in [Worker -> {"idle"} \cup LaunchSteps \cup UninstallSteps]
      BY <2>6, <2>pc DEF RegisterToken
    <3> QED
      BY <2>6, <3>1, <3>2 DEF RegisterToken, TypeOK
  <2>7. CASE ConnectEndpoints(w)
    BY <2>7, <2>pc DEF ConnectEndpoints, TypeOK
  <2>8. CASE LaunchStore(w)
    BY <2>8, <2>pc, FirstSecretType DEF LaunchStore, TypeOK
  <2>9. CASE CreateStoreService(w)
    BY <2>9, <2>pc DEF CreateStoreService, TypeOK
  <2>10. CASE AddPermissions(w)
    BY <2>10, <2>pc DEF AddPermissions, TypeOK
  <2>11. CASE CreateService(w)
    BY <2>11, <2>pc, <2>job DEF CreateService, TypeOK
  <2>12. CASE SaveSLA(w)
    BY <2>12, <2>pc DEF SaveSLA, TypeOK
  <2>13. CASE Track(w)
    BY <2>13, <2>job DEF Track, WriteMap, TypeOK
  <2>14. CASE FindService(w)
    <3>1. mark' \in [Worker -> SUBSET (Service \X Nat)]
      BY <2>14 DEF FindService, FirstMatches, Matches, TypeOK, Main, Service
    <3>2. /\ pc' \in [Worker -> {"idle"} \cup LaunchSteps \cup UninstallSteps]
          /\ job' \in [Worker -> Job]
      BY <2>14, <2>pc, <2>job DEF FindService, TypeOK
    <3> QED
      BY <2>14, <3>1, <3>2 DEF FindService, TypeOK
  <2>15. CASE RemoveService(w)
    <3>1. svc' \in [Service -> Nat]
      <4>1. svc \in [Service -> Nat]
        BY DEF TypeOK
      <4>2. \/ svc' = svc
            \/ svc' = [s \in Service |->
                        IF <<s, svc[s]>> \in mark[w] THEN 0 ELSE svc[s]]
        BY <2>15 DEF RemoveService
      <4>3. \A s \in Service :
              (IF <<s, svc[s]>> \in mark[w] THEN 0 ELSE svc[s]) \in Nat
        BY <4>1
      <4> QED
        BY <4>1, <4>2, <4>3, Zenon
    <3> QED
      BY <2>15, <2>pc, <3>1 DEF RemoveService, TypeOK
  <2>16. CASE ListSecrets(w)
    <3>1. mark' \in [Worker -> SUBSET (Service \X Nat)]
      BY <2>16 DEF ListSecrets, Matches, TypeOK
    <3> QED
      BY <2>16, <2>pc, <3>1 DEF ListSecrets, TypeOK
  <2>17. CASE DropSecrets(w)
    <3>1. secret' \in [Service \X Kind -> Nat]
      <4>1. secret \in [Service \X Kind -> Nat]
        BY DEF TypeOK
      <4>2. \/ secret' = secret
            \/ secret' = [x \in Service \X Kind |->
                   IF <<x[1], secret[x]>> \in mark[w] /\ ~InUse(x[1], x[2])
                     THEN 0 ELSE secret[x]]
        BY <2>17 DEF DropSecrets
      <4>3. \A x \in Service \X Kind :
              (IF <<x[1], secret[x]>> \in mark[w] /\ ~InUse(x[1], x[2])
                 THEN 0 ELSE secret[x]) \in Nat
        BY <4>1
      <4> QED
        BY <4>1, <4>2, <4>3, Zenon
    <3> QED
      BY <2>17, <2>pc, <3>1 DEF DropSecrets, TypeOK
  <2>18. CASE Disconnect(w)
    BY <2>18, <2>pc DEF Disconnect, TypeOK
  <2>19. CASE DeleteSLA(w)
    BY <2>19, <2>pc DEF DeleteSLA, TypeOK
  <2>20. CASE Untrack(w)
    BY <2>20, <2>job DEF Untrack, WriteMap, TypeOK
  <2>21. CASE Spawn(w)
    <3>1. PICK t \in todo : /\ BeginLaunch(w, t[1], FALSE, t[2])
                            /\ todo' = todo \ {t} /\ UNCHANGED <<installs, gone>>
      BY <2>21 DEF Spawn
    <3>2. /\ t[1] \in Component /\ t[2] \in BOOLEAN
          /\ todo' \subseteq Component \X BOOLEAN
          /\ installs' \in Nat /\ gone' \subseteq Component
      BY <3>1 DEF TypeOK
    <3> QED
      BY <3>1, <3>2, <1>launch
  <2> QED
    BY <1>3, <2>1, <2>2, <2>3, <2>4, <2>5, <2>6, <2>7, <2>8, <2>9, <2>10, <2>11,
       <2>12, <2>13, <2>14, <2>15, <2>16, <2>17, <2>18, <2>19, <2>20, <2>21
       DEF WorkerStep, LaunchStep, UninstallStep
<1>4. ASSUME NEW w \in Worker, NEW c \in Component, Install(w, c) PROVE TypeOK'
  <2>1. /\ todo' \subseteq Component \X BOOLEAN
        /\ installs' \in Nat /\ gone' \subseteq Component
    BY <1>4 DEF Install, TypeOK
  <2> QED
    BY <1>4, <2>1, <1>launch DEF Install
<1>5. ASSUME NEW w \in Worker, NEW c \in Component, Uninstall(w, c) PROVE TypeOK'
  <2>1. pc' \in [Worker -> PcValues]
    BY <1>5, StepType, PcValuesAre DEF Uninstall
  <2>2. job' \in [Worker -> Job]
    BY <1>5 DEF Uninstall, NoJob, Job, TypeOK
  <2> QED
    BY <1>5, <2>1, <2>2
       DEF Uninstall, TypeOK, PcValues, outside, docker, boot, memory
<1>6. CASE UNCHANGED vars
  BY <1>6 DEF vars, TypeOK, outside, docker, boot, memory, locals
<1> QED
  BY <1>1, <1>2, <1>3, <1>4, <1>5, <1>6 DEF Next

LEMMA InitType == Init => TypeOK
<1> SUFFICES ASSUME Init PROVE TypeOK
  OBVIOUS
<1>1. job \in [Worker -> Job] /\ pc \in [Worker -> PcValues]
  BY NoJobType, PcValuesAre DEF Init
<1>2. /\ part \in [Worker -> {"main", "store"}]
      /\ mark \in [Worker -> SUBSET (Service \X Nat)]
  BY DEF Init
<1>3. /\ svc \in [Service -> Nat] /\ secret \in [Service \X Kind -> Nat]
      /\ net \in [Component -> {"none", "bare", "attached"}]
      /\ arb \in [Service -> Nat]
  BY DEF Init
<1> QED
  BY <1>1, <1>2, <1>3, ConstantsAssumption DEF Init, TypeOK, Phases, PcValues

\* The state of the CM, of Docker, of the core network, of the arbiter and of
\* the store keeps its types.
THEOREM TypeCorrect == Spec => []TypeOK
BY InitType, TypeStep, PTL DEF Spec

(***************************************************************************)
(* An uninstalled component stays uninstalled.  A component is in gone when *)
(* DeleteSLA ran with no saving launch of it under way; only Install can    *)
(* start one, and Install takes the component out of gone.                 *)
(***************************************************************************)
LEMMA SticksStep == TypeOK /\ SticksInv /\ [Next]_vars => SticksInv'
<1> SUFFICES ASSUME TypeOK, SticksInv, [Next]_vars PROVE SticksInv'
  OBVIOUS
<1> USE DEF outside, docker, boot, memory, locals
<1>t. pc \in [Worker -> PcValues] /\ job \in [Worker -> Job]
  BY DEF TypeOK, PcValues
<1>i. /\ gone \cap sla = {}
      /\ \A w \in Worker : /\ job[w].save => job[w].comp \notin gone
                           /\ pc[w] = "idle" => ~job[w].save
                           /\ pc[w] = "save" => job[w].save
  BY DEF SticksInv, UninstallSticks, Comp
<1>goal. ASSUME gone' \cap sla' = {},
                \A v \in Worker : /\ job'[v].save => job'[v].comp \notin gone'
                                  /\ pc'[v] = "idle" => ~job'[v].save
                                  /\ pc'[v] = "save" => job'[v].save
         PROVE  SticksInv'
  BY <1>goal DEF SticksInv, UninstallSticks, Comp
\* A call that is neither the last one nor leads to SaveSLA.
<1>a. ASSUME NEW w \in Worker, NEW from, NEW to, Step(w, from, to),
             to \notin {"idle", "save"}, UNCHANGED <<sla, gone, job>>
      PROVE  SticksInv'
  BY <1>a, <1>t, <1>i, <1>goal DEF Step
\* The last call of a launch or of an uninstall.
<1>b. ASSUME NEW w \in Worker, NEW from, Finish(w, from), UNCHANGED <<sla, gone>>
      PROVE  SticksInv'
  BY <1>b, <1>t, <1>i, <1>goal, NoJobType DEF Finish, Step
<1>c. ASSUME NEW w \in Worker, NEW c \in Component, NEW save \in BOOLEAN,
             NEW reload \in BOOLEAN, BeginLaunch(w, c, save, reload),
             gone' \subseteq gone, save => c \notin gone'
      PROVE  SticksInv'
  BY <1>c, <1>t, <1>i, <1>goal DEF BeginLaunch, Step
<1>1. CASE BootStep
  <2>1. UNCHANGED <<sla, gone, job, pc>>
    BY <1>1 DEF BootStep, StartServing, ListKeys, ReadSLAs, ReloadApps, Ready,
                Reboot, RebootUnclean
  <2> QED
    BY <2>1, <1>i, <1>goal
<1>2. CASE Crash
  BY <1>2, <1>i, <1>goal, NoJobType DEF Crash
<1>3. ASSUME NEW w \in Worker, WorkerStep(w) PROVE SticksInv'
  <2>1. CASE PreConfig(w) \/ CreateNetwork(w) \/ AttachCoreNetwork(w)
    BY <2>1, <1>a DEF PreConfig, CreateNetwork, AttachCoreNetwork
  <2>2. CASE Check(w)
    BY <2>2, <1>a, <1>b, FirstSecretType DEF Check
  <2>3. CASE GenorateSecrets(w)
    BY <2>3, <1>a DEF GenorateSecrets, ClearSecret, MakeSecret
  <2>4. CASE RegisterToken(w) \/ ConnectEndpoints(w)
    BY <2>4, <1>a DEF RegisterToken, ConnectEndpoints
  <2>5. CASE LaunchStore(w) \/ CreateStoreService(w) \/ AddPermissions(w)
    BY <2>5, <1>a, FirstSecretType
       DEF LaunchStore, CreateStoreService, AddPermissions
  <2>6. CASE CreateService(w)
    <3>1. CASE Finish(w, "create")
      BY <2>6, <3>1, <1>b DEF CreateService
    <3>2. CASE /\ Step(w, "create", IF job[w].save THEN "save" ELSE "track")
               /\ UNCHANGED job
      BY <2>6, <3>2, <1>t, <1>i, <1>goal DEF CreateService, Step
    <3> QED
      BY <2>6, <3>1, <3>2 DEF CreateService
  <2>7. CASE SaveSLA(w)
    <3>1. Comp(w) \notin gone
      BY <2>7, <1>i DEF SaveSLA, Step, Comp
    <3> QED
      BY <2>7, <3>1, <1>t, <1>i, <1>goal DEF SaveSLA, Step
  <2>8. CASE Track(w)
    BY <2>8, <1>b DEF Track
  <2>9. CASE FindService(w)
    BY <2>9, <1>a, <1>b DEF FindService
  <2>10. CASE RemoveService(w) \/ ListSecrets(w) \/ DropSecrets(w) \/ Disconnect(w)
    BY <2>10, <1>a DEF RemoveService, ListSecrets, DropSecrets, Disconnect
  <2>11. CASE DeleteSLA(w)
    <3>1. CASE UNCHANGED <<sla, gone>>
      BY <2>11, <3>1, <1>a DEF DeleteSLA
    <3>2. CASE Saving(Comp(w)) /\ sla' = sla \ {Comp(w)} /\ gone' = gone
      BY <2>11, <3>2, <1>t, <1>i, <1>goal DEF DeleteSLA, Step
    <3>3. CASE ~Saving(Comp(w)) /\ sla' = sla \ {Comp(w)}
               /\ gone' = gone \cup {Comp(w)}
      <4>1. \A v \in Worker : job[v].save => job[v].comp # Comp(w)
        BY <3>3, <1>i DEF Saving, Busy, Comp
      <4> QED
        BY <2>11, <3>3, <4>1, <1>t, <1>i, <1>goal DEF DeleteSLA, Step
    <3> QED
      BY <2>11, <3>1, <3>2, <3>3 DEF DeleteSLA
  <2>12. CASE Untrack(w)
    BY <2>12, <1>b DEF Untrack
  <2>13. CASE Spawn(w)
    <3>1. PICK t \in todo : /\ BeginLaunch(w, t[1], FALSE, t[2])
                            /\ UNCHANGED <<installs, gone>>
      BY <2>13 DEF Spawn
    <3>2. t[1] \in Component /\ t[2] \in BOOLEAN
      BY <3>1 DEF TypeOK
    <3> QED
      BY <3>1, <3>2, <1>c
  <2> QED
    BY <1>3, <2>1, <2>2, <2>3, <2>4, <2>5, <2>6, <2>7, <2>8, <2>9, <2>10, <2>11,
       <2>12, <2>13 DEF WorkerStep, LaunchStep, UninstallStep
<1>4. ASSUME NEW w \in Worker, NEW c \in Component, Install(w, c) PROVE SticksInv'
  BY <1>4, <1>c DEF Install
<1>5. ASSUME NEW w \in Worker, NEW c \in Component, Uninstall(w, c)
      PROVE  SticksInv'
  <2>1. ~[NoJob EXCEPT !.comp = c].save
    BY NoJobType DEF NoJob
  <2> QED
    BY <1>5, <2>1, <1>t, <1>i, <1>goal DEF Uninstall, Step
<1>6. CASE UNCHANGED vars
  BY <1>6, <1>i, <1>goal DEF vars
<1> QED
  BY <1>1, <1>2, <1>3, <1>4, <1>5, <1>6 DEF Next

\* A component uninstalled with no install of it under way stays out of the SLA
\* store until it is installed again, through every reload and crash.
THEOREM UninstallIsFinal == Spec => []UninstallSticks
<1>1. Init => TypeOK /\ SticksInv
  <2>1. Init => SticksInv
    BY NoJobType DEF Init, SticksInv, UninstallSticks
  <2> QED
    BY <2>1, InitType
<1>2. TypeOK /\ SticksInv /\ [Next]_vars => TypeOK' /\ SticksInv'
  BY TypeStep, SticksStep
<1>3. SticksInv => UninstallSticks
  BY DEF SticksInv
<1> QED
  BY <1>1, <1>2, <1>3, PTL DEF Spec


(***************************************************************************)
(* Nothing runs before it is ready.  Prepared says what the launch has put *)
(* in place at each of its calls.  The arbiter's tokens and permissions    *)
(* only grow while the CM runs, so a step of one goroutine takes nothing   *)
(* from another; they vanish at a reboot, when there are no services and   *)
(* no goroutines.                                                          *)
(***************************************************************************)
Grows == /\ \A s \in Service : arb[s] # 0 => arb'[s] # 0
         /\ granted \subseteq granted'

SameFor(v) == pc'[v] = pc[v] /\ job'[v] = job[v] /\ part'[v] = part[v]

LEMMA PreparedStays ==
  ASSUME TypeOK, NEW v \in Worker, Prepared(v), SameFor(v), Grows
  PROVE  Prepared(v)'
<1>1. Main(Comp(v)) \in Service /\ StoreOf(Comp(v)) \in Service
  BY WorkerTypes
<1> QED
  BY <1>1 DEF Prepared, SameFor, Grows, Comp, Main, StoreOf

\* A step of one worker that creates no service.
LEMMA ReadyOneWorker ==
  ASSUME TypeOK, ReadyInv, NEW w \in Worker, phase' = phase,
         phase \notin {"down", "boot"}, svc' = svc, Grows,
         \A v \in Worker \ {w} : SameFor(v), Prepared(w)'
  PROVE  ReadyInv'
<1>1. AtRest'
  BY DEF AtRest
<1>2. \A v \in Worker : Prepared(v)'
  BY PreparedStays DEF ReadyInv
<1>3. \A s \in Service : svc'[s] # 0 => arb'[s] # 0
  BY DEF ReadyInv, Grows
<1>4. \A c \in Component : svc'[Main(c)] # 0 =>
        c \in granted' /\ (c \in NeedsStore => arb'[StoreOf(c)] # 0)
  BY DEF ReadyInv, Grows, Service, Main, StoreOf
<1> QED
  BY <1>1, <1>2, <1>3, <1>4 DEF ReadyInv, Main, StoreOf

\* A call that leaves the arbiter, the services and the kind of job alone.
LEMMA ReadyQuietStep ==
  ASSUME TypeOK, ReadyInv, NEW w \in Worker, NEW from, NEW to,
         phase' = phase, phase \notin {"down", "boot"}, Step(w, from, to),
         UNCHANGED <<svc, arb, granted, part>>,
         \A v \in Worker \ {w} : job'[v] = job[v], Prepared(w)'
  PROVE  ReadyInv'
<1>1. Grows
  BY DEF Grows
<1>2. \A v \in Worker \ {w} : SameFor(v)
  BY DEF SameFor, Step, TypeOK
<1> QED
  BY <1>1, <1>2, ReadyOneWorker

LEMMA ReadyLaunchBegins ==
  ASSUME TypeOK, ReadyInv, NEW w \in Worker, NEW c, NEW save, NEW reload,
         BeginLaunch(w, c, save, reload), phase \notin {"down", "boot"}
  PROVE  ReadyInv'
<1>1. Prepared(w)'
  <2>1. pc'[w] = "preconfig" /\ job'[w].id = launches + 1 /\ part'[w] = part[w]
    BY DEF BeginLaunch, Step, TypeOK
  <2>2. part[w] = "main"
    BY DEF BeginLaunch, Step, ReadyInv, Prepared, TypeOK
  <2> QED
    BY <2>1, <2>2 DEF Prepared, TypeOK
<1>2. \A v \in Worker \ {w} : job'[v] = job[v]
  BY DEF BeginLaunch, TypeOK
<1> QED
  BY <1>1, <1>2, ReadyQuietStep DEF BeginLaunch, outside, docker


LEMMA ReadyLaunchStep ==
  ASSUME TypeOK, ReadyInv, "arbiter" \notin Faults, NEW w \in Worker,
         phase \notin {"down", "boot"}, LaunchStep(w)
  PROVE  ReadyInv'
<1> USE DEF outside, docker, boot, memory, locals
<1>w. /\ Comp(w) \in Component /\ Target(w) \in Service
      /\ Main(Comp(w)) \in Service /\ StoreOf(Comp(w)) \in Service
      /\ Main(Comp(w)) # StoreOf(Comp(w))
      /\ part[w] \in {"main", "store"}
      /\ part[w] = "main" => Target(w) = Main(Comp(w))
      /\ part[w] = "store" => Target(w) = StoreOf(Comp(w))
  BY WorkerTypes DEF Target, Main, StoreOf, TypeOK
<1>p. Prepared(w)
  BY DEF ReadyInv
<1>pc. ASSUME NEW from, NEW to, Step(w, from, to)
       PROVE  /\ pc[w] = from /\ pc'[w] = to
              /\ \A v \in Worker \ {w} : pc'[v] = pc[v]
  BY <1>pc DEF Step, TypeOK
<1>job. ASSUME NEW from, Finish(w, from)
        PROVE  /\ Step(w, from, "idle")
               /\ \A v \in Worker \ {w} : job'[v] = job[v]
  BY <1>job DEF Finish, TypeOK
<1>1. CASE PreConfig(w) \/ CreateNetwork(w) \/ AttachCoreNetwork(w)
  <2>1. Prepared(w)'
    BY <1>1, <1>p, <1>pc
       DEF Prepared, PreConfig, CreateNetwork, AttachCoreNetwork, Comp, LaunchSteps
  <2> QED
    BY <1>1, <2>1, ReadyQuietStep DEF PreConfig, CreateNetwork, AttachCoreNetwork
<1>2. CASE Check(w)
  <2>1. Prepared(w)'
    BY <1>2, <1>p, <1>pc, <1>job, FirstSecretType
       DEF Prepared, Check, Comp, LaunchSteps, UninstallSteps
  <2> QED
    BY <1>2, <1>job, <2>1, ReadyQuietStep DEF Check
<1>3. CASE GenorateSecrets(w)
  <2>1. Prepared(w)'
    BY <1>3, <1>p, <1>pc
       DEF Prepared, GenorateSecrets, ClearSecret, MakeSecret, Comp, LaunchSteps
  <2> QED
    BY <1>3, <2>1, ReadyQuietStep DEF GenorateSecrets, ClearSecret, MakeSecret
<1>4. CASE RegisterToken(w)
  <2>1. arb' = [arb EXCEPT ![Target(w)] = Launch(w)]
    BY <1>4 DEF RegisterToken, MayFail
  <2>2. Launch(w) # 0
    BY <1>4, <1>p, <1>pc DEF RegisterToken, Prepared, Launch, LaunchSteps
  <2>3. Grows /\ arb'[Target(w)] # 0
    BY <1>4, <2>1, <2>2, <1>w DEF Grows, RegisterToken, TypeOK
  <2>4. Prepared(w)'
    BY <1>4, <2>3, <1>w, <1>p, <1>pc
       DEF Prepared, RegisterToken, Grows, Comp, LaunchSteps, Main, StoreOf
  <2>5. \A v \in Worker \ {w} : SameFor(v)
    BY <1>4, <1>pc DEF RegisterToken, SameFor
  <2> QED
    BY <1>4, <2>3, <2>4, <2>5, ReadyOneWorker DEF RegisterToken
<1>5. CASE ConnectEndpoints(w)
  <2>1. Prepared(w)'
    BY <1>5, <1>p, <1>pc DEF Prepared, ConnectEndpoints, Comp, LaunchSteps
  <2> QED
    BY <1>5, <2>1, ReadyQuietStep DEF ConnectEndpoints
<1>6. CASE LaunchStore(w)
  <2>1. Grows
    BY <1>6 DEF LaunchStore, Grows
  <2>2. svc[StoreOf(Comp(w))] # 0 => arb[StoreOf(Comp(w))] # 0
    BY <1>w DEF ReadyInv
  <2>3. Prepared(w)'
    BY <1>6, <2>2, <1>w, <1>p, <1>pc, FirstSecretType
       DEF Prepared, LaunchStore, Comp, LaunchSteps, TypeOK
  <2>4. \A v \in Worker \ {w} : SameFor(v)
    BY <1>6, <1>pc DEF LaunchStore, SameFor, TypeOK
  <2> QED
    BY <1>6, <2>1, <2>3, <2>4, ReadyOneWorker DEF LaunchStore
<1>7. CASE CreateStoreService(w)
  <2>1. Grows /\ arb' = arb /\ granted' = granted
    BY <1>7 DEF CreateStoreService, Grows
  <2>2. Target(w) = StoreOf(Comp(w)) /\ arb[StoreOf(Comp(w))] # 0
    BY <1>7, <1>w, <1>p, <1>pc DEF CreateStoreService, Prepared
  <2>3. Prepared(w)'
    BY <1>7, <2>2, <1>w, <1>p, <1>pc
       DEF Prepared, CreateStoreService, Comp, LaunchSteps, TypeOK
  <2>4. \A v \in Worker : Prepared(v)'
    <3>1. \A v \in Worker \ {w} : SameFor(v)
      BY <1>7, <1>pc DEF CreateStoreService, SameFor, TypeOK
    <3> QED
      BY <2>1, <2>3, <3>1, PreparedStays DEF ReadyInv
  <2>5. \A s \in Service : svc'[s] = svc[s] \/ s = StoreOf(Comp(w))
    BY <1>7, <2>2, <1>w DEF CreateStoreService, TypeOK
  <2>6. \A c \in Component : svc'[Main(c)] = svc[Main(c)]
    BY <2>5 DEF Main, StoreOf, Service
  <2> QED
    BY <1>7, <2>1, <2>2, <2>4, <2>5, <2>6
       DEF ReadyInv, AtRest, CreateStoreService, Main, StoreOf
<1>8. CASE AddPermissions(w)
  <2>1. granted' = granted \cup {Comp(w)} /\ Grows
    BY <1>8 DEF AddPermissions, MayFail, Grows
  <2>2. Prepared(w)'
    BY <1>8, <2>1, <1>p, <1>pc DEF Prepared, AddPermissions, Comp, LaunchSteps
  <2>3. \A v \in Worker \ {w} : SameFor(v)
    BY <1>8, <1>pc DEF AddPermissions, SameFor
  <2> QED
    BY <1>8, <2>1, <2>2, <2>3, ReadyOneWorker DEF AddPermissions
<1>9. CASE CreateService(w)
  <2>1. Grows /\ arb' = arb /\ granted' = granted
    BY <1>9 DEF CreateService, Grows
  <2>2. /\ Target(w) = Main(Comp(w)) /\ arb[Main(Comp(w))] # 0
        /\ Comp(w) \in granted
        /\ Comp(w) \in NeedsStore => arb[StoreOf(Comp(w))] # 0
    BY <1>9, <1>w, <1>p, <1>pc, <1>job DEF CreateService, Prepared
  <2>3. Prepared(w)'
    BY <1>9, <2>2, <1>w, <1>p, <1>pc, <1>job
       DEF Prepared, CreateService, Comp, LaunchSteps, UninstallSteps
  <2>4. \A v \in Worker : Prepared(v)'
    <3>1. \A v \in Worker \ {w} : SameFor(v)
      BY <1>9, <1>pc, <1>job DEF CreateService, SameFor
    <3> QED
      BY <2>1, <2>3, <3>1, PreparedStays DEF ReadyInv
  <2>5. \A s \in Service : svc'[s] = svc[s] \/ s = Main(Comp(w))
    BY <1>9, <2>2, <1>w DEF CreateService, TypeOK
  <2>6. \A c \in Component : svc'[Main(c)] = svc[Main(c)] \/ c = Comp(w)
    BY <2>5 DEF Main, Service
  <2> QED
    BY <1>9, <2>1, <2>2, <2>4, <2>5, <2>6
       DEF ReadyInv, AtRest, CreateService, Main, StoreOf
<1>10. CASE SaveSLA(w)
  <2>1. Prepared(w)'
    BY <1>10, <1>p, <1>pc DEF Prepared, SaveSLA, Comp, LaunchSteps
  <2> QED
    BY <1>10, <2>1, ReadyQuietStep DEF SaveSLA
<1>11. CASE Track(w)
  <2>1. Prepared(w)'
    BY <1>11, <1>p, <1>pc, <1>job
       DEF Prepared, Track, Comp, LaunchSteps, UninstallSteps
  <2> QED
    BY <1>11, <1>job, <2>1, ReadyQuietStep DEF Track
<1> QED
  BY <1>1, <1>2, <1>3, <1>4, <1>5, <1>6, <1>7, <1>8, <1>9, <1>10, <1>11
     DEF LaunchStep


LEMMA ReadyUninstallStep ==
  ASSUME TypeOK, ReadyInv, NEW w \in Worker, phase \notin {"down", "boot"},
         UninstallStep(w)
  PROVE  ReadyInv'
<1> USE DEF outside, docker, boot, memory, locals
<1>p. Prepared(w)
  BY DEF ReadyInv
<1>pc. ASSUME NEW from, NEW to, Step(w, from, to)
       PROVE  pc[w] = from /\ pc'[w] = to
  BY <1>pc DEF Step, TypeOK
<1>job. ASSUME NEW from, Finish(w, from)
        PROVE  /\ Step(w, from, "idle")
               /\ \A v \in Worker \ {w} : job'[v] = job[v]
  BY <1>job DEF Finish, TypeOK
<1>1. CASE FindService(w)
  <2>1. Prepared(w)'
    BY <1>1, <1>p, <1>pc, <1>job DEF Prepared, FindService, Comp, LaunchSteps
  <2> QED
    BY <1>1, <1>job, <2>1, ReadyQuietStep DEF FindService
<1>2. CASE RemoveService(w)
  <2>1. Prepared(w)'
    BY <1>2, <1>p, <1>pc DEF Prepared, RemoveService, Comp, LaunchSteps
  <2>2. \A v \in Worker \ {w} : SameFor(v)
    BY <1>2 DEF RemoveService, Step, SameFor, TypeOK
  <2>3. Grows
    BY <1>2 DEF RemoveService, Grows
  <2>4. \A v \in Worker : Prepared(v)'
    BY <2>1, <2>2, <2>3, PreparedStays DEF ReadyInv
  <2>5. \A s \in Service : svc'[s] # 0 => svc[s] # 0
    <3>1. \/ svc' = svc
          \/ svc' = [s \in Service |->
                      IF <<s, svc[s]>> \in mark[w] THEN 0 ELSE svc[s]]
      BY <1>2 DEF RemoveService
    <3> QED
      BY <3>1
  <2>6. \A c \in Component : svc'[Main(c)] # 0 => svc[Main(c)] # 0
    BY <2>5 DEF Main, Service
  <2> QED
    BY <1>2, <2>4, <2>5, <2>6 DEF ReadyInv, AtRest, RemoveService, Main, StoreOf
<1>3. CASE ListSecrets(w) \/ DropSecrets(w) \/ Disconnect(w) \/ DeleteSLA(w)
  <2>1. Prepared(w)'
    BY <1>3, <1>p, <1>pc
       DEF Prepared, ListSecrets, DropSecrets, Disconnect, DeleteSLA, Comp, LaunchSteps
  <2> QED
    BY <1>3, <2>1, ReadyQuietStep DEF ListSecrets, DropSecrets, Disconnect, DeleteSLA
<1>4. CASE Untrack(w)
  <2>1. Prepared(w)'
    BY <1>4, <1>p, <1>pc, <1>job DEF Prepared, Untrack, Comp, LaunchSteps
  <2> QED
    BY <1>4, <1>job, <2>1, ReadyQuietStep DEF Untrack
<1> QED
  BY <1>1, <1>2, <1>3, <1>4 DEF UninstallStep

LEMMA ReadyStep ==
  ASSUME "arbiter" \notin Faults
  PROVE  TypeOK /\ ReadyInv /\ [Next]_vars => ReadyInv'
<1> SUFFICES ASSUME TypeOK, ReadyInv, [Next]_vars PROVE ReadyInv'
  OBVIOUS
<1> USE DEF outside, docker, boot, memory, locals
<1>stays. ASSUME AtRest', UNCHANGED <<svc, arb, granted, pc, job, part>>
          PROVE  ReadyInv'
  BY <1>stays DEF ReadyInv, Prepared, Comp, Main, StoreOf
<1>1. CASE BootStep
  <2>1. CASE StartServing \/ ListKeys \/ ReadSLAs \/ ReloadApps \/ Ready
    <3>1. AtRest'
      BY <2>1 DEF StartServing, ListKeys, ReadSLAs, ReloadApps, Ready, At, AtRest
    <3> QED
      BY <2>1, <3>1, <1>stays DEF StartServing, ListKeys, ReadSLAs, ReloadApps, Ready
  <2>2. CASE Reboot \/ RebootUnclean
    <3>1. /\ todo = {}
          /\ \A w \in Worker : pc[w] = "idle" /\ part[w] = "main"
      BY <2>2 DEF Reboot, RebootUnclean, At, ReadyInv, AtRest
    <3>2. AtRest' /\ \A w \in Worker : Prepared(w)'
      BY <2>2, <3>1 DEF Reboot, RebootUnclean, AtRest, Prepared, LaunchSteps
    <3>3. \A s \in Service : svc'[s] = 0
      BY <2>2 DEF Reboot, RebootUnclean
    <3>4. \A c \in Component : svc'[Main(c)] = 0
      BY <3>3 DEF Main, Service
    <3> QED
      BY <3>2, <3>3, <3>4 DEF ReadyInv, Main, StoreOf
  <2> QED
    BY <1>1, <2>1, <2>2 DEF BootStep
<1>2. CASE Crash
  <2>1. AtRest' /\ \A w \in Worker : Prepared(w)'
    BY <1>2 DEF Crash, AtRest, Prepared, LaunchSteps
  <2> QED
    BY <1>2, <2>1 DEF Crash, ReadyInv, Main, StoreOf
<1>3. ASSUME NEW w \in Worker, WorkerStep(w) PROVE ReadyInv'
  <2>1. CASE Spawn(w)
    <3>1. PICK t \in todo : BeginLaunch(w, t[1], FALSE, t[2])
      BY <2>1 DEF Spawn
    <3>2. phase \notin {"down", "boot"}
      BY <3>1 DEF ReadyInv, AtRest
    <3> QED
      BY <3>1, <3>2, ReadyLaunchBegins
  <2>2. CASE LaunchStep(w) \/ UninstallStep(w)
    <3>1. pc[w] # "idle"
      BY <2>2 DEF LaunchStep, UninstallStep, PreConfig, CreateNetwork,
           AttachCoreNetwork, Check, GenorateSecrets, ClearSecret, MakeSecret,
           RegisterToken, ConnectEndpoints, LaunchStore, CreateStoreService,
           AddPermissions, CreateService, SaveSLA, Track, FindService,
           RemoveService, ListSecrets, DropSecrets, Disconnect, DeleteSLA,
           Untrack, Finish, Step
    <3>2. phase \notin {"down", "boot"}
      BY <3>1 DEF ReadyInv, AtRest
    <3> QED
      BY <2>2, <3>2, ReadyLaunchStep, ReadyUninstallStep
  <2> QED
    BY <1>3, <2>1, <2>2 DEF WorkerStep
<1>4. ASSUME NEW w \in Worker, NEW c \in Component, Install(w, c) PROVE ReadyInv'
  <2>1. phase \notin {"down", "boot"}
    BY <1>4 DEF Install, ApiUp
  <2> QED
    BY <1>4, <2>1, ReadyLaunchBegins DEF Install
<1>5. ASSUME NEW w \in Worker, NEW c \in Component, Uninstall(w, c)
      PROVE  ReadyInv'
  <2>1. phase' = phase /\ phase \notin {"down", "boot"}
    BY <1>5 DEF Uninstall, ApiUp
  <2>2. Prepared(w)
    BY DEF ReadyInv
  <2>3. Prepared(w)'
    BY <1>5, <2>2 DEF Uninstall, Prepared, Step, LaunchSteps, Comp, TypeOK
  <2>4. \A v \in Worker \ {w} : job'[v] = job[v]
    BY <1>5 DEF Uninstall, TypeOK
  <2> QED
    BY <1>5, <2>1, <2>3, <2>4, ReadyQuietStep DEF Uninstall
<1>6. CASE UNCHANGED vars
  <2>1. AtRest'
    BY <1>6 DEF vars, ReadyInv, AtRest
  <2> QED
    BY <1>6, <2>1, <1>stays DEF vars
<1> QED
  BY <1>1, <1>2, <1>3, <1>4, <1>5, <1>6 DEF Next

\* Whatever launches, uninstalls, failures and crashes overlap, no component
\* runs before the arbiter has its token and permissions and its store's token.
THEOREM NothingRunsUnready == Spec => []ReadyBeforeStart
<1>1. CASE "arbiter" \in Faults
  <2>1. ReadyBeforeStart
    BY <1>1 DEF ReadyBeforeStart
  <2> QED
    BY <2>1, PTL
<1>2. CASE "arbiter" \notin Faults
  <2>1. Init => TypeOK /\ ReadyInv
    <3>1. Init => ReadyInv
      BY DEF Init, ReadyInv, AtRest, Prepared, LaunchSteps, Service, Main
    <3> QED
      BY <3>1, InitType
  <2>2. TypeOK /\ ReadyInv /\ [Next]_vars => TypeOK' /\ ReadyInv'
    BY <1>2, TypeStep, ReadyStep
  <2>3. TypeOK /\ ReadyInv => ReadyBeforeStart
    BY DEF TypeOK, ReadyInv, ReadyBeforeStart, Service, Main
  <2> QED
    BY <2>1, <2>2, <2>3, PTL DEF Spec
<1> QED
  BY <1>1, <1>2


(***************************************************************************)
(* Drivers come back before apps: at any time the goroutines of the reload *)
(* are all of one batch.                                                   *)
(***************************************************************************)
LEMMA ReloadStep == TypeOK /\ ReloadInv /\ [Next]_vars => ReloadInv'
<1> SUFFICES ASSUME TypeOK, ReloadInv, [Next]_vars PROVE ReloadInv'
  OBVIOUS
<1> USE DEF outside, docker, boot, memory, locals
<1>t. job \in [Worker -> Job] /\ ~NoJob.reload
  BY DEF TypeOK, NoJob
\* A step of a worker that starts nothing.
<1>a. ASSUME NEW w \in Worker, phase' = phase, todo' \subseteq todo,
             \A v \in Worker \ {w} : job'[v] = job[v],
             job'[w] = job[w] \/ ~job'[w].reload
      PROVE  ReloadInv'
  BY <1>a DEF ReloadInv, Batch, Reloading, Comp
<1>1. CASE BootStep
  <2>1. CASE StartServing
    BY <2>1 DEF StartServing, At, ReloadInv, Batch, Reloading, Comp
  <2>2. CASE ListKeys
    BY <2>2 DEF ListKeys, At, ReloadInv, Batch, Reloading, Comp
  <2>3. CASE ReadSLAs
    BY <2>3 DEF ReadSLAs, At, ReloadInv, Batch, Reloading, Comp
  <2>4. CASE ReloadApps
    BY <2>4 DEF ReloadApps, ReloadDone, At, ReloadInv, Batch, Reloading, Comp
  <2>5. CASE Ready
    BY <2>5 DEF Ready, ReloadDone, At, ReloadInv, Batch, Reloading, Comp
  <2>6. CASE Reboot
    BY <2>6 DEF Reboot, At, ReloadInv, Batch, Reloading, Comp
  <2>7. CASE RebootUnclean
    BY <2>7 DEF RebootUnclean, At, ReloadInv, Batch, Reloading, Comp
  <2> QED
    BY <1>1, <2>1, <2>2, <2>3, <2>4, <2>5, <2>6, <2>7 DEF BootStep
<1>2. CASE Crash
  BY <1>2, <1>t DEF Crash, ReloadInv, Batch, Reloading
<1>3. ASSUME NEW w \in Worker, WorkerStep(w) PROVE ReloadInv'
  <2>job. ASSUME NEW from, Finish(w, from)
          PROVE  /\ \A v \in Worker \ {w} : job'[v] = job[v]
                 /\ ~job'[w].reload
    BY <2>job, <1>t DEF Finish
  <2>1. CASE \/ PreConfig(w) \/ CreateNetwork(w) \/ AttachCoreNetwork(w)
             \/ Check(w) \/ GenorateSecrets(w) \/ RegisterToken(w)
    <3>1. CASE Check(w)
      BY <3>1, <2>job, <1>a DEF Check
    <3>2. CASE GenorateSecrets(w)
      BY <3>2, <1>a DEF GenorateSecrets, ClearSecret, MakeSecret
    <3>3. CASE PreConfig(w) \/ CreateNetwork(w) \/ AttachCoreNetwork(w) \/ RegisterToken(w)
      BY <3>3, <1>a DEF PreConfig, CreateNetwork, AttachCoreNetwork, RegisterToken
    <3> QED
      BY <2>1, <3>1, <3>2, <3>3
  <2>2. CASE \/ ConnectEndpoints(w) \/ LaunchStore(w) \/ CreateStoreService(w)
             \/ AddPermissions(w) \/ CreateService(w) \/ SaveSLA(w) \/ Track(w)
    BY <2>2, <2>job, <1>a
       DEF ConnectEndpoints, LaunchStore, CreateStoreService, AddPermissions,
           CreateService, SaveSLA, Track
  <2>3. CASE UninstallStep(w)
    BY <2>3, <2>job, <1>a
       DEF UninstallStep, FindService, RemoveService, ListSecrets, DropSecrets,
           Disconnect, DeleteSLA, Untrack
  <2>4. CASE Spawn(w)
    <3>1. PICK t \in todo : /\ BeginLaunch(w, t[1], FALSE, t[2])
                            /\ todo' = todo \ {t}
      BY <2>4 DEF Spawn
    <3>2. /\ job'[w].comp = t[1] /\ job'[w].reload = t[2]
          /\ \A v \in Worker \ {w} : job'[v] = job[v]
          /\ phase' = phase
      BY <3>1, <1>t DEF BeginLaunch
    <3> QED
      BY <3>1, <3>2 DEF ReloadInv, Batch, Reloading, Comp
  <2> QED
    BY <1>3, <2>1, <2>2, <2>3, <2>4 DEF WorkerStep, LaunchStep
<1>4. ASSUME NEW w \in Worker, NEW c \in Component, Install(w, c) PROVE ReloadInv'
  <2>1. ~job'[w].reload /\ \A v \in Worker \ {w} : job'[v] = job[v]
    BY <1>4, <1>t DEF Install, BeginLaunch
  <2> QED
    BY <1>4, <2>1, <1>a DEF Install, BeginLaunch
<1>5. ASSUME NEW w \in Worker, NEW c \in Component, Uninstall(w, c)
      PROVE  ReloadInv'
  <2>1. ~job'[w].reload /\ \A v \in Worker \ {w} : job'[v] = job[v]
    BY <1>5, <1>t DEF Uninstall, NoJob
  <2> QED
    BY <1>5, <2>1, <1>a DEF Uninstall
<1>6. CASE UNCHANGED vars
  BY <1>6 DEF vars, ReloadInv, Batch, Reloading, Comp
<1> QED
  BY <1>1, <1>2, <1>3, <1>4, <1>5, <1>6 DEF Next

\* While reloadApps still has a driver to launch, it launches no app.
THEOREM DriversComeFirst == Spec => []DriversFirst
<1>1. Init => TypeOK /\ ReloadInv
  <2>0. ~NoJob.reload
    BY DEF NoJob
  <2>1. Init => ReloadInv
    BY <2>0 DEF Init, ReloadInv, Reloading
  <2> QED
    BY <2>1, InitType
<1>2. TypeOK /\ ReloadInv /\ [Next]_vars => TypeOK' /\ ReloadInv'
  BY TypeStep, ReloadStep
<1>3. ReloadInv => DriversFirst
  BY ConstantsAssumption DEF ReloadInv, DriversFirst, Batch
<1> QED
  BY <1>1, <1>2, <1>3, PTL DEF Spec

=============================================================================
