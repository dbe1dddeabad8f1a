-------------------------- MODULE DisciplineProofs --------------------------
(***************************************************************************)
(* Theorems of ContainerManager under the discipline of SerialSpec, for    *)
(* every set of components and workers, whatever fails and crashes.        *)
(***************************************************************************)
EXTENDS ContainerManagerProofs

Working(w) == LaunchStep(w) \/ UninstallStep(w)

\* Every call of w is one of these.
LEMMA Calls ==
  ASSUME NEW w \in Worker, Working(w), NEW P,
         PreConfig(w) => P, CreateNetwork(w) => P, AttachCoreNetwork(w) => P,
         Check(w) => P, GenorateSecrets(w) => P, RegisterToken(w) => P,
         ConnectEndpoints(w) => P, LaunchStore(w) => P, CreateStoreService(w) => P,
         AddPermissions(w) => P, CreateService(w) => P, SaveSLA(w) => P,
         Track(w) => P, FindService(w) => P, RemoveService(w) => P,
         ListSecrets(w) => P, DropSecrets(w) => P, Disconnect(w) => P,
         DeleteSLA(w) => P, Untrack(w) => P
  PROVE  P
BY DEF Working, LaunchStep, UninstallStep

\* Step and Finish touch one worker.
LEMMA OneSteps ==
  ASSUME TypeOK, NEW w \in Worker, NEW from, NEW to,
         Step(w, from, to)
  PROVE  /\ pc[w] = from /\ pc'[w] = to
         /\ \A v \in Worker \ {w} : pc'[v] = pc[v]
BY DEF TypeOK, Step

LEMMA OneFinishes ==
  ASSUME TypeOK, NEW w \in Worker, NEW from, Finish(w, from)
  PROVE  /\ pc[w] = from /\ pc'[w] = "idle" /\ job'[w] = NoJob
         /\ \A v \in Worker \ {w} : pc'[v] = pc[v] /\ job'[v] = job[v]
BY DEF TypeOK, Finish, Step

\* What a call of w leaves alone.
Moves(w) ==
    /\ Busy(w) /\ UNCHANGED <<phase, snap, todo>>
    /\ \A v \in Worker \ {w} : SameFor(v)
    /\ (pc'[w] = "idle" /\ ~job'[w].save) \/ job'[w] = job[w]
    /\ sla' \subseteq sla \/ (pc[w] = "save" /\ sla' \subseteq sla \cup {Comp(w)})

LEMMA CallMoves ==
  ASSUME TypeOK, NEW w \in Worker, Working(w)
  PROVE  Moves(w)
<1> USE NoJobType DEF outside, docker, boot, memory, locals
\* A call that is not the last.
<1>a. ASSUME NEW from, NEW to, Step(w, from, to), from # "idle",
             UNCHANGED <<phase, snap, todo, job>>,
             \A v \in Worker \ {w} : part'[v] = part[v],
             sla' \subseteq sla \/ (from = "save" /\ sla' \subseteq sla \cup {Comp(w)})
      PROVE  Moves(w)
  BY <1>a, OneSteps DEF Moves, SameFor, Busy
<1>b. ASSUME NEW from, Finish(w, from), from # "idle",
             UNCHANGED <<phase, snap, todo, part, sla>>
      PROVE  Moves(w)
  BY <1>b, OneFinishes DEF Moves, SameFor, Busy
<1>p. \A s : part' = [part EXCEPT ![w] = s] => \A v \in Worker \ {w} : part'[v] = part[v]
  BY DEF TypeOK
<1>1. PreConfig(w) => Moves(w)
  BY <1>a DEF PreConfig
<1>2. CreateNetwork(w) => Moves(w)
  BY <1>a DEF CreateNetwork
<1>3. AttachCoreNetwork(w) => Moves(w)
  BY <1>a DEF AttachCoreNetwork
<1>4. Check(w) => Moves(w)
  BY <1>a, <1>b DEF Check
<1>5. GenorateSecrets(w) => Moves(w)
  BY <1>a DEF GenorateSecrets, ClearSecret, MakeSecret
<1>6. RegisterToken(w) => Moves(w)
  BY <1>a DEF RegisterToken
<1>7. ConnectEndpoints(w) => Moves(w)
  BY <1>a DEF ConnectEndpoints
<1>8. LaunchStore(w) => Moves(w)
  BY <1>a, <1>p DEF LaunchStore
<1>9. CreateStoreService(w) => Moves(w)
  BY <1>a, <1>p DEF CreateStoreService
<1>10. AddPermissions(w) => Moves(w)
  BY <1>a DEF AddPermissions
<1>11. CreateService(w) => Moves(w)
  BY <1>a, <1>b DEF CreateService
<1>12. SaveSLA(w) => Moves(w)
  BY <1>a DEF SaveSLA
<1>13. Track(w) => Moves(w)
  BY <1>b DEF Track
<1>14. FindService(w) => Moves(w)
  BY <1>a, <1>b DEF FindService
<1>15. RemoveService(w) => Moves(w)
  BY <1>a DEF RemoveService
<1>16. ListSecrets(w) => Moves(w)
  BY <1>a DEF ListSecrets
<1>17. DropSecrets(w) => Moves(w)
  BY <1>a DEF DropSecrets
<1>18. Disconnect(w) => Moves(w)
  BY <1>a DEF Disconnect
<1>19. DeleteSLA(w) => Moves(w)
  BY <1>a DEF DeleteSLA
<1>20. Untrack(w) => Moves(w)
  BY <1>b DEF Untrack
<1> QED
  BY <1>1, <1>2, <1>3, <1>4, <1>5, <1>6, <1>7, <1>8, <1>9, <1>10, <1>11, <1>12,
     <1>13, <1>14, <1>15, <1>16, <1>17, <1>18, <1>19, <1>20, Calls

\* The discipline only leaves steps out.
LEMMA SerialIsNext == [SerialNext]_vars => [Next]_vars
BY DEF SerialNext, Next

(***************************************************************************)
(* At most one goroutine works on a component.                             *)
(***************************************************************************)
LEMMA PartCalls ==
  ASSUME TypeOK, PartInv, NEW w \in Worker, Working(w)
  PROVE  PartInv'
<1> DEFINE Here == /\ part'[w] = "store" =>
                        pc'[w] \in {"clearPem", "makePem", "clearKey", "makeKey",
                                    "register", "storeService"}
                   /\ pc'[w] = "storeService" => part'[w] = "store"
<1> SUFFICES Here
  BY CallMoves DEF Moves, SameFor, PartInv
<1>t. /\ part \in [Worker -> {"main", "store"}]
      /\ part[w] = "store" => pc[w] \in {"clearPem", "makePem", "clearKey", "makeKey",
                                         "register", "storeService"}
      /\ pc[w] = "storeService" => part[w] = "store"
  BY DEF TypeOK, PartInv
<1>a. ASSUME NEW from, NEW to, Step(w, from, to), part' = part,
             from \notin {"clearPem", "makePem", "clearKey", "makeKey", "register",
                          "storeService"},
             to # "storeService"
      PROVE  Here
  BY <1>a, <1>t, OneSteps
<1>b. ASSUME NEW from, Finish(w, from), part' = part, 
             from \notin {"clearPem", "makePem", "clearKey", "makeKey", "register",
                          "storeService"}
      PROVE  Here
  BY <1>b, <1>t, OneFinishes
<1>c. ASSUME NEW from, NEW to, Step(w, from, to), part' = part,
             to \in {"clearPem", "makePem", "clearKey", "makeKey", "register"}
      PROVE  Here
  BY <1>c, <1>t, OneSteps
<1> USE FirstSecretType DEF boot, memory, locals
<1>1. PreConfig(w) => Here
  BY <1>a DEF PreConfig
<1>2. CreateNetwork(w) => Here
  BY <1>a DEF CreateNetwork
<1>3. AttachCoreNetwork(w) => Here
  BY <1>a DEF AttachCoreNetwork
<1>4. Check(w) => Here
  BY <1>a, <1>b DEF Check
<1>5. GenorateSecrets(w) => Here
  BY <1>c DEF GenorateSecrets, ClearSecret, MakeSecret
<1>6. RegisterToken(w) => Here
  BY <1>t, OneSteps DEF RegisterToken
<1>7. ConnectEndpoints(w) => Here
  BY <1>a DEF ConnectEndpoints
<1>8. LaunchStore(w) => Here
  BY <1>a, <1>t, OneSteps DEF LaunchStore
<1>9. CreateStoreService(w) => Here
  BY <1>t, OneSteps DEF CreateStoreService
<1>10. AddPermissions(w) => Here
  BY <1>a DEF AddPermissions
<1>11. CreateService(w) => Here
  BY <1>a, <1>b DEF CreateService
<1>12. SaveSLA(w) => Here
  BY <1>a DEF SaveSLA
<1>13. Track(w) => Here
  BY <1>b DEF Track
<1>14. FindService(w) => Here
  BY <1>a, <1>b DEF FindService
<1>15. RemoveService(w) => Here
  BY <1>a DEF RemoveService
<1>16. ListSecrets(w) => Here
  BY <1>a DEF ListSecrets
<1>17. DropSecrets(w) => Here
  BY <1>a DEF DropSecrets
<1>18. Disconnect(w) => Here
  BY <1>a DEF Disconnect
<1>19. DeleteSLA(w) => Here
  BY <1>a DEF DeleteSLA
<1>20. Untrack(w) => Here
  BY <1>b DEF Untrack
<1> QED
  BY <1>1, <1>2, <1>3, <1>4, <1>5, <1>6, <1>7, <1>8, <1>9, <1>10, <1>11, <1>12,
     <1>13, <1>14, <1>15, <1>16, <1>17, <1>18, <1>19, <1>20, Calls

\* A goroutine starts to launch or to uninstall c.
Begins(w, c, save, reload) ==
    /\ pc[w] = "idle" /\ pc'[w] \in {"preconfig", "find"}
    /\ \A v \in Worker \ {w} : SameFor(v)
    /\ part' = part
    /\ job'[w].comp = c /\ job'[w].save = save /\ job'[w].reload = reload

LEMMA LaunchBegins ==
  ASSUME TypeOK, NEW w \in Worker, NEW c \in Component, NEW save, NEW reload,
         BeginLaunch(w, c, save, reload)
  PROVE  Begins(w, c, save, reload) /\ UNCHANGED <<phase, snap, sla, svc, arb, installed, lost>>
BY OneSteps DEF TypeOK, BeginLaunch, Begins, SameFor, outside, docker, memory

LEMMA UninstallBegins ==
  ASSUME TypeOK, NEW w \in Worker, NEW c \in Component, Uninstall(w, c)
  PROVE  /\ Begins(w, c, FALSE, FALSE)
         /\ UNCHANGED <<phase, snap, todo, sla, svc, arb, installed, lost>>
BY OneSteps DEF TypeOK, Uninstall, NoJob, Begins, SameFor, outside, docker, boot, memory

LEMMA PartBegins ==
  ASSUME TypeOK, PartInv, NEW w \in Worker, NEW c, NEW save, NEW reload,
         Begins(w, c, save, reload)
  PROVE  PartInv'
BY DEF PartInv, Begins, SameFor

LEMMA OneBegins ==
  ASSUME TypeOK, OnePerComponent, NEW w \in Worker, NEW c, NEW save \in BOOLEAN,
         NEW reload \in BOOLEAN,
         Begins(w, c, save, reload), UNCHANGED <<phase, snap, sla>>,
         phase \notin {"down", "boot"}, todo' \subseteq todo,
         \A v \in Worker \ {w} : Busy(v) => Comp(v) # c,
         \A t \in todo' : t[1] # c,
         save => c \notin Builtin,
         phase # "ready" => reload \/ c \in Builtin
  PROVE  OnePerComponent'
<1>1. AtRest'
  BY DEF AtRest
<1>2. \A v \in Worker \ {w} : Busy(v)' = Busy(v) /\ Comp(v)' = Comp(v)
  BY DEF Begins, SameFor, Busy, Comp
<1>3. Comp(w)' = c /\ Busy(w)'
  BY DEF Begins, Busy, Comp
<1> QED
  BY <1>1, <1>2, <1>3 DEF OnePerComponent, Begins, SameFor, Reloading

LEMMA OneCalls ==
  ASSUME TypeOK, SticksInv, OnePerComponent, NEW w \in Worker, Working(w)
  PROVE  OnePerComponent'
<1>1. Moves(w)
  BY CallMoves
<1>2. phase \notin {"down", "boot"}
  BY <1>1 DEF OnePerComponent, AtRest, Moves, Busy
<1>3. AtRest'
  BY <1>1, <1>2 DEF AtRest, Moves
<1>4. \A v \in Worker : Busy(v)' => Busy(v) /\ Comp(v)' = Comp(v) /\ job'[v] = job[v]
  BY <1>1 DEF Moves, SameFor, Busy, Comp
<1>5. \A v \in Worker : job'[v].save => job'[v] = job[v]
  BY <1>1 DEF Moves, SameFor
<1>6. sla' \cap Builtin = {}
  BY <1>1 DEF Moves, OnePerComponent, SticksInv
<1> QED
  BY <1>1, <1>3, <1>4, <1>5, <1>6 DEF Moves, OnePerComponent, Reloading, Comp

LEMMA OneBoots ==
  ASSUME TypeOK, ReloadInv, OnePerComponent, BootStep
  PROVE  OnePerComponent'
<1> USE DEF outside, docker, boot, memory, locals, At
<1>s. /\ phase \notin {"down", "boot", "ready"} =>
           \A w \in Worker : Busy(w) => Reloading(w) \/ Comp(w) \in Builtin
      /\ phase \in {"list", "read", "ready"} =>
           /\ \A w \in Worker : ~Reloading(w)
           /\ \A t \in todo : ~t[2]
  BY DEF OnePerComponent, ReloadInv, Batch
<1>1. CASE StartServing
  BY <1>1 DEF StartServing, OnePerComponent, AtRest, Busy, Comp, Reloading
<1>2. CASE ListKeys
  BY <1>2, <1>s DEF ListKeys, OnePerComponent, AtRest, Busy, Comp, Reloading
<1>3. CASE ReadSLAs \/ ReloadApps
  <2>1. /\ \A w \in Worker : ~Reloading(w) /\ (Busy(w) => Comp(w) \in Builtin)
        /\ \A t \in todo : t[1] \in Builtin
    BY <1>3, <1>s DEF ReadSLAs, ReloadApps, ReloadDone, OnePerComponent
  <2>2. PICK new \in SUBSET (snap' \X {TRUE}) : todo' = todo \cup new
    BY <1>3 DEF ReadSLAs, ReloadApps
  <2>3. snap' \cap Builtin = {} /\ sla' = sla
    BY <1>3 DEF ReadSLAs, ReloadApps, OnePerComponent
  <2>4. \A t \in new : t[2] /\ t[1] \notin Builtin
    BY <2>2, <2>3
  <2>5. /\ UNCHANGED <<pc, job, part>>
        /\ phase' \in {"drivers", "apps"}
    BY <1>3 DEF ReadSLAs, ReloadApps
  <2>6. AtRest'
    BY <2>5 DEF AtRest
  <2>7. \A t \in todo' : /\ t[2] => t[1] \notin Builtin
                         /\ ~t[2] => t[1] \in Builtin
                         /\ \A w \in Worker : Busy(w) => Comp(w) # t[1]
    BY <2>1, <2>2, <2>4 DEF OnePerComponent
  <2> QED
    BY <2>1, <2>3, <2>5, <2>6, <2>7 DEF OnePerComponent, Busy, Comp, Reloading
<1>4. CASE Ready
  BY <1>4 DEF Ready, OnePerComponent, AtRest, Busy, Comp, Reloading
<1>5. CASE Reboot \/ RebootUnclean
  BY <1>5 DEF Reboot, RebootUnclean, OnePerComponent, AtRest, Busy, Comp, Reloading
<1> QED
  BY <1>1, <1>2, <1>3, <1>4, <1>5 DEF BootStep

LEMMA SerialStep == TypeOK /\ SerialInv /\ [SerialNext]_vars => SerialInv'
<1> SUFFICES ASSUME TypeOK, SerialInv, [SerialNext]_vars PROVE SerialInv'
  OBVIOUS
<1>i. PartInv /\ SticksInv /\ ReloadInv /\ OnePerComponent
  BY DEF SerialInv
<1>n. SticksInv' /\ ReloadInv'
  BY <1>i, SerialIsNext, SticksStep, ReloadStep
<1>1. CASE BootStep
  <2>1. UNCHANGED <<pc, part>>
    BY <1>1 DEF BootStep, StartServing, ListKeys, ReadSLAs, ReloadApps, Ready, Reboot,
       RebootUnclean, locals
  <2>2. PartInv'
    BY <1>i, <2>1 DEF PartInv
  <2> QED
    BY <1>1, <1>i, <1>n, <2>2, OneBoots DEF SerialInv
<1>2. CASE Crash
  BY <1>2, <1>i, <1>n, NoJobType
     DEF Crash, SerialInv, PartInv, OnePerComponent, AtRest, Busy, outside
<1>3. ASSUME NEW w \in Worker, Working(w) PROVE SerialInv'
  BY <1>3, <1>i, <1>n, PartCalls, OneCalls DEF SerialInv
<1>4. ASSUME NEW w \in Worker, Spawn(w) PROVE SerialInv'
  <2>1. PICK t \in todo : BeginLaunch(w, t[1], FALSE, t[2]) /\ todo' = todo \ {t}
    BY <1>4 DEF Spawn
  <2>2. t[1] \in Component /\ t[2] \in BOOLEAN
    BY DEF TypeOK
  <2>3. \A u \in todo \ {t} : u[1] # t[1]
    <3>1. SUFFICES ASSUME NEW u \in todo, u[1] = t[1] PROVE u = t
      OBVIOUS
    <3>2. u[2] \in BOOLEAN /\ u = <<u[1], u[2]>> /\ t = <<t[1], t[2]>>
      BY DEF TypeOK
    <3>3. (u[2] <=> t[2])
      BY <1>i, <3>1 DEF OnePerComponent
    <3> QED
      BY <2>2, <3>1, <3>2, <3>3
  <2>4. phase \notin {"down", "boot"}
    BY <1>i, <2>1 DEF OnePerComponent, AtRest
  <2>5. \A v \in Worker \ {w} : Busy(v) => Comp(v) # t[1]
    BY <1>i DEF OnePerComponent
  <2>6. t[2] \/ t[1] \in Builtin
    BY <1>i DEF OnePerComponent
  <2>7. /\ Begins(w, t[1], FALSE, t[2])
        /\ UNCHANGED <<phase, snap, sla>>
    BY <2>1, <2>2, LaunchBegins
  <2>8. OnePerComponent'
    BY <1>i, <2>1, <2>2, <2>3, <2>4, <2>5, <2>6, <2>7, OneBegins
  <2> QED
    BY <1>i, <1>n, <2>7, <2>8, PartBegins DEF SerialInv
<1>5. ASSUME NEW w \in Worker, NEW c \in Component \ Builtin, Quiet(c),
             Install(w, c) \/ Uninstall(w, c)
      PROVE  SerialInv'
  <2>1. PICK save \in BOOLEAN : Begins(w, c, save, FALSE)
    BY <1>5, LaunchBegins, UninstallBegins DEF Install
  <2>2. UNCHANGED <<phase, snap, sla, todo>>
    BY <1>5, LaunchBegins, UninstallBegins DEF Install
  <2>3. phase = "ready" /\ \A v \in Worker \ {w} : Busy(v) => Comp(v) # c
    BY <1>5 DEF Quiet
  <2>4. \A t \in todo : t[1] # c
    BY <1>i, <2>3 DEF ReloadInv, Batch, OnePerComponent
  <2>5. OnePerComponent'
    BY <1>i, <2>1, <2>2, <2>3, <2>4, OneBegins
  <2> QED
    BY <1>i, <1>n, <2>1, <2>5, PartBegins DEF SerialInv
<1>6. CASE UNCHANGED vars
  BY <1>6, <1>i, <1>n DEF vars, SerialInv, PartInv, OnePerComponent, AtRest, Busy, Comp,
     Reloading, outside, boot, locals
<1> QED
  BY <1>1, <1>2, <1>3, <1>4, <1>5, <1>6 DEF SerialNext, WorkerStep, Working

LEMMA SerialCorrect == SerialSpec => [](TypeOK /\ SerialInv)
<1>1. ASSUME SerialInit PROVE TypeOK /\ SerialInv
  <2>1. TypeOK
    BY <1>1, InitType DEF SerialInit
  <2>2. PartInv /\ SticksInv
    BY <1>1, NoJobType DEF SerialInit, Init, PartInv, SticksInv, UninstallSticks
  <2>3. ReloadInv /\ OnePerComponent
    BY <1>1, NoJobType DEF SerialInit, Init, ReloadInv, Reloading, NoJob,
       OnePerComponent, AtRest, Busy
  <2> QED
    BY <2>1, <2>2, <2>3 DEF SerialInv
<1>2. TypeOK /\ SerialInv /\ [SerialNext]_vars => TypeOK' /\ SerialInv'
  BY TypeStep, SerialStep, SerialIsNext
<1> QED
  BY <1>1, <1>2, PTL DEF SerialSpec

(***************************************************************************)
(* A store's token is the one the arbiter holds.                           *)
(***************************************************************************)

\* What a call of w does to the services and tokens of other components.
Elsewhere(w) ==
    \A s \in Service : s[1] # Comp(w) =>
        arb'[s] = arb[s] /\ svc'[s] \in {0, svc[s]}

\* The services that calls create or remove are those of their component, but
\* for what RemoveService removes.
LEMMA CallsElsewhere ==
  ASSUME TypeOK, NEW w \in Worker, Working(w)
  PROVE  Elsewhere(w)
<1> USE DEF outside, docker, Elsewhere
<1>t. /\ svc \in [Service -> Nat] /\ arb \in [Service -> Nat]
      /\ Target(w) \in Service /\ Target(w)[1] = Comp(w)
  BY WorkerTypes DEF TypeOK
<1>a. UNCHANGED <<svc, arb>> => Elsewhere(w)
  OBVIOUS
<1>1. PreConfig(w) => Elsewhere(w)
  BY <1>a DEF PreConfig
<1>2. CreateNetwork(w) => Elsewhere(w)
  BY <1>a DEF CreateNetwork
<1>3. AttachCoreNetwork(w) => Elsewhere(w)
  BY <1>a DEF AttachCoreNetwork
<1>4. Check(w) => Elsewhere(w)
  BY <1>a DEF Check
<1>5. GenorateSecrets(w) => Elsewhere(w)
  BY <1>a DEF GenorateSecrets, ClearSecret, MakeSecret
<1>6. RegisterToken(w) => Elsewhere(w)
  BY <1>t DEF RegisterToken
<1>7. ConnectEndpoints(w) => Elsewhere(w)
  BY <1>a DEF ConnectEndpoints
<1>8. LaunchStore(w) => Elsewhere(w)
  BY <1>a DEF LaunchStore
<1>9. CreateStoreService(w) => Elsewhere(w)
  BY <1>t DEF CreateStoreService
<1>10. AddPermissions(w) => Elsewhere(w)
  BY <1>a DEF AddPermissions
<1>11. CreateService(w) => Elsewhere(w)
  BY <1>t DEF CreateService
<1>12. SaveSLA(w) => Elsewhere(w)
  BY <1>a DEF SaveSLA
<1>13. Track(w) => Elsewhere(w)
  BY <1>a DEF Track
<1>14. FindService(w) => Elsewhere(w)
  BY <1>a DEF FindService
<1>15. RemoveService(w) => Elsewhere(w)
  BY <1>t DEF RemoveService
<1>16. ListSecrets(w) => Elsewhere(w)
  BY <1>a DEF ListSecrets
<1>17. DropSecrets(w) => Elsewhere(w)
  BY <1>a DEF DropSecrets
<1>18. Disconnect(w) => Elsewhere(w)
  BY <1>a DEF Disconnect
<1>19. DeleteSLA(w) => Elsewhere(w)
  BY <1>a DEF DeleteSLA
<1>20. Untrack(w) => Elsewhere(w)
  BY <1>a DEF Untrack
<1> QED
  BY <1>1, <1>2, <1>3, <1>4, <1>5, <1>6, <1>7, <1>8, <1>9, <1>10, <1>11, <1>12,
     <1>13, <1>14, <1>15, <1>16, <1>17, <1>18, <1>19, <1>20, Calls

Agrees(c) == svc[StoreOf(c)] # 0 => arb[StoreOf(c)] = svc[StoreOf(c)]

LEMMA StoreHere ==
  ASSUME "arbiter" \notin Faults, TypeOK, PartInv, StoreInv, NEW w \in Worker,
         Working(w), NEW c \in Component, c = Comp(w)
  PROVE  StoreAhead(w)' /\ Agrees(c)'
<1> DEFINE Here == StoreAhead(w)' /\ Agrees(c)'
           s == StoreOf(c)
<1> USE DEF outside, docker, boot, memory, locals
<1>t. /\ svc \in [Service -> Nat] /\ arb \in [Service -> Nat]
      /\ Target(w) \in Service /\ s \in Service /\ Main(c) \in Service
      /\ part[w] = "store" => Target(w) = s
      /\ part[w] = "main" => Target(w) = Main(c)
      /\ Main(c) # s /\ part \in [Worker -> {"main", "store"}]
  BY WorkerTypes DEF TypeOK, Target, StoreOf, Main
<1>i. /\ part[w] = "store" => svc[s] = 0
      /\ pc[w] = "storeService" => arb[s] = Launch(w) /\ part[w] = "store"
      /\ svc[s] # 0 => arb[s] = svc[s]
      /\ part[w] = "store" =>
             pc[w] \in {"clearPem", "makePem", "clearKey", "makeKey", "register",
                        "storeService"}
  BY DEF StoreInv, StoreAhead, PartInv
\* A call that leaves the component's store and its token alone.
<1>a. ASSUME NEW from, NEW to, Step(w, from, to), to # "storeService", job' = job,
             part'[w] = part[w] \/ part'[w] # "store",
             arb'[s] = arb[s] \/ svc'[s] = 0, svc'[s] \in {0, svc[s]}
      PROVE  Here
  BY <1>a, <1>i, OneSteps DEF StoreAhead, Agrees, Comp
<1>b. ASSUME NEW from, Finish(w, from), part' = part, arb'[s] = arb[s],
             svc'[s] = svc[s],
             from \notin {"clearPem", "makePem", "clearKey", "makeKey", "register",
                          "storeService"}
      PROVE  Here
  BY <1>b, <1>i, OneFinishes DEF StoreAhead, Agrees, Comp
<1>1. PreConfig(w) => Here
  BY <1>a DEF PreConfig
<1>2. CreateNetwork(w) => Here
  BY <1>a DEF CreateNetwork
<1>3. AttachCoreNetwork(w) => Here
  BY <1>a DEF AttachCoreNetwork
<1>4. Check(w) => Here
  BY <1>a, <1>b, FirstSecretType DEF Check
<1>5. GenorateSecrets(w) => Here
  BY <1>a DEF GenorateSecrets, ClearSecret, MakeSecret
<1>6. ASSUME RegisterToken(w) PROVE Here
  <2>1. pc[w] = "register" /\ arb' = [arb EXCEPT ![Target(w)] = Launch(w)]
    BY <1>6, OneSteps DEF RegisterToken, MayFail
  <2>2. UNCHANGED <<job, part, svc>>
    BY <1>6 DEF RegisterToken
  <2>3. CASE part[w] = "main"
    <3>1. arb'[s] = arb[s] /\ pc'[w] = "connect"
      BY <1>6, <1>t, <2>1, <2>3, OneSteps DEF RegisterToken
    <3> QED
      BY <1>i, <2>2, <2>3, <3>1 DEF StoreAhead, Agrees, Comp
  <2>4. CASE part[w] = "store"
    <3>1. arb'[s] = Launch(w) /\ svc'[s] = 0
      BY <1>t, <1>i, <2>1, <2>2, <2>4
    <3> QED
      BY <2>2, <3>1 DEF StoreAhead, Agrees, Comp, Launch
  <2> QED
    BY <1>t, <2>3, <2>4
<1>7. ConnectEndpoints(w) => Here
  BY <1>a DEF ConnectEndpoints
<1>8. ASSUME LaunchStore(w) PROVE Here
  <2>1. CASE part' = part
    BY <1>8, <1>a, <2>1, FirstSecretType DEF LaunchStore
  <2>2. CASE part' # part
    <3>1. svc[s] = 0 /\ UNCHANGED <<svc, arb, job>>
      BY <1>8, <2>2 DEF LaunchStore
    <3>2. pc'[w] # "storeService"
      BY <1>8, OneSteps, FirstSecretType DEF LaunchStore
    <3> QED
      BY <3>1, <3>2 DEF StoreAhead, Agrees, Comp
  <2> QED
    BY <2>1, <2>2
<1>9. ASSUME CreateStoreService(w) PROVE Here
  <2>1. pc[w] = "storeService" /\ pc'[w] = "grant" /\ part'[w] = "main"
    BY <1>9, <1>t, OneSteps DEF CreateStoreService
  <2>2. arb' = arb /\ svc'[s] \in {svc[s], Launch(w)} /\ arb[s] = Launch(w)
    BY <1>9, <1>t, <1>i, <2>1 DEF CreateStoreService
  <2> QED
    BY <1>i, <2>1, <2>2 DEF StoreAhead, Agrees
<1>10. AddPermissions(w) => Here
  BY <1>a DEF AddPermissions
<1>11. ASSUME CreateService(w) PROVE Here
  <2>1. pc[w] = "create" /\ part[w] = "main"
    BY <1>11, <1>t, <1>i, OneSteps, OneFinishes DEF CreateService
  <2>2. svc'[s] = svc[s] /\ arb' = arb /\ part' = part
    BY <1>11, <1>t, <2>1 DEF CreateService
  <2> QED
    BY <1>11, <1>a, <1>b, <2>2 DEF CreateService
<1>12. SaveSLA(w) => Here
  BY <1>a DEF SaveSLA
<1>13. Track(w) => Here
  BY <1>b DEF Track
<1>14. FindService(w) => Here
  BY <1>a, <1>b DEF FindService
<1>15. RemoveService(w) => Here
  BY <1>a, <1>t DEF RemoveService
<1>16. ListSecrets(w) => Here
  BY <1>a DEF ListSecrets
<1>17. DropSecrets(w) => Here
  BY <1>a DEF DropSecrets
<1>18. Disconnect(w) => Here
  BY <1>a DEF Disconnect
<1>19. DeleteSLA(w) => Here
  BY <1>a DEF DeleteSLA
<1>20. Untrack(w) => Here
  BY <1>b DEF Untrack
<1> QED
  BY <1>1, <1>2, <1>3, <1>4, <1>5, <1>6, <1>7, <1>8, <1>9, <1>10, <1>11, <1>12,
     <1>13, <1>14, <1>15, <1>16, <1>17, <1>18, <1>19, <1>20, Calls

LEMMA StoreStep ==
  ASSUME "arbiter" \notin Faults, TypeOK, SerialInv, StoreInv, [SerialNext]_vars
  PROVE  StoreInv'
<1>i. PartInv /\ OnePerComponent
  BY DEF SerialInv
<1>s. ASSUME NEW w \in Worker
      PROVE  Comp(w) \in Component /\ StoreOf(Comp(w)) \in Service
  BY WorkerTypes DEF StoreOf, Service
\* A command or a spawned goroutine starts: stores and tokens stay as they are.
<1>b. ASSUME NEW w \in Worker, NEW c, NEW save, NEW reload,
             Begins(w, c, save, reload), UNCHANGED <<svc, arb>>
      PROVE  StoreInv'
  <2>1. pc[w] = "idle" /\ pc'[w] # "storeService" /\ part'[w] # "store"
    BY <1>b, <1>i DEF Begins, PartInv
  <2>2. \A v \in Worker \ {w} : StoreAhead(v)'
    BY <1>b DEF Begins, SameFor, StoreInv, StoreAhead, Comp, Launch
  <2> QED
    BY <1>b, <2>1, <2>2 DEF StoreInv, StoreAhead
<1>1. CASE BootStep
  <2>1. UNCHANGED <<pc, part, job>>
    BY <1>1 DEF BootStep, StartServing, ListKeys, ReadSLAs, ReloadApps, Ready, Reboot,
       RebootUnclean, locals
  <2>2. CASE UNCHANGED <<svc, arb>>
    BY <2>1, <2>2 DEF StoreInv, StoreAhead, Comp, Launch
  <2>3. CASE Reboot \/ RebootUnclean
    <3>1. \A c \in Component : svc'[StoreOf(c)] = 0
      BY <2>3 DEF Reboot, RebootUnclean, Service, StoreOf
    <3>2. \A w \in Worker : pc'[w] = "idle" /\ part'[w] = "main"
      BY <2>1, <2>3, <1>i DEF Reboot, RebootUnclean, At, OnePerComponent, AtRest
    <3> QED
      BY <3>1, <3>2 DEF StoreInv, StoreAhead
  <2> QED
    BY <1>1, <2>2, <2>3 DEF BootStep, StartServing, ListKeys, ReadSLAs, ReloadApps,
       Ready, outside, docker
<1>2. CASE Crash
  BY <1>2 DEF Crash, StoreInv, StoreAhead, outside, docker
<1>3. ASSUME NEW w \in Worker, Working(w) PROVE StoreInv'
  <2>1. Moves(w) /\ Elsewhere(w)
    BY <1>3, CallMoves, CallsElsewhere
  <2>2. PICK c \in Component : c = Comp(w)
    BY <1>s
  <2>3. StoreAhead(w)' /\ Agrees(c)'
    BY <1>3, <1>i, <2>2, StoreHere
  <2>4. \A d \in Component \ {c} : /\ arb'[StoreOf(d)] = arb[StoreOf(d)]
                                  /\ svc'[StoreOf(d)] \in {0, svc[StoreOf(d)]}
    BY <2>1, <2>2 DEF Elsewhere, Service, StoreOf
  <2>5. \A d \in Component :
           svc'[StoreOf(d)] # 0 => arb'[StoreOf(d)] = svc'[StoreOf(d)]
    BY <2>3, <2>4 DEF StoreInv, Agrees
  <2>6. ASSUME NEW v \in Worker \ {w} PROVE StoreAhead(v)'
    <3>1. pc'[v] = pc[v] /\ part'[v] = part[v] /\ job'[v] = job[v]
      BY <2>1 DEF Moves, SameFor
    <3>2. CASE Busy(v)
      <4>1. Comp(v) \in Component \ {c}
        BY <3>2, <2>1, <2>2, <1>s, <1>i DEF OnePerComponent, Moves
      <4> QED
        BY <3>1, <4>1, <2>4 DEF StoreInv, StoreAhead, Comp, Launch
    <3>3. CASE ~Busy(v)
      BY <3>1, <3>3, <1>i DEF Busy, PartInv, StoreAhead
    <3> QED
      BY <3>2, <3>3
  <2> QED
    BY <2>3, <2>5, <2>6 DEF StoreInv
<1>4. ASSUME NEW w \in Worker, Spawn(w) PROVE StoreInv'
  <2>1. PICK t \in todo : BeginLaunch(w, t[1], FALSE, t[2])
    BY <1>4 DEF Spawn
  <2>2. t[1] \in Component
    BY DEF TypeOK
  <2> QED
    BY <2>1, <2>2, <1>b, LaunchBegins
<1>5. ASSUME NEW w \in Worker, NEW c \in Component, Install(w, c) \/ Uninstall(w, c)
      PROVE  StoreInv'
  BY <1>5, <1>b, LaunchBegins, UninstallBegins DEF Install
<1>6. CASE UNCHANGED vars
  BY <1>6 DEF vars, StoreInv, StoreAhead, Comp, Launch, outside, docker, locals
<1> QED
  BY <1>1, <1>2, <1>3, <1>4, <1>5, <1>6 DEF SerialNext, WorkerStep, Working

\* Under the discipline a store's token is the one the arbiter holds: the calls
\* of LaunchFromSLA and launchStore register the token before they create the
\* store's service, and never register one for a store that runs.
THEOREM StoreTokensAgree == SerialSpec => []StoreTokenAgreement
<1>1. CASE "arbiter" \in Faults
  <2>1. StoreTokenAgreement
    BY <1>1 DEF StoreTokenAgreement
  <2> QED
    BY <2>1, PTL
<1>2. CASE "arbiter" \notin Faults
  <2>1. SerialInit => StoreInv
    BY NoJobType DEF SerialInit, Init, StoreInv, StoreAhead, Service, StoreOf
  <2>2. TypeOK /\ SerialInv /\ StoreInv /\ [SerialNext]_vars => StoreInv'
    BY <1>2, StoreStep
  <2>3. StoreInv => StoreTokenAgreement
    BY DEF StoreInv, StoreTokenAgreement
  <2> QED
    BY <2>1, <2>2, <2>3, SerialCorrect, PTL DEF SerialSpec
<1> QED
  BY <1>1, <1>2

(***************************************************************************)
(* What the CM lists as installed runs.                                    *)
(***************************************************************************)

\* What a call of w on component c leaves of RunInv's parts.
Keeps(w, c) ==
    /\ \A s \in Service : s[1] # c => svc'[s] = svc[s]
    /\ \A v \in Worker \ {w} : mark'[v] = mark[v]
    /\ installed' \subseteq installed \cup {c}
    /\ lost => lost'
    /\ pc'[w] \in LaunchSteps => job'[w].id # 0
    /\ pc'[w] \in {"save", "track"} => svc'[Main(c)] # 0
    /\ pc'[w] = "remove" => \A x \in mark'[w] : x[1][1] = c
    /\ ~lost' /\ c \in installed' =>
         svc'[Main(c)] # 0 \/ pc'[w] \in UninstallSteps \ {"find", "remove"}

LEMMA RunHere ==
  ASSUME Unprefixed, TypeOK, PartInv, RunInv, NEW w \in Worker,
         Working(w), NEW c \in Component, c = Comp(w),
         \A v \in Worker \ {w} : Busy(v) => Comp(v) # c
  PROVE  Keeps(w, c)
<1> USE DEF outside, docker, boot, memory, locals
<1> DEFINE Late == UninstallSteps \ {"find", "remove"}
<1>t. /\ svc \in [Service -> Nat] /\ mark \in [Worker -> SUBSET (Service \X Nat)]
      /\ Main(c) \in Service /\ Main(c)[1] = c
      /\ Target(w) \in Service /\ Target(w)[1] = c
      /\ part[w] = "main" => Target(w) = Main(c)
      /\ part \in [Worker -> {"main", "store"}]
      /\ \A s \in Service : s[1] \in Component
  BY WorkerTypes DEF TypeOK, Target, Main, Service
<1>i. /\ pc[w] \in LaunchSteps => job[w].id # 0
      /\ pc[w] \in {"save", "track"} => svc[Main(c)] # 0
      /\ pc[w] = "remove" => \A x \in mark[w] : x[1][1] = c
  BY DEF RunInv, Launch
<1>r. ASSUME ~lost, c \in installed, ~(pc[w] \in Late) PROVE svc[Main(c)] # 0
  BY <1>r DEF RunInv, Removed, Busy, UninstallSteps
<1>m. ASSUME NEW S, mark' = [mark EXCEPT ![w] = S]
      PROVE  mark'[w] = S /\ \A v \in Worker \ {w} : mark'[v] = mark[v]
  BY <1>t, <1>m
\* A call of a launch that creates no service of its own.
<1>a. ASSUME NEW from \in LaunchSteps, NEW to, Step(w, from, to),
             to \notin {"save", "track", "remove"},
             \A s \in Service : s # StoreOf(c) => svc'[s] = svc[s],
             UNCHANGED <<job, mark, installed, lost>>
      PROVE  Keeps(w, c)
  <2>1. pc[w] \in LaunchSteps /\ pc[w] \notin Late /\ pc'[w] = to
    BY <1>a, OneSteps DEF LaunchSteps, UninstallSteps
  <2>2. Main(c) # StoreOf(c) /\ StoreOf(c)[1] = c
    BY DEF Main, StoreOf
  <2> QED
    BY <1>a, <1>i, <1>r, <1>t, <2>1, <2>2 DEF Keeps
\* A launch gives up.
<1>b. ASSUME NEW from \in LaunchSteps, Finish(w, from),
             UNCHANGED <<svc, mark, installed, lost>>
      PROVE  Keeps(w, c)
  <2>1. pc[w] \notin Late /\ pc'[w] = "idle"
    BY <1>b, OneFinishes DEF LaunchSteps, UninstallSteps
  <2> QED
    BY <1>b, <1>r, <2>1 DEF Keeps, LaunchSteps
\* A call of an uninstall that has removed the service.
<1>c. ASSUME NEW from \in UninstallSteps, NEW to \in Late, Step(w, from, to),
             \A s \in Service : s[1] # c => svc'[s] = svc[s],
             \A v \in Worker \ {w} : mark'[v] = mark[v],
             UNCHANGED <<installed, lost>>
      PROVE  Keeps(w, c)
  <2>1. pc'[w] = to
    BY <1>c, OneSteps
  <2> QED
    BY <1>c, <2>1 DEF Keeps, LaunchSteps, UninstallSteps
<1> USE DEF LaunchSteps, UninstallSteps
<1>1. PreConfig(w) => Keeps(w, c)
  BY <1>a DEF PreConfig
<1>2. CreateNetwork(w) => Keeps(w, c)
  BY <1>a DEF CreateNetwork
<1>3. AttachCoreNetwork(w) => Keeps(w, c)
  BY <1>a DEF AttachCoreNetwork
<1>4. Check(w) => Keeps(w, c)
  BY <1>a, <1>b, FirstSecretType DEF Check
<1>5. GenorateSecrets(w) => Keeps(w, c)
  BY <1>a DEF GenorateSecrets, ClearSecret, MakeSecret
<1>6. RegisterToken(w) => Keeps(w, c)
  BY <1>a DEF RegisterToken
<1>7. ConnectEndpoints(w) => Keeps(w, c)
  BY <1>a DEF ConnectEndpoints
<1>8. LaunchStore(w) => Keeps(w, c)
  BY <1>a, FirstSecretType DEF LaunchStore
<1>9. ASSUME CreateStoreService(w) PROVE Keeps(w, c)
  <2>1. Target(w) = StoreOf(c)
    BY <1>9, <1>t, OneSteps DEF CreateStoreService, PartInv, Target, StoreOf
  <2>2. \A s \in Service : s # StoreOf(c) => svc'[s] = svc[s]
    BY <1>9, <1>t, <2>1 DEF CreateStoreService
  <2>3. /\ Step(w, "storeService", "grant")
        /\ UNCHANGED <<job, mark, installed, lost>>
    BY <1>9 DEF CreateStoreService
  <2> QED
    BY <1>a, <2>2, <2>3
<1>10. AddPermissions(w) => Keeps(w, c)
  BY <1>a DEF AddPermissions
<1>11. ASSUME CreateService(w) PROVE Keeps(w, c)
  <2>1. pc[w] = "create" /\ Target(w) = Main(c)
    <3>1. pc[w] = "create"
      BY <1>11, OneSteps, OneFinishes DEF CreateService
    <3>2. part[w] = "main"
      BY <1>t, <3>1 DEF PartInv
    <3> QED
      BY <1>t, <3>1, <3>2
  <2>2. UNCHANGED <<mark, installed, lost>>
    BY <1>11 DEF CreateService
  <2>3. CASE svc' = [svc EXCEPT ![Target(w)] = Launch(w)]
    <3>1. svc'[Main(c)] = Launch(w) /\ Launch(w) # 0
      BY <1>t, <1>i, <2>1, <2>3 DEF Launch
    <3>2. \A s \in Service : s[1] # c => svc'[s] = svc[s]
      BY <1>t, <2>1, <2>3
    <3>3. pc'[w] # "remove" /\ (pc'[w] \in LaunchSteps => job'[w] = job[w])
      BY <1>11, <2>1, OneSteps, OneFinishes DEF CreateService
    <3> QED
      BY <1>i, <2>1, <2>2, <3>1, <3>2, <3>3 DEF Keeps
  <2>4. CASE Finish(w, "create") /\ svc' = svc
    BY <1>b, <2>2, <2>4
  <2> QED
    BY <1>11, <2>3, <2>4 DEF CreateService
<1>12. ASSUME SaveSLA(w) PROVE Keeps(w, c)
  <2>1. pc[w] = "save" /\ pc'[w] = "track" /\ UNCHANGED <<svc, mark, installed, lost, job>>
    BY <1>12, OneSteps DEF SaveSLA
  <2> QED
    BY <2>1, <1>i DEF Keeps
<1>13. ASSUME Track(w) PROVE Keeps(w, c)
  <2>1. pc[w] = "track" /\ pc'[w] = "idle" /\ UNCHANGED <<svc, mark>>
    BY <1>13, OneFinishes DEF Track
  <2>2. installed' \subseteq installed \cup {c} /\ (lost => lost')
    BY <1>13 DEF Track, WriteMap
  <2> QED
    BY <2>1, <2>2, <1>i DEF Keeps
<1>14. ASSUME FindService(w) PROVE Keeps(w, c)
  <2>1. pc[w] = "find" /\ UNCHANGED <<svc, installed, lost>>
    BY <1>14, OneSteps, OneFinishes DEF FindService
  <2>2. \A s \in FirstMatches(c) : s[1] = c
    BY <1>t DEF FirstMatches, Matches, Unprefixed
  <2>3. CASE FirstMatches(c) = {} /\ Finish(w, "find") /\ mark' = mark
    <3>1. svc[Main(c)] = 0
      BY <2>3 DEF FirstMatches
    <3>2. ~lost => c \notin installed
      BY <1>r, <2>1, <3>1
    <3> QED
      BY <2>1, <2>3, <3>2, OneFinishes DEF Keeps
  <2>4. CASE \E s \in FirstMatches(c) :
               Step(w, "find", "remove") /\ mark' = [mark EXCEPT ![w] = {<<s, svc[s]>>}]
    <3>1. PICK s \in FirstMatches(c) :
               Step(w, "find", "remove") /\ mark' = [mark EXCEPT ![w] = {<<s, svc[s]>>}]
      BY <2>4
    <3>2. mark'[w] = {<<s, svc[s]>>} /\ \A v \in Worker \ {w} : mark'[v] = mark[v]
      BY <3>1, <1>m
    <3>3. \A x \in mark'[w] : x[1][1] = c
      BY <2>2, <3>2
    <3>4. pc'[w] = "remove"
      BY <3>1, OneSteps
    <3> QED
      BY <1>r, <2>1, <3>2, <3>3, <3>4 DEF Keeps
  <2> QED
    BY <1>14, <2>3, <2>4 DEF FindService
<1>15. ASSUME RemoveService(w) PROVE Keeps(w, c)
  <2>1. pc[w] = "remove"
    BY <1>15, OneSteps DEF RemoveService
  <2>2. ASSUME NEW s \in Service, s[1] # c PROVE svc'[s] = svc[s]
    <3>1. <<s, svc[s]>> \notin mark[w]
      BY <1>i, <2>1, <2>2
    <3> QED
      BY <1>15, <3>1 DEF RemoveService
  <2>3. \A v \in Worker \ {w} : mark'[v] = mark[v]
    BY <1>15, <1>m DEF RemoveService
  <2> QED
    BY <1>15, <1>c, <2>2, <2>3 DEF RemoveService
<1>16. ListSecrets(w) => Keeps(w, c)
  BY <1>c, <1>m DEF ListSecrets
<1>17. DropSecrets(w) => Keeps(w, c)
  BY <1>c, <1>m DEF DropSecrets
<1>18. Disconnect(w) => Keeps(w, c)
  BY <1>c DEF Disconnect
<1>19. DeleteSLA(w) => Keeps(w, c)
  BY <1>c DEF DeleteSLA
<1>20. ASSUME Untrack(w) PROVE Keeps(w, c)
  <2>1. pc[w] = "untrack" /\ pc'[w] = "idle" /\ UNCHANGED <<svc, mark>>
    BY <1>20, OneFinishes DEF Untrack
  <2>2. /\ installed' \subseteq installed /\ (lost => lost')
        /\ lost' \/ c \notin installed'
    BY <1>20 DEF Untrack, WriteMap
  <2> QED
    BY <2>1, <2>2 DEF Keeps
<1> QED
  BY <1>1, <1>2, <1>3, <1>4, <1>5, <1>6, <1>7, <1>8, <1>9, <1>10, <1>11, <1>12,
     <1>13, <1>14, <1>15, <1>16, <1>17, <1>18, <1>19, <1>20, Calls

LEMMA RunCalls ==
  ASSUME Unprefixed, TypeOK, PartInv, OnePerComponent, RunInv, NEW w \in Worker,
         Working(w)
  PROVE  RunInv'
<1>1. Moves(w)
  BY CallMoves
<1>2. PICK c \in Component : c = Comp(w)
  BY WorkerTypes
<1>3. \A v \in Worker \ {w} : Busy(v) => Comp(v) \in Component \ {c}
  BY <1>1, <1>2, WorkerTypes DEF OnePerComponent, Moves
<1>4. Keeps(w, c)
  BY <1>2, <1>3, RunHere
<1>5. phase' \notin {"down", "boot"}
  BY <1>1 DEF OnePerComponent, AtRest, Moves, Busy
<1>6. \A d \in Component \ {c} : svc'[Main(d)] = svc[Main(d)]
  BY <1>4 DEF Keeps, Main, Service
<1>7. pc'[w] = "idle" \/ (Comp(w)' = c /\ Launch(w)' = job'[w].id)
  BY <1>1, <1>2 DEF Moves, Comp, Launch
<1>8. ASSUME NEW v \in Worker
      PROVE  /\ pc'[v] \in LaunchSteps => Launch(v)' # 0
             /\ pc'[v] \in {"save", "track"} => svc'[Main(Comp(v)')] # 0
             /\ pc'[v] = "remove" => \A x \in mark'[v] : x[1][1] = Comp(v)'
  <2>1. CASE v = w
    BY <1>4, <1>7, <2>1 DEF Keeps, LaunchSteps
  <2>2. CASE v # w
    <3>1. pc'[v] = pc[v] /\ Comp(v)' = Comp(v) /\ Launch(v)' = Launch(v) /\ mark'[v] = mark[v]
      BY <1>1, <1>4, <2>2 DEF Moves, Keeps, SameFor, Comp, Launch
    <3>2. Busy(v) => svc'[Main(Comp(v))] = svc[Main(Comp(v))]
      BY <1>3, <1>6, <2>2
    <3> QED
      BY <3>1, <3>2 DEF RunInv, Busy
  <2> QED
    BY <2>1, <2>2
<1>9. ASSUME ~lost', NEW d \in installed'
      PROVE  svc'[Main(d)] # 0 \/ \E v \in Worker : (Comp(v) = d /\ Removed(v))'
  <2>1. CASE d = c
    BY <1>4, <1>7, <1>9, <2>1 DEF Keeps, Removed, UninstallSteps
  <2>2. CASE d # c
    <3>1. d \in installed /\ d \in Component /\ ~lost
      BY <1>4, <1>9, <2>2 DEF Keeps, TypeOK
    <3>2. CASE svc[Main(d)] # 0
      BY <1>6, <2>2, <3>1, <3>2
    <3>3. CASE svc[Main(d)] = 0
      <4>1. PICK v \in Worker : Comp(v) = d /\ Removed(v)
        BY <3>1, <3>3 DEF RunInv
      <4>2. v # w
        BY <1>2, <2>2, <4>1
      <4> QED
        BY <1>1, <4>1, <4>2 DEF Moves, SameFor, Comp, Removed
    <3> QED
      BY <3>2, <3>3
  <2> QED
    BY <2>1, <2>2
<1> QED
  BY <1>5, <1>8, <1>9 DEF RunInv

LEMMA RunBegins ==
  ASSUME TypeOK, OnePerComponent, RunInv, NEW w \in Worker, NEW c, NEW save, NEW reload,
         Begins(w, c, save, reload),
         pc'[w] = "preconfig" => job'[w].id # 0,
         UNCHANGED <<phase, svc, installed, lost, mark>>
  PROVE  RunInv'
<1>1. /\ pc[w] = "idle" /\ pc'[w] \in {"preconfig", "find"}
      /\ \A v \in Worker \ {w} : pc'[v] = pc[v] /\ job'[v] = job[v]
  BY DEF Begins, SameFor
<1>2. ASSUME NEW v \in Worker
      PROVE  /\ pc'[v] \in LaunchSteps => Launch(v)' # 0
             /\ pc'[v] \in {"save", "track"} => svc'[Main(Comp(v)')] # 0
             /\ pc'[v] = "remove" => \A x \in mark'[v] : x[1][1] = Comp(v)'
  <2>1. CASE v = w
    BY <1>1, <2>1 DEF LaunchSteps, Launch
  <2>2. CASE v # w
    BY <1>1, <2>2 DEF RunInv, Comp, Launch
  <2> QED
    BY <2>1, <2>2
<1>3. \A v \in Worker : Removed(v) => Removed(v)' /\ Comp(v)' = Comp(v)
  BY <1>1 DEF Removed, UninstallSteps, Comp
<1> QED
  BY <1>2, <1>3 DEF RunInv

LEMMA RunStep ==
  ASSUME Unprefixed, TypeOK, SerialInv, RunInv, [SerialNext]_vars
  PROVE  RunInv'
<1>i. PartInv /\ OnePerComponent
  BY DEF SerialInv
<1>l. ASSUME NEW w \in Worker, NEW c \in Component, NEW save, NEW reload,
             BeginLaunch(w, c, save, reload)
      PROVE  RunInv'
  <2>1. job'[w].id # 0
    BY <1>l DEF BeginLaunch, TypeOK
  <2>2. UNCHANGED <<phase, svc, installed, lost, mark>>
    BY <1>l DEF BeginLaunch, outside, docker, memory
  <2> QED
    BY <1>i, <1>l, <2>1, <2>2, LaunchBegins, RunBegins
<1>1. CASE BootStep
  <2>1. UNCHANGED <<pc, job, mark, installed, lost>>
    BY <1>1 DEF BootStep, StartServing, ListKeys, ReadSLAs, ReloadApps, Ready, Reboot,
       RebootUnclean, locals, memory
  <2>2. CASE Reboot \/ RebootUnclean
    <3>1. phase = "down" /\ installed = {} /\ \A w \in Worker : pc[w] = "idle"
      BY <2>2, <1>i DEF Reboot, RebootUnclean, At, RunInv, OnePerComponent, AtRest
    <3> QED
      BY <2>1, <3>1 DEF RunInv, LaunchSteps
  <2>3. CASE svc' = svc /\ phase' \notin {"down", "boot"}
    BY <2>1, <2>3 DEF RunInv, Comp, Launch, Removed
  <2> QED
    BY <1>1, <2>2, <2>3 DEF BootStep, StartServing, ListKeys, ReadSLAs, ReloadApps,
       Ready, At, outside, docker
<1>2. CASE Crash
  BY <1>2 DEF Crash, RunInv, LaunchSteps
<1>3. ASSUME NEW w \in Worker, Working(w) PROVE RunInv'
  BY <1>i, <1>3, RunCalls
<1>4. ASSUME NEW w \in Worker, Spawn(w) PROVE RunInv'
  <2>1. PICK t \in todo : BeginLaunch(w, t[1], FALSE, t[2])
    BY <1>4 DEF Spawn
  <2>2. t[1] \in Component
    BY DEF TypeOK
  <2> QED
    BY <1>l, <2>1, <2>2
<1>5. ASSUME NEW w \in Worker, NEW c \in Component, Install(w, c) PROVE RunInv'
  BY <1>5, <1>l DEF Install
<1>6. ASSUME NEW w \in Worker, NEW c \in Component, Uninstall(w, c) PROVE RunInv'
  <2>1. UNCHANGED <<phase, svc, installed, lost, mark>> /\ pc'[w] # "preconfig"
    BY <1>6, OneSteps DEF Uninstall, outside, docker, boot, memory
  <2> QED
    BY <1>i, <1>6, <2>1, UninstallBegins, RunBegins
<1>7. CASE UNCHANGED vars
  BY <1>7 DEF vars, RunInv, Comp, Launch, Removed, outside, docker, boot, memory, locals
<1> QED
  BY <1>1, <1>2, <1>3, <1>4, <1>5, <1>6, <1>7 DEF SerialNext, WorkerStep, Working

\* Under the discipline, a component the CM lists as installed is running or is
\* just being uninstalled: Track comes after the service is created, Untrack
\* after it is removed, and nothing else touches a component meanwhile.  Names
\* that others start with, and a write the map loses, are the exceptions.
THEOREM InstalledRuns == SerialSpec => []InstalledIsRunning
<1>1. CASE ~Unprefixed
  <2>1. InstalledIsRunning
    BY <1>1 DEF InstalledIsRunning, Unprefixed
  <2> QED
    BY <2>1, PTL
<1>2. CASE Unprefixed
  <2>1. SerialInit => RunInv
    BY DEF SerialInit, Init, RunInv, LaunchSteps
  <2>2. TypeOK /\ SerialInv /\ RunInv /\ [SerialNext]_vars => RunInv'
    BY <1>2, RunStep
  <2>3. RunInv => InstalledIsRunning
    BY DEF RunInv, InstalledIsRunning, Removed
  <2> QED
    BY <2>1, <2>2, <2>3, SerialCorrect, PTL DEF SerialSpec
<1> QED
  BY <1>1, <1>2
=============================================================================
