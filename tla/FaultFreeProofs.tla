--------------------------- MODULE FaultFreeProofs ---------------------------
(***************************************************************************)
(* Theorems of ContainerManager under the discipline of SerialSpec, for a  *)
(* system in which no call fails but the process may crash at any moment.  *)
(***************************************************************************)
EXTENDS DisciplineProofs

(***************************************************************************)
(* Every component is given the core network's address.                    *)
(***************************************************************************)
LEMMA DNSCalls ==
  ASSUME Faults = {}, TypeOK, OnePerComponent, DNSInv, NEW w \in Worker, Working(w)
  PROVE  DNSInv'
<1> USE NoJobType DEF outside, docker, boot, memory, locals
<1>m. Moves(w)
  BY CallMoves
<1>o. \A v \in Worker \ {w} : /\ pc'[v] = pc[v] /\ Comp(v)' = Comp(v)
                              /\ Busy(v) => Comp(v) # Comp(w)
  BY <1>m DEF Moves, SameFor, Comp, OnePerComponent
<1>c. \A v \in Worker : Comp(v) \in Component
  BY WorkerTypes
<1>n. net \in [Component -> {"none", "bare", "attached"}] /\ phase # "down" /\ phase' = phase
  BY <1>m DEF TypeOK, Moves, OnePerComponent, AtRest, Busy
\* A call that has nothing to do with the network.
<1>a. ASSUME NEW from, Step(w, from, pc'[w]), from # "attachNet", pc'[w] # "createNet",
             UNCHANGED <<net, blind>>
      PROVE  DNSInv'
  BY <1>a, <1>o, <1>n, OneSteps DEF DNSInv
<1>b. ASSUME NEW from, NEW to, Step(w, from, to), from # "attachNet", to # "createNet",
             UNCHANGED <<net, blind>>
      PROVE  DNSInv'
  <2>1. pc'[w] = to
    BY <1>b, OneSteps
  <2> QED
    BY <1>a, <1>b, <2>1
<1>f. ASSUME NEW from, Finish(w, from), from # "attachNet", UNCHANGED <<net, blind>>
      PROVE  DNSInv'
  BY <1>f, <1>b DEF Finish
<1>1. ASSUME PreConfig(w) PROVE DNSInv'
  <2>1. CASE net[Comp(w)] = "none" /\ Step(w, "preconfig", "createNet") /\ blind' = blind
    <3>1. pc[w] = "preconfig" /\ pc'[w] = "createNet"
      BY <2>1, OneSteps
    <3>2. UNCHANGED <<net, job>>
      BY <1>1 DEF PreConfig
    <3> QED
      BY <2>1, <3>1, <3>2, <1>o, <1>n DEF DNSInv, Comp
  <2>2. CASE net[Comp(w)] # "none" /\ Step(w, "preconfig", "check")
    <3>1. pc[w] = "preconfig"
      BY <2>2, OneSteps
    <3>2. net[Comp(w)] # "bare"
      BY <1>o, <1>n, <1>c, <3>1 DEF DNSInv, Busy
    <3>3. UNCHANGED <<net, blind>>
      BY <1>1, <1>n, <1>c, <2>2, <3>1, <3>2, OneSteps DEF PreConfig, MayFail
    <3> QED
      BY <1>b, <2>2, <3>3
  <2> QED
    BY <1>1, <2>1, <2>2 DEF PreConfig
<1>2. ASSUME CreateNetwork(w) PROVE DNSInv'
  <2>1. pc[w] = "createNet" /\ net[Comp(w)] = "none"
    BY <1>2, OneSteps DEF CreateNetwork, DNSInv
  <2>2. /\ pc'[w] = "attachNet" /\ blind' = blind /\ job' = job
        /\ net' = [net EXCEPT ![Comp(w)] = "bare"]
    BY <1>2, <2>1, OneSteps DEF CreateNetwork, MayFail
  <2> QED
    BY <1>c, <1>o, <1>n, <2>1, <2>2 DEF DNSInv, Comp, Busy
<1>3. ASSUME AttachCoreNetwork(w) PROVE DNSInv'
  <2>1. pc[w] = "attachNet" /\ pc'[w] = "check"
    BY <1>3, OneSteps DEF AttachCoreNetwork
  <2>2. blind' = blind /\ job' = job /\ net' = [net EXCEPT ![Comp(w)] = "attached"]
    BY <1>3 DEF AttachCoreNetwork, MayFail
  <2> QED
    BY <1>c, <1>o, <1>n, <2>1, <2>2 DEF DNSInv, Comp, Busy
<1>4. Check(w) => DNSInv'
  BY <1>b, <1>f, FirstSecretType DEF Check
<1>5. GenorateSecrets(w) => DNSInv'
  BY <1>b DEF GenorateSecrets, ClearSecret, MakeSecret
<1>6. RegisterToken(w) => DNSInv'
  BY <1>b DEF RegisterToken
<1>7. ConnectEndpoints(w) => DNSInv'
  BY <1>b DEF ConnectEndpoints
<1>8. LaunchStore(w) => DNSInv'
  BY <1>b, FirstSecretType DEF LaunchStore
<1>9. CreateStoreService(w) => DNSInv'
  BY <1>b DEF CreateStoreService
<1>10. AddPermissions(w) => DNSInv'
  BY <1>b DEF AddPermissions
<1>11. CreateService(w) => DNSInv'
  BY <1>b, <1>f DEF CreateService
<1>12. SaveSLA(w) => DNSInv'
  BY <1>b DEF SaveSLA
<1>13. Track(w) => DNSInv'
  BY <1>f DEF Track
<1>14. FindService(w) => DNSInv'
  BY <1>b, <1>f DEF FindService
<1>15. RemoveService(w) => DNSInv'
  BY <1>b DEF RemoveService
<1>16. ListSecrets(w) => DNSInv'
  BY <1>b DEF ListSecrets
<1>17. DropSecrets(w) => DNSInv'
  BY <1>b DEF DropSecrets
<1>18. Disconnect(w) => DNSInv'
  BY <1>b DEF Disconnect
<1>19. DeleteSLA(w) => DNSInv'
  BY <1>b DEF DeleteSLA
<1>20. Untrack(w) => DNSInv'
  BY <1>f DEF Untrack
<1> QED
  BY <1>1, <1>2, <1>3, <1>4, <1>5, <1>6, <1>7, <1>8, <1>9, <1>10, <1>11, <1>12,
     <1>13, <1>14, <1>15, <1>16, <1>17, <1>18, <1>19, <1>20, Calls

LEMMA DNSStep ==
  ASSUME Faults = {}, TypeOK, SerialInv, DNSInv, [SerialNext]_vars
  PROVE  DNSInv'
<1>i. OnePerComponent
  BY DEF SerialInv
<1>b. ASSUME NEW w \in Worker, NEW c, NEW save, NEW reload,
             Begins(w, c, save, reload), UNCHANGED <<phase, net, blind>>
      PROVE  DNSInv'
  BY <1>b DEF Begins, SameFor, DNSInv, Comp
<1>l. ASSUME NEW w \in Worker, NEW c \in Component, NEW save, NEW reload,
             BeginLaunch(w, c, save, reload)
      PROVE  DNSInv'
  <2>1. UNCHANGED <<phase, net, blind>>
    BY <1>l DEF BeginLaunch, outside, docker
  <2> QED
    BY <1>b, <1>l, <2>1, LaunchBegins
<1>1. CASE BootStep
  <2>1. UNCHANGED <<pc, job>>
    BY <1>1 DEF BootStep, StartServing, ListKeys, ReadSLAs, ReloadApps, Ready, Reboot,
       RebootUnclean, locals
  <2>2. CASE Reboot \/ RebootUnclean
    <3>1. /\ net' = [c \in Component |-> "none"] /\ blind' = {}
          /\ \A w \in Worker : pc[w] = "idle"
      BY <2>2, <1>i DEF Reboot, RebootUnclean, MayFail, At, OnePerComponent, AtRest
    <3> QED
      BY <2>1, <3>1 DEF DNSInv
  <2>3. CASE UNCHANGED <<net, blind>> /\ phase # "down"
    BY <2>1, <2>3 DEF DNSInv, Comp
  <2> QED
    BY <1>1, <2>2, <2>3 DEF BootStep, StartServing, ListKeys, ReadSLAs, ReloadApps,
       Ready, At, outside, docker
<1>2. CASE Crash
  BY <1>2 DEF Crash, DNSInv
<1>3. ASSUME NEW w \in Worker, Working(w) PROVE DNSInv'
  BY <1>i, <1>3, DNSCalls
<1>4. ASSUME NEW w \in Worker, Spawn(w) PROVE DNSInv'
  <2>1. PICK t \in todo : BeginLaunch(w, t[1], FALSE, t[2])
    BY <1>4 DEF Spawn
  <2>2. t[1] \in Component
    BY DEF TypeOK
  <2> QED
    BY <1>l, <2>1, <2>2
<1>5. ASSUME NEW w \in Worker, NEW c \in Component, Install(w, c) PROVE DNSInv'
  BY <1>5, <1>l DEF Install
<1>6. ASSUME NEW w \in Worker, NEW c \in Component, Uninstall(w, c) PROVE DNSInv'
  <2>1. UNCHANGED <<phase, net, blind>>
    BY <1>6 DEF Uninstall, outside, docker, boot
  <2> QED
    BY <1>b, <1>6, <2>1, UninstallBegins
<1>7. CASE UNCHANGED vars
  BY <1>7 DEF vars, DNSInv, Comp, outside, docker, boot, locals
<1> QED
  BY <1>1, <1>2, <1>3, <1>4, <1>5, <1>6, <1>7 DEF SerialNext, WorkerStep, Working

\* Under the discipline and with no failing call, no component runs without the
\* core network's address, whenever crashes hit: a network found half made is one
\* that a crash left, and the boot removes it.
THEOREM AllKnowDNS == SerialSpec => []StartedWithDNS
<1>1. CASE Faults # {}
  <2>1. StartedWithDNS
    BY <1>1 DEF StartedWithDNS
  <2> QED
    BY <2>1, PTL
<1>2. CASE Faults = {}
  <2>1. SerialInit => DNSInv
    BY DEF SerialInit, Init, DNSInv
  <2>2. TypeOK /\ SerialInv /\ DNSInv /\ [SerialNext]_vars => DNSInv'
    BY <1>2, DNSStep
  <2>3. DNSInv => StartedWithDNS
    BY DEF DNSInv, StartedWithDNS
  <2> QED
    BY <2>1, <2>2, <2>3, SerialCorrect, PTL DEF SerialSpec
<1> QED
  BY <1>1, <1>2

(***************************************************************************)
(* What a launch wants to create a service with.                           *)
(***************************************************************************)

\* CreatableInv in terms of what it looks at: the program counter and part of a
\* launch, the service of its component, its secrets and its network.
Wanted(p, q, service, pem, key, network, id) ==
    /\ p # "preconfig" /\ p # "createNet" => network # "none"
    /\ service = 0 =>
         /\ "pem" \in Kind /\ p = "makePem" /\ q = "main" => pem = 0
         /\ p = "makeKey" /\ q = "main" => key = 0
         /\ "pem" \in Kind /\ (q = "store" \/
              p \in {"clearKey", "makeKey", "register", "connect", "store", "grant",
                     "create"}) => pem = id
         /\ q = "store" \/ p \in {"register", "connect", "store", "grant", "create"} =>
              key = id

LEMMA WantedCalls ==
  ASSUME Faults = {}, TypeOK, PartInv, NEW w \in Worker, Working(w),
         NEW c \in Component, c = Comp(w), NEW S \in Service, S = Main(c),
         NEW Pem, Pem = <<S, "pem">>, NEW Key, Key = <<S, "key">>,
         pc[w] \in LaunchSteps =>
           Wanted(pc[w], part[w], svc[S], secret[Pem], secret[Key], net[c], Launch(w)),
         pc'[w] \in LaunchSteps
  PROVE  Wanted(pc'[w], part'[w], svc'[S], secret'[Pem], secret'[Key], net'[c], Launch(w))
<1> DEFINE Now == Wanted(pc[w], part[w], svc[S], secret[Pem], secret[Key], net[c],
                         Launch(w))
           Then == Wanted(pc'[w], part'[w], svc'[S], secret'[Pem], secret'[Key], net'[c],
                          Launch(w))
<1>s. pc'[w] \in LaunchSteps /\ (pc[w] \in LaunchSteps => Now)
  OBVIOUS
<1>t. /\ part[w] \in {"main", "store"}
      /\ part[w] = "store" => pc[w] \in {"clearPem", "makePem", "clearKey", "makeKey",
                                         "register", "storeService"}
      /\ pc[w] = "storeService" => part[w] = "store"
  BY DEF TypeOK, PartInv
<1>k. /\ svc \in [Service -> Nat] /\ secret \in [Service \X Kind -> Nat]
      /\ net \in [Component -> {"none", "bare", "attached"}]
      /\ c \in Component /\ S \in Service /\ Target(w) \in Service
      /\ Key \in Service \X Kind /\ ("pem" \in Kind => Pem \in Service \X Kind)
      /\ part[w] = "main" => Target(w) = S
      /\ part[w] = "store" => Target(w) # S
  BY WorkerTypes, ConstantsAssumption DEF TypeOK, Target, Main
<1> USE DEF outside, docker, boot, memory, locals, LaunchSteps, Wanted
\* The docker part is left alone and the launch has as much to show.
<1>a. ASSUME NEW from \in LaunchSteps, NEW to, Step(w, from, to),
             UNCHANGED <<docker, part>>
      PROVE  pc[w] = from /\ pc'[w] = to /\ Now /\ part'[w] = part[w] /\ svc'[S] = svc[S]
             /\ secret'[Pem] = secret[Pem] /\ secret'[Key] = secret[Key] /\ net'[c] = net[c]
  BY <1>a, <1>s, OneSteps
\* An uninstall or the last call of a launch.
<1>f. ASSUME NEW from, NEW to, to \notin LaunchSteps, Step(w, from, to)
      PROVE  FALSE
  BY <1>f, <1>s, OneSteps
<1>g. ASSUME NEW from, Finish(w, from) PROVE FALSE
  BY <1>f, <1>g DEF Finish
<1>1. ASSUME PreConfig(w) PROVE Then
  <2>1. UNCHANGED <<docker, part>>
    BY <1>1 DEF PreConfig
  <2>2. CASE net[c] = "none" /\ Step(w, "preconfig", "createNet")
    BY <2>1, <2>2, <1>t, <1>a
  <2>3. CASE net[c] # "none" /\ Step(w, "preconfig", "check")
    BY <2>1, <2>3, <1>t, <1>a
  <2> QED
    BY <1>1, <2>2, <2>3 DEF PreConfig
<1>2. ASSUME CreateNetwork(w) PROVE Then
  <2>1. /\ pc[w] = "createNet" /\ net'[c] # "none" /\ pc'[w] \in {"attachNet", "check"}
        /\ UNCHANGED <<svc, secret, part>>
    BY <1>2, <1>k, OneSteps DEF CreateNetwork, MayFail
  <2> QED
    BY <2>1, <1>t
<1>3. ASSUME AttachCoreNetwork(w) PROVE Then
  <2>1. /\ pc[w] = "attachNet" /\ net'[c] # "none" /\ pc'[w] = "check"
        /\ UNCHANGED <<svc, secret, part>>
    BY <1>3, <1>k, OneSteps DEF AttachCoreNetwork, MayFail
  <2> QED
    BY <2>1, <1>t
<1>4. ASSUME Check(w) PROVE Then
  <2>1. /\ Step(w, "check", FirstSecret) /\ UNCHANGED <<docker, part>>
    BY <1>4, <1>g DEF Check
  <2>2. FirstSecret \in {"clearPem", "clearKey"}
    BY DEF FirstSecret
  <2>3. /\ pc[w] = "check" /\ pc'[w] = FirstSecret /\ Now
        /\ UNCHANGED <<docker, part>>
    BY <2>1, <1>a
  <2> QED
    BY <2>2, <2>3, <1>t DEF FirstSecret
<1>5. ASSUME GenorateSecrets(w) PROVE Then
  <2>u. UNCHANGED <<svc, net, part>>
    BY <1>5 DEF GenorateSecrets, ClearSecret, MakeSecret
  <2>1. CASE ClearSecret(w, "pem", "clearPem", "makePem")
    <3>1. pc[w] = "clearPem" /\ pc'[w] = "makePem"
      BY <2>1, OneSteps DEF ClearSecret
    <3>2. /\ part[w] = "main" /\ svc[S] = 0 /\ "pem" \in Kind => secret'[Pem] = 0
          /\ part[w] = "store" /\ "pem" \in Kind => secret'[Pem] = secret[Pem]
          /\ secret'[Key] = secret[Key]
      BY <2>1, <1>k DEF ClearSecret, InUse, MayFail
    <3> QED
      BY <1>s, <1>t, <2>u, <3>1, <3>2
  <2>2. CASE MakeSecret(w, "pem", "makePem", "clearKey")
    <3>1. pc[w] = "makePem" /\ pc'[w] = "clearKey"
      BY <2>2, OneSteps DEF MakeSecret
    <3>2. /\ part[w] = "main" /\ "pem" \in Kind /\ secret[Pem] = 0 =>
               secret'[Pem] = Launch(w)
          /\ part[w] = "store" /\ "pem" \in Kind => secret'[Pem] = secret[Pem]
          /\ secret'[Key] = secret[Key]
      BY <2>2, <1>k DEF MakeSecret, MayFail
    <3> QED
      BY <1>s, <1>t, <2>u, <3>1, <3>2
  <2>3. CASE ClearSecret(w, "key", "clearKey", "makeKey")
    <3>1. pc[w] = "clearKey" /\ pc'[w] = "makeKey"
      BY <2>3, OneSteps DEF ClearSecret
    <3>2. /\ part[w] = "main" /\ svc[S] = 0 => secret'[Key] = 0
          /\ part[w] = "store" => secret'[Key] = secret[Key]
          /\ "pem" \in Kind => secret'[Pem] = secret[Pem]
      BY <2>3, <1>k DEF ClearSecret, InUse, MayFail
    <3> QED
      BY <1>s, <1>t, <2>u, <3>1, <3>2
  <2>4. CASE MakeSecret(w, "key", "makeKey", "register")
    <3>1. pc[w] = "makeKey" /\ pc'[w] = "register"
      BY <2>4, OneSteps DEF MakeSecret
    <3>2. /\ part[w] = "main" /\ secret[Key] = 0 => secret'[Key] = Launch(w)
          /\ part[w] = "store" => secret'[Key] = secret[Key]
          /\ "pem" \in Kind => secret'[Pem] = secret[Pem]
      BY <2>4, <1>k DEF MakeSecret, MayFail
    <3> QED
      BY <1>s, <1>t, <2>u, <3>1, <3>2
  <2> QED
    BY <1>5, <2>1, <2>2, <2>3, <2>4 DEF GenorateSecrets
<1>6. ASSUME RegisterToken(w) PROVE Then
  BY <1>6, <1>t, <1>a DEF RegisterToken
<1>7. ASSUME ConnectEndpoints(w) PROVE Then
  BY <1>7, <1>t, <1>a DEF ConnectEndpoints
<1>8. ASSUME LaunchStore(w) PROVE Then
  <2>1. pc[w] = "store" /\ UNCHANGED docker /\ pc'[w] \in {"grant", "clearPem", "clearKey"}
    BY <1>8, OneSteps DEF LaunchStore, FirstSecret
  <2> QED
    BY <1>s, <1>t, <2>1
<1>9. ASSUME CreateStoreService(w) PROVE Then
  <2>1. pc[w] = "storeService" /\ pc'[w] = "grant" /\ UNCHANGED <<secret, net>>
    BY <1>9, OneSteps DEF CreateStoreService
  <2>2. svc'[S] = svc[S]
    BY <1>9, <1>t, <1>k, <2>1 DEF CreateStoreService
  <2> QED
    BY <1>s, <1>t, <2>1, <2>2
<1>10. ASSUME AddPermissions(w) PROVE Then
  BY <1>10, <1>t, <1>a DEF AddPermissions
<1>11. ASSUME CreateService(w) PROVE Then
  <2>1. /\ pc[w] = "create" /\ pc'[w] \in {"save", "track"}
        /\ UNCHANGED <<secret, net, part>>
    BY <1>11, <1>g, OneSteps DEF CreateService
  <2> QED
    BY <1>s, <1>t, <2>1
<1>12. ASSUME SaveSLA(w) PROVE Then
  BY <1>12, <1>t, <1>a DEF SaveSLA
<1>13. Track(w) => FALSE
  BY <1>g DEF Track
<1>14. UninstallStep(w) => FALSE
  BY <1>f, <1>g DEF UninstallStep, FindService, RemoveService, ListSecrets, DropSecrets,
     Disconnect, DeleteSLA, Untrack
<1> QED
  BY <1>1, <1>2, <1>3, <1>4, <1>5, <1>6, <1>7, <1>8, <1>9, <1>10, <1>11, <1>12,
     <1>13, <1>14 DEF Working, LaunchStep

LEMMA CreatableCalls ==
  ASSUME Faults = {}, TypeOK, PartInv, NEW w \in Worker, Working(w), CreatableInv(w)
  PROVE  CreatableInv(w)'
<1>1. PICK c \in Component : c = Comp(w)
  BY WorkerTypes
<1>2. PICK S \in Service : S = Main(c)
  BY DEF Main, Service
<1>3. ASSUME pc'[w] \in LaunchSteps PROVE CreatableInv(w)'
  <2>1. Comp(w)' = c /\ Launch(w)' = Launch(w)
    BY <1>1, <1>3, CallMoves DEF Moves, Comp, Launch, LaunchSteps
  <2>2. pc[w] \in LaunchSteps =>
          Wanted(pc[w], part[w], svc[S], secret[<<S, "pem">>], secret[<<S, "key">>],
                 net[c], Launch(w))
    BY <1>1, <1>2 DEF CreatableInv, Wanted, SecretMade, SecretClear
  <2>3. Wanted(pc'[w], part'[w], svc'[S], secret'[<<S, "pem">>], secret'[<<S, "key">>],
               net'[c], Launch(w))
    BY <1>1, <1>2, <1>3, <2>2, WantedCalls
  <2> QED
    BY <1>2, <2>1, <2>3 DEF CreatableInv, Wanted, SecretMade, SecretClear
<1>4. CASE pc'[w] \notin LaunchSteps
  BY <1>4 DEF CreatableInv
<1> QED
  BY <1>3, <1>4

(***************************************************************************)
(* The core network connects what runs.                                    *)
(***************************************************************************)

\* What a call of w on c does to other components.
Apart(c) ==
    /\ \A s \in Service : s[1] # c => \A k \in Kind : secret'[<<s, k>>] = secret[<<s, k>>]
    /\ \A d \in Component : d # c => net'[d] = net[d]
    /\ \A e \in conn' : e[1] # c => e \in conn

LEMMA CallsApart ==
  ASSUME TypeOK, NEW w \in Worker, Working(w), NEW c \in Component, c = Comp(w),
         pc[w] = "dropSecrets" => \A x \in mark[w] : x[1][1] = c
  PROVE  Apart(c)
<1> USE DEF outside, docker, Apart
<1>k. /\ secret \in [Service \X Kind -> Nat] /\ Target(w) \in Service /\ Target(w)[1] = c
      /\ net \in [Component -> {"none", "bare", "attached"}]
  BY WorkerTypes DEF TypeOK
<1>a. UNCHANGED <<secret, net, conn>> => Apart(c)
  OBVIOUS
<1>1. PreConfig(w) => Apart(c)
  BY <1>a DEF PreConfig
<1>2. CreateNetwork(w) => Apart(c)
  BY <1>k DEF CreateNetwork
<1>3. AttachCoreNetwork(w) => Apart(c)
  BY <1>k DEF AttachCoreNetwork
<1>4. Check(w) => Apart(c)
  BY <1>a DEF Check
<1>5. GenorateSecrets(w) => Apart(c)
  <2>1. ASSUME NEW k, NEW id, secret' = [secret EXCEPT ![<<Target(w), k>>] = id],
               UNCHANGED <<net, conn>>
        PROVE  Apart(c)
    BY <2>1, <1>k
  <2> QED
    BY <2>1, <1>a DEF GenorateSecrets, ClearSecret, MakeSecret
<1>6. RegisterToken(w) => Apart(c)
  BY <1>a DEF RegisterToken
<1>7. ConnectEndpoints(w) => Apart(c)
  BY DEF ConnectEndpoints
<1>8. LaunchStore(w) => Apart(c)
  BY <1>a DEF LaunchStore
<1>9. CreateStoreService(w) => Apart(c)
  BY <1>a DEF CreateStoreService
<1>10. AddPermissions(w) => Apart(c)
  BY DEF AddPermissions
<1>11. CreateService(w) => Apart(c)
  BY <1>a DEF CreateService
<1>12. SaveSLA(w) => Apart(c)
  BY <1>a DEF SaveSLA
<1>13. Track(w) => Apart(c)
  BY <1>a DEF Track
<1>14. FindService(w) => Apart(c)
  BY <1>a DEF FindService
<1>15. RemoveService(w) => Apart(c)
  BY <1>a DEF RemoveService
<1>16. ListSecrets(w) => Apart(c)
  BY <1>a DEF ListSecrets
<1>17. ASSUME DropSecrets(w) PROVE Apart(c)
  <2>1. pc[w] = "dropSecrets" /\ UNCHANGED <<net, conn>>
    BY <1>17, OneSteps DEF DropSecrets
  <2>2. ASSUME NEW s \in Service, s[1] # c, NEW k \in Kind
        PROVE  secret'[<<s, k>>] = secret[<<s, k>>]
    <3>1. <<s, secret[<<s, k>>]>> \notin mark[w]
      BY <2>1, <2>2
    <3> QED
      BY <1>17, <2>2, <3>1 DEF DropSecrets
  <2> QED
    BY <2>1, <2>2
<1>18. Disconnect(w) => Apart(c)
  BY DEF Disconnect
<1>19. DeleteSLA(w) => Apart(c)
  BY <1>a DEF DeleteSLA
<1>20. Untrack(w) => Apart(c)
  BY <1>a DEF Untrack
<1> QED
  BY <1>1, <1>2, <1>3, <1>4, <1>5, <1>6, <1>7, <1>8, <1>9, <1>10, <1>11, <1>12,
     <1>13, <1>14, <1>15, <1>16, <1>17, <1>18, <1>19, <1>20, Calls

\* ConnInv in terms of the program counter, the part and Unconnected, with what
\* the last call leaves.
Early == {"preconfig", "createNet", "attachNet", "check", "clearPem", "makePem",
          "clearKey", "makeKey", "register", "connect", "find"}

Wired(p, q, free) ==
    /\ q = "main" /\ p \in Early => free
    /\ p \in {"forget", "untrack", "save", "track"} => free

LEMMA WiredCalls ==
  ASSUME Faults = {}, Unprefixed, TypeOK, PartInv, RunInv, NEW w \in Worker, Working(w),
         NEW c \in Component, c = Comp(w), CreatableInv(w),
         Wired(pc[w], part[w], Unconnected(c))
  PROVE  /\ Wired(pc'[w], part'[w], Unconnected(c)')
         /\ pc'[w] = "idle" => Unconnected(c)'
         /\ pc'[w] = "dropSecrets" => \A x \in mark'[w] : x[1][1] = c
<1> DEFINE S == Main(c)
           Good == /\ Wired(pc'[w], part'[w], Unconnected(c)')
                   /\ pc'[w] = "idle" => Unconnected(c)'
                   /\ pc'[w] = "dropSecrets" => \A x \in mark'[w] : x[1][1] = c
<1> USE DEF outside, docker, boot, memory, locals, Wired, Early
<1>t. /\ part[w] \in {"main", "store"}
      /\ part[w] = "store" => pc[w] \in {"clearPem", "makePem", "clearKey", "makeKey",
                                         "register", "storeService"}
      /\ pc[w] = "storeService" => part[w] = "store"
  BY DEF TypeOK, PartInv
<1>k. /\ svc \in [Service -> Nat] /\ S \in Service /\ Target(w) \in Service
      /\ part[w] = "main" => Target(w) = S
      /\ part[w] = "store" => Target(w) # S
      /\ mark \in [Worker -> SUBSET (Service \X Nat)]
  BY WorkerTypes DEF TypeOK, Target, Main
\* A call that neither starts or stops the component nor connects it.
<1>u. UNCHANGED <<svc, conn>> => (Unconnected(c)' <=> Unconnected(c))
  BY DEF Unconnected
<1>a. ASSUME NEW from, NEW to, Step(w, from, to), part' = part, to # "dropSecrets",
             from \in Early \cup {"forget", "untrack", "save", "track"} \/
               to \notin Early \cup {"forget", "untrack", "save", "track", "idle"},
             from \in {"preconfig", "createNet", "attachNet", "check", "connect", "find"} \/
               to \notin {"forget", "untrack", "save", "track", "idle"} \/
               from \in {"forget", "untrack", "save", "track"},
             UNCHANGED <<svc, conn>>
      PROVE  Good
  <2>1. pc[w] = from /\ pc'[w] = to
    BY <1>a, OneSteps
  <2> QED
    BY <1>a, <1>u, <1>t, <2>1
<1>f. ASSUME NEW from, Finish(w, from), part' = part,
             from \in {"check", "find", "untrack", "track"}, UNCHANGED <<svc, conn>>
      PROVE  Good
  BY <1>f, <1>a DEF Finish
\* A call that leads to one where nothing is known.
<1>n. ASSUME NEW from, NEW to, Step(w, from, to),
             to \notin Early \cup {"forget", "untrack", "save", "track", "idle", "dropSecrets"}
      PROVE  Good
  BY <1>n, OneSteps
<1>1. PreConfig(w) => Good
  BY <1>a DEF PreConfig
<1>2. CreateNetwork(w) => Good
  BY <1>a DEF CreateNetwork
<1>3. AttachCoreNetwork(w) => Good
  BY <1>a DEF AttachCoreNetwork
<1>4. Check(w) => Good
  BY <1>a, <1>f DEF Check, FirstSecret
<1>5. GenorateSecrets(w) => Good
  BY <1>a DEF GenorateSecrets, ClearSecret, MakeSecret
<1>6. ASSUME RegisterToken(w) PROVE Good
  <2>1. /\ pc[w] = "register" /\ pc'[w] \in {"connect", "storeService"}
        /\ UNCHANGED <<svc, conn, part>>
        /\ pc'[w] = "connect" => part[w] = "main"
    BY <1>6, OneSteps DEF RegisterToken
  <2> QED
    BY <1>u, <2>1
<1>7. ConnectEndpoints(w) => Good
  BY <1>n DEF ConnectEndpoints
<1>8. ASSUME LaunchStore(w) PROVE Good
  <2>1. CASE Step(w, "store", "grant")
    BY <2>1, <1>n
  <2>2. CASE Step(w, "store", FirstSecret) /\ part' = [part EXCEPT ![w] = "store"]
    <3>1. part'[w] = "store" /\ pc'[w] \in {"clearPem", "clearKey"}
      BY <2>2, OneSteps DEF FirstSecret, TypeOK
    <3> QED
      BY <3>1
  <2> QED
    BY <1>8, <2>1, <2>2 DEF LaunchStore
<1>9. CreateStoreService(w) => Good
  BY <1>n DEF CreateStoreService
<1>10. AddPermissions(w) => Good
  BY <1>n DEF AddPermissions
<1>11. ASSUME CreateService(w) PROVE Good
  <2>1. pc[w] = "create" /\ part[w] = "main" /\ UNCHANGED <<conn, part>>
    BY <1>11, <1>t, OneSteps, OneFinishes DEF CreateService
  <2>2. Target(w) = S /\ S[1] = c
    BY <1>k, <2>1 DEF Main
  <2>3. Creatable(Target(w), Launch(w)) \/ svc[S] # 0
    BY <2>1, <2>2, ConstantsAssumption
       DEF CreatableInv, Creatable, LaunchSteps, SecretMade
  <2>4. svc'[S] # 0
    <3>1. CASE svc' = [svc EXCEPT ![Target(w)] = Launch(w)]
      <4>1. Launch(w) # 0
        BY <2>1 DEF RunInv, LaunchSteps
      <4> QED
        BY <1>k, <2>2, <3>1, <4>1
    <3>2. CASE ~Creatable(Target(w), Launch(w)) /\ svc' = svc
      BY <2>3, <3>2
    <3> QED
      BY <1>11, <3>1, <3>2 DEF CreateService, MayFail
  <2>5. Unconnected(c)'
    BY <2>4 DEF Unconnected
  <2>6. pc'[w] # "dropSecrets"
    BY <1>11, OneSteps, OneFinishes DEF CreateService
  <2> QED
    BY <2>5, <2>6
<1>12. SaveSLA(w) => Good
  BY <1>a DEF SaveSLA
<1>13. Track(w) => Good
  BY <1>f DEF Track
<1>14. FindService(w) => Good
  BY <1>n, <1>f DEF FindService
<1>15. RemoveService(w) => Good
  BY <1>n DEF RemoveService
<1>16. ASSUME ListSecrets(w) PROVE Good
  <2>1. pc'[w] = "dropSecrets" /\ mark'[w] = {<<s, svc[s]>> : s \in Matches(Comp(w))}
    BY <1>16, <1>k, OneSteps DEF ListSecrets
  <2>2. \A s \in Matches(c) : s[1] = c
    BY DEF Matches, Unprefixed
  <2> QED
    BY <2>1, <2>2
<1>17. DropSecrets(w) => Good
  BY <1>n DEF DropSecrets
<1>18. ASSUME Disconnect(w) PROVE Good
  <2>1. pc'[w] = "forget" /\ conn' = {e \in conn : e[1] # c}
    BY <1>18, OneSteps DEF Disconnect, MayFail
  <2> QED
    BY <2>1 DEF Unconnected
<1>19. DeleteSLA(w) => Good
  BY <1>a DEF DeleteSLA
<1>20. Untrack(w) => Good
  BY <1>f DEF Untrack
<1> QED
  BY <1>1, <1>2, <1>3, <1>4, <1>5, <1>6, <1>7, <1>8, <1>9, <1>10, <1>11, <1>12,
     <1>13, <1>14, <1>15, <1>16, <1>17, <1>18, <1>19, <1>20, Calls

LEMMA ConnectedCalls ==
  ASSUME Faults = {}, Unprefixed, TypeOK, PartInv, OnePerComponent, RunInv, ConnectedInv,
         NEW w \in Worker, Working(w)
  PROVE  ConnectedInv'
<1>m. Moves(w)
  BY CallMoves
<1>1. PICK c \in Component : c = Comp(w)
  BY WorkerTypes
<1>2. \A v \in Worker \ {w} : Busy(v) => Comp(v) \in Component /\ Comp(v) # c
  BY <1>m, <1>1, WorkerTypes DEF OnePerComponent, Moves
<1>3. Keeps(w, c)
  BY <1>1, <1>2, RunHere
<1>4. Apart(c)
  BY <1>1, CallsApart DEF ConnectedInv
<1>5. CreatableInv(w)'
  BY CreatableCalls DEF ConnectedInv
<1>6. /\ Wired(pc'[w], part'[w], Unconnected(c)')
      /\ pc'[w] = "idle" => Unconnected(c)'
      /\ pc'[w] = "dropSecrets" => \A x \in mark'[w] : x[1][1] = c
  <2>1. CreatableInv(w) /\ Wired(pc[w], part[w], Unconnected(c))
    BY <1>1 DEF ConnectedInv, ConnInv, Wired, Early
  <2> QED
    BY <1>1, <2>1, WiredCalls
<1>7. pc'[w] # "idle" => Comp(w)' = c
  BY <1>1, <1>m DEF Moves, Comp
<1>8. ConnInv(w)'
  BY <1>6, <1>7 DEF ConnInv, Wired, Early
\* Other components.
<1>9. \A d \in Component : d # c =>
         /\ svc'[Main(d)] = svc[Main(d)] /\ net'[d] = net[d]
         /\ \A k \in Kind : secret'[<<Main(d), k>>] = secret[<<Main(d), k>>]
         /\ Unconnected(d) => Unconnected(d)'
  <2>1. ASSUME NEW d \in Component, d # c
        PROVE  /\ svc'[Main(d)] = svc[Main(d)] /\ net'[d] = net[d]
               /\ \A k \in Kind : secret'[<<Main(d), k>>] = secret[<<Main(d), k>>]
    <3>1. Main(d) \in Service /\ Main(d)[1] = d
      BY DEF Main, Service
    <3> QED
      BY <1>3, <1>4, <2>1, <3>1 DEF Keeps, Apart
  <2>2. ASSUME NEW d \in Component, d # c, Unconnected(d) PROVE Unconnected(d)'
    BY <1>4, <2>1, <2>2 DEF Apart, Unconnected
  <2> QED
    BY <2>1, <2>2
<1>10. ASSUME NEW v \in Worker, v # w
       PROVE  /\ CreatableInv(v)' /\ ConnInv(v)'
              /\ pc'[v] = "dropSecrets" => \A x \in mark'[v] : x[1][1] = Comp(v)'
  <2>1. /\ pc'[v] = pc[v] /\ part'[v] = part[v] /\ Comp(v)' = Comp(v)
        /\ Launch(v)' = Launch(v) /\ mark'[v] = mark[v]
    BY <1>3, <1>m, <1>10 DEF Keeps, Moves, SameFor, Comp, Launch
  <2>2. CASE Busy(v)
    <3>1. PICK d \in Component : d = Comp(v) /\ d # c
      BY <1>2, <1>10, <2>2
    <3>2. /\ svc'[Main(d)] = svc[Main(d)] /\ net'[d] = net[d]
          /\ secret'[<<Main(d), "key">>] = secret[<<Main(d), "key">>]
          /\ "pem" \in Kind => secret'[<<Main(d), "pem">>] = secret[<<Main(d), "pem">>]
      BY <1>9, <3>1, ConstantsAssumption
    <3>3. CreatableInv(v) /\ ConnInv(v)
      BY DEF ConnectedInv
    <3>4. CreatableInv(v)'
      BY <2>1, <3>1, <3>2, <3>3 DEF CreatableInv, SecretMade, SecretClear
    <3>5. ConnInv(v)'
      <4>1. Unconnected(d) => Unconnected(d)'
        BY <1>9, <3>1
      <4> QED
        BY <2>1, <3>1, <3>3, <4>1 DEF ConnInv
    <3> QED
      BY <2>1, <3>4, <3>5 DEF ConnectedInv
  <2>3. CASE ~Busy(v)
    BY <2>1, <2>3 DEF Busy, CreatableInv, ConnInv, LaunchSteps
  <2> QED
    BY <2>2, <2>3
<1>11. ASSUME NEW d \in Component
       PROVE  Unconnected(d)' \/ \E v \in Worker : Busy(v)' /\ Comp(v)' = d
  <2>1. CASE d = c
    BY <1>6, <1>7, <2>1 DEF Busy
  <2>2. CASE d # c
    <3>1. phase # "down"
      BY <1>m DEF Moves, OnePerComponent, AtRest, Busy
    <3>2. CASE Unconnected(d)
      BY <1>9, <2>2, <3>2
    <3>3. CASE \E v \in Worker : Busy(v) /\ Comp(v) = d
      <4>1. PICK v \in Worker : Busy(v) /\ Comp(v) = d
        BY <3>3
      <4>2. v # w
        BY <1>1, <2>2, <4>1
      <4> QED
        BY <1>m, <4>1, <4>2 DEF Moves, SameFor, Busy, Comp
    <3> QED
      BY <3>1, <3>2, <3>3 DEF ConnectedInv
  <2> QED
    BY <2>1, <2>2
<1>12. pc'[w] = "dropSecrets" => \A x \in mark'[w] : x[1][1] = Comp(w)'
  BY <1>6, <1>7
<1> QED
  BY <1>5, <1>8, <1>10, <1>11, <1>12 DEF ConnectedInv

LEMMA ConnectedBegins ==
  ASSUME TypeOK, PartInv, OnePerComponent, ConnectedInv, NEW w \in Worker,
         NEW c \in Component, NEW save, NEW reload,
         Begins(w, c, save, reload), phase # "down",
         \A v \in Worker \ {w} : Busy(v) => Comp(v) # c,
         UNCHANGED <<phase, svc, secret, net, conn, mark>>
  PROVE  ConnectedInv'
<1>1. /\ pc[w] = "idle" /\ pc'[w] \in {"preconfig", "find"} /\ Comp(w)' = c
      /\ part'[w] = part[w] /\ part[w] # "store"
      /\ \A v \in Worker \ {w} : /\ pc'[v] = pc[v] /\ part'[v] = part[v]
                                 /\ Comp(v)' = Comp(v) /\ Launch(v)' = Launch(v)
  BY DEF Begins, SameFor, PartInv, Comp, Launch
<1>2. Unconnected(c)'
  BY <1>1 DEF ConnectedInv, Unconnected, Busy
<1>3. CreatableInv(w)' /\ ConnInv(w)'
  BY <1>1, <1>2 DEF CreatableInv, ConnInv, LaunchSteps
<1>4. \A v \in Worker \ {w} :
         /\ CreatableInv(v)' /\ ConnInv(v)'
         /\ pc'[v] = "dropSecrets" => \A x \in mark'[v] : x[1][1] = Comp(v)'
  BY <1>1 DEF ConnectedInv, CreatableInv, ConnInv, Unconnected, SecretMade, SecretClear
<1>5. \A d \in Component : Unconnected(d)' \/ \E v \in Worker : Busy(v)' /\ Comp(v)' = d
  BY <1>1 DEF ConnectedInv, Unconnected, Busy
<1> QED
  BY <1>1, <1>3, <1>4, <1>5 DEF ConnectedInv

LEMMA ConnectedStep ==
  ASSUME Faults = {}, Unprefixed, TypeOK, SerialInv, RunInv, ConnectedInv,
         [SerialNext]_vars
  PROVE  ConnectedInv'
<1>i. PartInv /\ OnePerComponent /\ ReloadInv
  BY DEF SerialInv
<1>l. ASSUME NEW w \in Worker, NEW c \in Component, NEW save, NEW reload,
             BeginLaunch(w, c, save, reload), phase # "down",
             \A v \in Worker \ {w} : Busy(v) => Comp(v) # c
      PROVE  ConnectedInv'
  <2>1. UNCHANGED <<phase, svc, secret, net, conn, mark>>
    BY <1>l DEF BeginLaunch, outside, docker
  <2> QED
    BY <1>i, <1>l, <2>1, LaunchBegins, ConnectedBegins
<1>1. CASE BootStep
  <2>1. UNCHANGED <<pc, job, part, mark>>
    BY <1>1 DEF BootStep, StartServing, ListKeys, ReadSLAs, ReloadApps, Ready, Reboot,
       RebootUnclean, locals
  <2>2. CASE Reboot \/ RebootUnclean
    <3>1. conn' = {} /\ \A w \in Worker : pc[w] = "idle"
      BY <2>2, <1>i DEF Reboot, RebootUnclean, MayFail, At, OnePerComponent, AtRest
    <3> QED
      BY <2>1, <3>1 DEF ConnectedInv, CreatableInv, ConnInv, Unconnected, LaunchSteps
  <2>3. CASE UNCHANGED <<svc, secret, net, conn>> /\ phase # "down"
    BY <2>1, <2>3 DEF ConnectedInv, CreatableInv, ConnInv, Unconnected, SecretMade,
       SecretClear, Comp, Launch, Busy
  <2> QED
    BY <1>1, <2>2, <2>3 DEF BootStep, StartServing, ListKeys, ReadSLAs, ReloadApps,
       Ready, At, outside, docker
<1>2. CASE Crash
  BY <1>2 DEF Crash, ConnectedInv, CreatableInv, ConnInv, LaunchSteps
<1>3. ASSUME NEW w \in Worker, Working(w) PROVE ConnectedInv'
  BY <1>i, <1>3, ConnectedCalls
<1>4. ASSUME NEW w \in Worker, Spawn(w) PROVE ConnectedInv'
  <2>1. PICK t \in todo : BeginLaunch(w, t[1], FALSE, t[2])
    BY <1>4 DEF Spawn
  <2>2. t[1] \in Component
    BY DEF TypeOK
  <2>3. phase # "down" /\ \A v \in Worker : Busy(v) => Comp(v) # t[1]
    BY <1>i, <2>1 DEF OnePerComponent, AtRest
  <2> QED
    BY <1>l, <2>1, <2>2, <2>3
<1>5. ASSUME NEW w \in Worker, NEW c \in Component, Quiet(c), Install(w, c)
      PROVE  ConnectedInv'
  BY <1>5, <1>l DEF Install, Quiet
<1>6. ASSUME NEW w \in Worker, NEW c \in Component, Quiet(c), Uninstall(w, c)
      PROVE  ConnectedInv'
  <2>1. UNCHANGED <<phase, svc, secret, net, conn, mark>>
    BY <1>6 DEF Uninstall, outside, docker, boot
  <2>2. phase # "down" /\ \A v \in Worker \ {w} : Busy(v) => Comp(v) # c
    BY <1>6 DEF Quiet
  <2> QED
    BY <1>i, <1>6, <2>1, <2>2, UninstallBegins, ConnectedBegins
<1>7. CASE UNCHANGED vars
  BY <1>7 DEF vars, ConnectedInv, CreatableInv, ConnInv, Unconnected, SecretMade,
     SecretClear, Comp, Launch, Busy, outside, docker, boot, locals
<1> QED
  BY <1>1, <1>2, <1>3, <1>4, <1>5, <1>6, <1>7 DEF SerialNext, WorkerStep, Working

\* Under the discipline and with no failing call, what the core network connects
\* runs, or is being launched or uninstalled: a launch connects its component
\* before it creates the service, which then cannot be refused, and an uninstall
\* disconnects what launch and whitelist connected.
THEOREM ConnectedRuns == SerialSpec => []OnlyRunningConnected
<1>1. CASE ~(Faults = {} /\ Unprefixed)
  <2>1. OnlyRunningConnected
    BY <1>1 DEF OnlyRunningConnected, Unprefixed
  <2> QED
    BY <2>1, PTL
<1>2. CASE Faults = {} /\ Unprefixed
  <2>1. SerialInit => RunInv /\ ConnectedInv
    BY DEF SerialInit, Init, RunInv, ConnectedInv, CreatableInv, ConnInv, Unconnected,
       LaunchSteps
  <2>2. TypeOK /\ SerialInv /\ RunInv /\ ConnectedInv /\ [SerialNext]_vars
          => RunInv' /\ ConnectedInv'
    BY <1>2, RunStep, ConnectedStep
  <2>3. TypeOK /\ ConnectedInv => OnlyRunningConnected
    <3>1. ASSUME TypeOK, ConnectedInv, NEW e \in conn, phase # "down", svc[Main(e[1])] = 0
          PROVE  \E w \in Worker : Busy(w) /\ Comp(w) = e[1]
      BY <3>1 DEF TypeOK, ConnectedInv, Unconnected
    <3> QED
      BY <3>1 DEF OnlyRunningConnected
  <2> QED
    BY <2>1, <2>2, <2>3, SerialCorrect, PTL DEF SerialSpec
<1> QED
  BY <1>1, <1>2

(***************************************************************************)
(* Installs and uninstalls are all or nothing.                             *)
(***************************************************************************)

\* The secrets that a launch has made for its component's store.
StoreReady(w) ==
    LET made(k) == secret[<<StoreOf(Comp(w)), k>>] IN
    part[w] = "store" =>
      /\ "pem" \in Kind /\ pc[w] = "makePem" => made("pem") = 0
      /\ pc[w] = "makeKey" => made("key") = 0
      /\ "pem" \in Kind /\ pc[w] \in {"clearKey", "makeKey", "register", "storeService"} =>
           made("pem") = Launch(w)
      /\ pc[w] \in {"register", "storeService"} => made("key") = Launch(w)

\* The calls before the one that decides whether the component runs.
Undecided == (LaunchSteps \ {"save", "track"}) \cup {"find", "remove"}

\* What a launch or an uninstall knows of its component when it makes call p, where q
\* is the part it prepares and j its job; the other parameters are Booleans.
Along(p, q, j, known, needs, saved, main, store, wired, attached, listed, unlisted,
      marked) ==
    /\ p \in LaunchSteps \ {"preconfig", "createNet", "attachNet", "check"} => known
    /\ p \in LaunchSteps => (j.save <=> ~j.reload)
    /\ p \in UninstallSteps => ~j.save /\ ~j.reload
    /\ p \in Undecided /\ main =>
         saved /\ ~j.reload /\ (needs => store) /\ wired /\ attached /\ listed
    /\ p \in Undecided /\ ~main => unlisted /\ (saved <=> j.reload)
    /\ q = "store" \/ p \in {"store", "grant", "create", "save", "track"} => wired
    /\ p \in {"grant", "create", "save", "track"} => (needs => store)
    /\ p \in {"save", "track"} => main
    /\ p = "save" => j.save
    /\ p = "track" => saved
    /\ p = "remove" /\ main => marked
    /\ p \in UninstallSteps \ {"find", "remove"} => ~main
    /\ p = "untrack" => ~saved

\* The same of worker w, whose component is c.
Progress(w, c) ==
    Along(pc[w], part[w], job[w], c \in App \cup Driver, c \in NeedsStore, c \in sla,
          svc[Main(c)] # 0, svc[StoreOf(c)] # 0, <<c, "peers">> \in conn,
          net[c] = "attached", lost \/ c \in installed, lost \/ c \notin installed,
          <<Main(c), svc[Main(c)]>> \in mark[w])

\* A component that is not being worked on, but for its endpoints.
Restored(c) ==
    IF c \in sla /\ ~Due(c) THEN Whole(c)
                           ELSE svc[Main(c)] = 0 /\ (lost \/ c \notin installed)

RestoreInv ==
    /\ sla \subseteq App \cup Driver
    /\ phase \in {"read", "drivers", "apps"} => snap = sla
    /\ \A t \in todo : t[2] => t[1] \in sla
    /\ \A w \in Worker : StoreReady(w)
    /\ \A w \in Worker : Busy(w) /\ Comp(w) \notin Builtin => Progress(w, Comp(w))
    /\ phase # "down" =>
         \A c \in Component \ Builtin :
            Restored(c) \/ \E w \in Worker : Busy(w) /\ Comp(w) = c

LEMMA StoreReadyCalls ==
  ASSUME Faults = {}, TypeOK, PartInv, NEW w \in Worker, Working(w), StoreReady(w),
         part[w] = "store" => svc[StoreOf(Comp(w))] = 0
  PROVE  StoreReady(w)'
<1> SUFFICES ASSUME part'[w] = "store" PROVE StoreReady(w)'
  BY DEF StoreReady
<1>1. PICK c \in Component : c = Comp(w)
  BY WorkerTypes
<1>2. PICK S \in Service : S = StoreOf(c)
  BY DEF StoreOf, Service
<1>3. PICK Pem : Pem = <<S, "pem">>
  OBVIOUS
<1>4. PICK Key \in Service \X Kind : Key = <<S, "key">>
  BY ConstantsAssumption
<1> DEFINE Has(p, pem, key) ==
      /\ "pem" \in Kind /\ p = "makePem" => pem = 0
      /\ p = "makeKey" => key = 0
      /\ "pem" \in Kind /\ p \in {"clearKey", "makeKey", "register", "storeService"} =>
           pem = Launch(w)
      /\ p \in {"register", "storeService"} => key = Launch(w)
    Then == Has(pc'[w], secret'[Pem], secret'[Key])
<1>t. /\ part[w] \in {"main", "store"}
      /\ part[w] = "store" => Target(w) = S
      /\ "pem" \in Kind => Pem \in Service \X Kind
      /\ secret \in [Service \X Kind -> Nat]
      /\ part[w] = "store" => pc[w] \in {"clearPem", "makePem", "clearKey", "makeKey",
                                         "register", "storeService"}
  BY <1>1, <1>2, <1>3 DEF TypeOK, PartInv, Target, StoreOf
<1>s. part[w] = "store" => Has(pc[w], secret[Pem], secret[Key]) /\ svc[S] = 0
  BY <1>1, <1>2, <1>3, <1>4 DEF StoreReady
<1>q. Then => StoreReady(w)'
  <2>1. pc'[w] \in {"clearPem", "makePem", "clearKey", "makeKey", "register", "storeService"}
    BY PartCalls DEF PartInv
  <2>2. Comp(w)' = c /\ Launch(w)' = Launch(w)
    BY <1>1, <2>1, CallMoves DEF Moves, Comp, Launch
  <2> QED
    BY <1>2, <1>3, <1>4, <2>2 DEF StoreReady
\* No launch that makes another call prepares a store.
<1>f. ASSUME NEW from, NEW to, Step(w, from, to), part' = part,
             from \notin {"clearPem", "makePem", "clearKey", "makeKey", "register",
                          "storeService"}
      PROVE  Then
  BY <1>f, <1>t, OneSteps
<1>g. ASSUME NEW from, Finish(w, from), part' = part,
             from \notin {"clearPem", "makePem", "clearKey", "makeKey", "register",
                          "storeService"}
      PROVE  Then
  BY <1>g, <1>f DEF Finish
<1> USE DEF outside, docker, boot, memory, locals
<1>5. PreConfig(w) => Then
  BY <1>f DEF PreConfig
<1>6. CreateNetwork(w) => Then
  BY <1>f DEF CreateNetwork
<1>7. AttachCoreNetwork(w) => Then
  BY <1>f DEF AttachCoreNetwork
<1>8. Check(w) => Then
  BY <1>f, <1>g DEF Check
<1>9. ASSUME GenorateSecrets(w) PROVE Then
  <2>u. part[w] = "store" /\ UNCHANGED svc
    BY <1>9 DEF GenorateSecrets, ClearSecret, MakeSecret
  <2>1. CASE ClearSecret(w, "pem", "clearPem", "makePem")
    <3>1. pc'[w] = "makePem" /\ ("pem" \in Kind => secret'[Pem] = 0)
      BY <2>1, <2>u, <1>3, <1>t, <1>s, OneSteps DEF ClearSecret, InUse, MayFail
    <3> QED
      BY <3>1
  <2>2. CASE MakeSecret(w, "pem", "makePem", "clearKey")
    <3>1. /\ pc[w] = "makePem" /\ pc'[w] = "clearKey"
          /\ "pem" \in Kind /\ secret[Pem] = 0 => secret'[Pem] = Launch(w)
      BY <2>2, <2>u, <1>3, <1>t, OneSteps DEF MakeSecret, MayFail
    <3> QED
      BY <1>s, <2>u, <3>1
  <2>3. CASE ClearSecret(w, "key", "clearKey", "makeKey")
    <3>1. /\ pc[w] = "clearKey" /\ pc'[w] = "makeKey" /\ secret'[Key] = 0
          /\ "pem" \in Kind => secret'[Pem] = secret[Pem]
      BY <2>3, <2>u, <1>3, <1>4, <1>t, <1>s, OneSteps DEF ClearSecret, InUse, MayFail
    <3> QED
      BY <1>s, <2>u, <3>1
  <2>4. CASE MakeSecret(w, "key", "makeKey", "register")
    <3>1. /\ pc[w] = "makeKey" /\ pc'[w] = "register"
          /\ secret[Key] = 0 => secret'[Key] = Launch(w)
          /\ "pem" \in Kind => secret'[Pem] = secret[Pem]
      BY <2>4, <2>u, <1>3, <1>4, <1>t, OneSteps DEF MakeSecret, MayFail
    <3> QED
      BY <1>s, <2>u, <3>1
  <2> QED
    BY <1>9, <2>1, <2>2, <2>3, <2>4 DEF GenorateSecrets
<1>10. ASSUME RegisterToken(w) PROVE Then
  <2>1. /\ pc[w] = "register" /\ part[w] = "store" /\ UNCHANGED secret
        /\ pc'[w] = "storeService"
    BY <1>10, <1>t, OneSteps DEF RegisterToken
  <2> QED
    BY <1>s, <2>1
<1>11. ConnectEndpoints(w) => Then
  BY <1>f DEF ConnectEndpoints
<1>12. ASSUME LaunchStore(w) PROVE Then
  <2>1. pc[w] = "store" /\ pc'[w] \in {"grant", FirstSecret}
    BY <1>12, OneSteps DEF LaunchStore
  <2> QED
    BY <2>1 DEF FirstSecret
<1>13. CreateStoreService(w) => Then
  BY <1>t DEF CreateStoreService, TypeOK
<1>14. AddPermissions(w) => Then
  BY <1>f DEF AddPermissions
<1>15. CreateService(w) => Then
  BY <1>f, <1>g DEF CreateService
<1>16. SaveSLA(w) => Then
  BY <1>f DEF SaveSLA
<1>17. Track(w) => Then
  BY <1>g DEF Track
<1>18. UninstallStep(w) => Then
  BY <1>f, <1>g DEF UninstallStep, FindService, RemoveService, ListSecrets, DropSecrets,
     Disconnect, DeleteSLA, Untrack
<1> QED
  BY <1>q, <1>5, <1>6, <1>7, <1>8, <1>9, <1>10, <1>11, <1>12, <1>13, <1>14, <1>15,
     <1>16, <1>17, <1>18 DEF Working, LaunchStep

LEMMA ProgressCalls ==
  ASSUME Faults = {}, Unprefixed, TypeOK, PartInv, RunInv, DNSInv,
         sla \subseteq App \cup Driver,
         NEW w \in Worker, Working(w), NEW c \in Component, c = Comp(w),
         CreatableInv(w), StoreReady(w), part[w] = "store" => svc[StoreOf(c)] = 0,
         pc[w] \in LaunchSteps \ {"preconfig", "createNet", "attachNet"} =>
           net[c] = "attached",
         Progress(w, c)
  PROVE  IF pc'[w] = "idle"
           THEN IF c \in sla' THEN Whole(c)'
                             ELSE svc'[Main(c)] = 0 /\ (lost' \/ c \notin installed')
           ELSE Progress(w, c)'
<1> DEFINE M == Main(c)
           T == StoreOf(c)
           known == c \in App \cup Driver
           needs == c \in NeedsStore
           wired == <<c, "peers">> \in conn
           listed == lost \/ c \in installed
           unlisted == lost \/ c \notin installed
           marked == <<M, svc[M]>> \in mark[w]
           Now == Along(pc[w], part[w], job[w], known, needs, c \in sla, svc[M] # 0,
                        svc[T] # 0, wired, net[c] = "attached", listed, unlisted, marked)
           Then == Along(pc'[w], part'[w], job[w], known, needs, c \in sla', svc'[M] # 0,
                         svc'[T] # 0, wired', net'[c] = "attached", listed', unlisted',
                         marked')
           Out == /\ pc'[w] = "idle"
                  /\ IF c \in sla'
                       THEN /\ svc'[M] # 0 /\ (needs => svc'[T] # 0)
                            /\ net'[c] = "attached" /\ wired' /\ listed'
                       ELSE svc'[M] = 0 /\ unlisted'
           Good == Out \/ (pc'[w] # "idle" /\ Then)
<1>n. Now
  BY DEF Progress
<1>q. Good => IF pc'[w] = "idle"
                THEN IF c \in sla' THEN Whole(c)'
                                  ELSE svc'[M] = 0 /\ (lost' \/ c \notin installed')
                ELSE Progress(w, c)'
  <2>1. pc'[w] # "idle" => job'[w] = job[w]
    BY CallMoves DEF Moves
  <2> QED
    BY <2>1 DEF Whole, Progress
<1>t. /\ part[w] \in {"main", "store"}
      /\ part[w] = "store" => pc[w] \in {"clearPem", "makePem", "clearKey", "makeKey",
                                         "register", "storeService"}
      /\ pc[w] = "storeService" => part[w] = "store"
  BY DEF TypeOK, PartInv
<1>k. /\ svc \in [Service -> Nat] /\ M \in Service /\ T \in Service /\ M # T
      /\ M[1] = c /\ T[1] = c
      /\ part[w] = "main" => Target(w) = M
      /\ part[w] = "store" => Target(w) = T
      /\ mark \in [Worker -> SUBSET (Service \X Nat)]
      /\ net \in [Component -> {"none", "bare", "attached"}]
      /\ pc[w] \in LaunchSteps => Launch(w) \in Nat \ {0}
  BY WorkerTypes DEF TypeOK, Target, Main, StoreOf, RunInv
<1> USE DEF outside, docker, boot, memory, locals, LaunchSteps, UninstallSteps, Undecided
\* A call that changes nothing of its component but may attach its network.
<1>a. ASSUME NEW from \in {"preconfig", "createNet", "attachNet", "check", "clearPem",
                          "makePem", "clearKey", "makeKey", "register"},
             NEW to \in {"preconfig", "createNet", "attachNet", "check", "clearPem",
                        "makePem", "clearKey", "makeKey", "register", "connect",
                        "storeService"},
             Step(w, from, to), net[c] = "attached" => net'[c] = "attached",
             \/ from \notin {"preconfig", "createNet", "attachNet", "check"}
             \/ to \in {"createNet", "attachNet", "check"} \/ known,
             UNCHANGED <<svc, conn, sla, installed, lost, part>>
      PROVE  Good
  <2>1. pc[w] = from /\ pc'[w] = to
    BY <1>a, OneSteps
  <2> QED
    BY <1>a, <1>n, <2>1 DEF Along
<1>1. PreConfig(w) => Good
  BY <1>a DEF PreConfig
<1>2. ASSUME CreateNetwork(w) PROVE Good
  <2>1. /\ pc[w] = "createNet" /\ pc'[w] \in {"attachNet", "check"}
        /\ net[c] = "none" /\ UNCHANGED <<svc, conn, sla, installed, lost, part>>
    BY <1>2, OneSteps DEF CreateNetwork, DNSInv
  <2> QED
    BY <1>n, <2>1 DEF Along
<1>3. ASSUME AttachCoreNetwork(w) PROVE Good
  <2>1. net[c] = "attached" => net'[c] = "attached"
    BY <1>3, <1>k DEF AttachCoreNetwork
  <2> QED
    BY <1>3, <1>a, <2>1 DEF AttachCoreNetwork
<1>4. ASSUME Check(w) PROVE Good
  <2>1. CASE known /\ Step(w, "check", FirstSecret)
    BY <1>4, <1>a, <2>1, FirstSecretType DEF Check
  <2>2. CASE c \notin App \cup Driver /\ Finish(w, "check")
    <3>1. pc[w] = "check" /\ pc'[w] = "idle" /\ c \notin sla
      BY <2>2, OneFinishes
    <3>2. UNCHANGED <<svc, sla, installed, lost>>
      BY <1>4 DEF Check
    <3> QED
      BY <1>n, <3>1, <3>2 DEF Along
  <2> QED
    BY <1>4, <2>1, <2>2 DEF Check, MayFail
<1>5. GenorateSecrets(w) => Good
  BY <1>a DEF GenorateSecrets, ClearSecret, MakeSecret
<1>6. RegisterToken(w) => Good
  BY <1>a DEF RegisterToken
<1>7. ASSUME ConnectEndpoints(w) PROVE Good
  <2>1. /\ pc[w] = "connect" /\ pc'[w] = IF needs THEN "store" ELSE "grant"
        /\ wired' /\ UNCHANGED <<svc, net, sla, installed, lost, part>>
    BY <1>7, OneSteps DEF ConnectEndpoints, MayFail
  <2> QED
    BY <1>n, <2>1 DEF Along
<1>8. ASSUME LaunchStore(w) PROVE Good
  <2>1. /\ pc[w] = "store" /\ pc'[w] \in {"grant", "clearPem", "clearKey"}
        /\ pc'[w] = "grant" => svc[T] # 0
        /\ UNCHANGED <<svc, conn, net, sla, installed, lost>>
    BY <1>8, OneSteps, FirstSecretType DEF LaunchStore
  <2> QED
    BY <1>n, <2>1 DEF Along
<1>9. ASSUME CreateStoreService(w) PROVE Good
  <2>1. /\ pc[w] = "storeService" /\ pc'[w] = "grant" /\ part[w] = "store"
        /\ part'[w] = "main" /\ UNCHANGED <<conn, net, sla, installed, lost>>
    BY <1>9, <1>t, OneSteps DEF CreateStoreService, TypeOK
  <2>2. Creatable(T, Launch(w))
    BY <2>1, <1>k, ConstantsAssumption DEF Creatable, StoreReady
  <2>3. svc' = [svc EXCEPT ![T] = Launch(w)]
    BY <1>9, <1>k, <2>1, <2>2 DEF CreateStoreService, MayFail
  <2>4. svc'[M] = svc[M] /\ svc'[T] # 0
    BY <1>k, <2>1, <2>3
  <2> QED
    BY <1>n, <2>1, <2>4 DEF Along
<1>10. ASSUME AddPermissions(w) PROVE Good
  <2>1. /\ pc[w] = "grant" /\ pc'[w] = "create" /\ conn \subseteq conn'
        /\ UNCHANGED <<svc, net, sla, installed, lost, part>>
    BY <1>10, OneSteps DEF AddPermissions
  <2> QED
    BY <1>n, <2>1 DEF Along
<1>11. ASSUME CreateService(w) PROVE Good
  <2>1. /\ pc[w] = "create" /\ part[w] = "main" /\ Target(w) = M
        /\ UNCHANGED <<conn, net, sla, installed, lost, part>>
    BY <1>11, <1>t, <1>k, OneSteps, OneFinishes DEF CreateService
  <2>2. CASE svc[M] = 0
    <3>1. Creatable(M, Launch(w))
      BY <1>k, <2>1, <2>2, ConstantsAssumption DEF CreatableInv, Creatable, SecretMade
    <3>2. /\ svc' = [svc EXCEPT ![M] = Launch(w)]
          /\ pc'[w] = IF job[w].save THEN "save" ELSE "track"
      BY <1>11, <2>1, <3>1, OneSteps DEF CreateService, MayFail
    <3>3. svc'[M] # 0 /\ svc'[T] = svc[T]
      BY <1>k, <2>1, <3>2
    <3> QED
      BY <1>n, <2>1, <2>2, <3>2, <3>3 DEF Along
  <2>3. CASE svc[M] # 0
    <3>1. pc'[w] = "idle" /\ svc' = svc
      BY <1>11, <2>1, <2>3, OneFinishes DEF CreateService, Creatable
    <3> QED
      BY <1>n, <2>1, <2>3, <3>1 DEF Along
  <2> QED
    BY <2>2, <2>3
<1>12. ASSUME SaveSLA(w) PROVE Good
  <2>1. /\ pc[w] = "save" /\ pc'[w] = "track" /\ c \in sla'
        /\ UNCHANGED <<svc, conn, net, installed, lost, part>>
    BY <1>12, OneSteps DEF SaveSLA, MayFail
  <2> QED
    BY <1>n, <2>1 DEF Along
<1>13. ASSUME Track(w) PROVE Good
  <2>1. /\ pc[w] = "track" /\ pc'[w] = "idle" /\ listed'
        /\ UNCHANGED <<svc, conn, net, sla>>
    BY <1>13, OneFinishes DEF Track, WriteMap
  <2> QED
    BY <1>n, <2>1 DEF Along
<1>14. ASSUME FindService(w) PROVE Good
  <2>u. pc[w] = "find" /\ UNCHANGED <<svc, conn, net, sla, installed, lost, part>>
    BY <1>14, OneSteps, OneFinishes DEF FindService
  <2>1. CASE FirstMatches(c) = {} /\ Finish(w, "find")
    <3>1. svc[M] = 0 /\ pc'[w] = "idle"
      BY <2>1, OneFinishes DEF FirstMatches
    <3> QED
      BY <1>n, <2>u, <3>1 DEF Along
  <2>2. ASSUME NEW s \in FirstMatches(c), Step(w, "find", "remove"),
               mark' = [mark EXCEPT ![w] = {<<s, svc[s]>>}]
        PROVE  Good
    <3>1. pc'[w] = "remove" /\ (svc[M] # 0 => marked')
      BY <1>k, <2>u, <2>2, OneSteps DEF FirstMatches
    <3> QED
      BY <1>n, <2>u, <3>1 DEF Along
  <2> QED
    BY <1>14, <2>1, <2>2 DEF FindService
<1>15. ASSUME RemoveService(w) PROVE Good
  <2>1. pc[w] = "remove" /\ pc'[w] = "listSecrets" /\ part' = part
    BY <1>15, OneSteps DEF RemoveService
  <2>2. svc'[M] = 0
    BY <1>15, <1>n, <1>k, <2>1 DEF RemoveService, MayFail, Along
  <2> QED
    BY <1>n, <1>t, <2>1, <2>2 DEF Along
\* A call of an uninstall that has removed the service.
<1>d. ASSUME NEW from \in UninstallSteps \ {"find", "remove"},
             NEW to \in UninstallSteps \ {"find", "remove", "untrack"},
             Step(w, from, to), UNCHANGED <<svc, part>>
      PROVE  Good
  <2>1. pc[w] = from /\ pc'[w] = to
    BY <1>d, OneSteps
  <2> QED
    BY <1>d, <1>n, <1>t, <2>1 DEF Along
<1>16. ListSecrets(w) => Good
  BY <1>d DEF ListSecrets
<1>17. DropSecrets(w) => Good
  BY <1>d DEF DropSecrets
<1>18. Disconnect(w) => Good
  BY <1>d DEF Disconnect
<1>19. ASSUME DeleteSLA(w) PROVE Good
  <2>1. /\ pc[w] = "forget" /\ pc'[w] = "untrack" /\ c \notin sla'
        /\ UNCHANGED <<svc, part>>
    BY <1>19, OneSteps DEF DeleteSLA, MayFail
  <2> QED
    BY <1>n, <1>t, <2>1 DEF Along
<1>20. ASSUME Untrack(w) PROVE Good
  <2>1. /\ pc[w] = "untrack" /\ pc'[w] = "idle" /\ unlisted'
        /\ UNCHANGED <<svc, sla>>
    BY <1>20, OneFinishes DEF Untrack, WriteMap
  <2> QED
    BY <1>n, <2>1 DEF Along
<1> QED
  <2>1. Good
    BY <1>1, <1>2, <1>3, <1>4, <1>5, <1>6, <1>7, <1>8, <1>9, <1>10, <1>11, <1>12,
       <1>13, <1>14, <1>15, <1>16, <1>17, <1>18, <1>19, <1>20, Calls
  <2> QED
    BY <1>q, <2>1

\* What a call of w on c leaves alone in the SLA store, the core network and the map.
Local(w, c) ==
    /\ \A d \in Component : d # c =>
         /\ d \in sla' <=> d \in sla
         /\ \A k \in {"peers", "externals"} : <<d, k>> \in conn => <<d, k>> \in conn'
         /\ d \in installed' <=> d \in installed
    /\ lost => lost'
    /\ pc[w] \notin {"save", "forget"} => sla' = sla

LEMMA CallsLocal ==
  ASSUME TypeOK, NEW w \in Worker, Working(w), NEW c \in Component, c = Comp(w)
  PROVE  Local(w, c)
<1> USE DEF outside, memory, Local
<1>a. UNCHANGED <<conn, sla, installed, lost>> => Local(w, c)
  OBVIOUS
<1>1. PreConfig(w) => Local(w, c)
  BY <1>a DEF PreConfig
<1>2. CreateNetwork(w) => Local(w, c)
  BY <1>a DEF CreateNetwork
<1>3. AttachCoreNetwork(w) => Local(w, c)
  BY <1>a DEF AttachCoreNetwork
<1>4. Check(w) => Local(w, c)
  BY <1>a DEF Check
<1>5. GenorateSecrets(w) => Local(w, c)
  BY <1>a DEF GenorateSecrets, ClearSecret, MakeSecret
<1>6. RegisterToken(w) => Local(w, c)
  BY <1>a DEF RegisterToken
<1>7. ConnectEndpoints(w) => Local(w, c)
  BY DEF ConnectEndpoints
<1>8. LaunchStore(w) => Local(w, c)
  BY <1>a DEF LaunchStore
<1>9. CreateStoreService(w) => Local(w, c)
  BY <1>a DEF CreateStoreService
<1>10. AddPermissions(w) => Local(w, c)
  BY DEF AddPermissions
<1>11. CreateService(w) => Local(w, c)
  BY <1>a DEF CreateService
<1>12. ASSUME SaveSLA(w) PROVE Local(w, c)
  <2>1. pc[w] = "save"
    BY <1>12, OneSteps DEF SaveSLA
  <2> QED
    BY <1>12, <2>1 DEF SaveSLA
<1>13. Track(w) => Local(w, c)
  BY DEF Track, WriteMap
<1>14. FindService(w) => Local(w, c)
  BY <1>a DEF FindService
<1>15. RemoveService(w) => Local(w, c)
  BY <1>a DEF RemoveService
<1>16. ListSecrets(w) => Local(w, c)
  BY <1>a DEF ListSecrets
<1>17. DropSecrets(w) => Local(w, c)
  BY <1>a DEF DropSecrets
<1>18. Disconnect(w) => Local(w, c)
  BY DEF Disconnect
<1>19. ASSUME DeleteSLA(w) PROVE Local(w, c)
  <2>1. pc[w] = "forget"
    BY <1>19, OneSteps DEF DeleteSLA
  <2> QED
    BY <1>19, <2>1 DEF DeleteSLA
<1>20. Untrack(w) => Local(w, c)
  BY DEF Untrack, WriteMap
<1> QED
  BY <1>1, <1>2, <1>3, <1>4, <1>5, <1>6, <1>7, <1>8, <1>9, <1>10, <1>11, <1>12,
     <1>13, <1>14, <1>15, <1>16, <1>17, <1>18, <1>19, <1>20, Calls

\* What a component is made of, as Whole, Restored and Progress see it.
Same(d) ==
    /\ svc'[Main(d)] = svc[Main(d)] /\ svc'[StoreOf(d)] = svc[StoreOf(d)]
    /\ net'[d] = net[d]
    /\ d \in sla' <=> d \in sla
    /\ <<d, "peers">> \in conn' <=> <<d, "peers">> \in conn
    /\ lost => lost'
    /\ d \in installed' <=> d \in installed

LEMMA OthersSame ==
  ASSUME NEW w \in Worker, NEW c \in Component, Keeps(w, c), Apart(c), Local(w, c),
         NEW d \in Component, d # c
  PROVE  Same(d)
<1>1. /\ Main(d) \in Service /\ Main(d)[1] = d
      /\ StoreOf(d) \in Service /\ StoreOf(d)[1] = d
  BY DEF Main, StoreOf, Service
<1>2. svc'[Main(d)] = svc[Main(d)] /\ svc'[StoreOf(d)] = svc[StoreOf(d)]
  BY <1>1 DEF Keeps
<1>3. <<d, "peers">> \in conn' <=> <<d, "peers">> \in conn
  BY DEF Apart, Local
<1> QED
  BY <1>2, <1>3 DEF Apart, Local, Same

LEMMA SameProgress ==
  ASSUME NEW v \in Worker, NEW d \in Component, Same(d), Progress(v, d),
         SameFor(v), mark'[v] = mark[v]
  PROVE  Progress(v, d)'
BY DEF Same, Progress, Along, SameFor

LEMMA SameRestored ==
  ASSUME NEW d \in Component, Same(d), Restored(d), Due(d)' <=> Due(d)
  PROVE  Restored(d)'
BY DEF Same, Restored, Whole

\* The reload has no plans for what is being worked on already.
LEMMA BusyNotDue ==
  ASSUME SerialInv, NEW w \in Worker, Busy(w), Comp(w) \notin Builtin
  PROVE  ~Due(Comp(w))
<1>1. phase # "boot" /\ phase # "down"
  BY DEF SerialInv, OnePerComponent, AtRest, Busy
<1>2. phase # "ready" => Comp(w) \in Batch
  BY DEF SerialInv, OnePerComponent, ReloadInv
<1>3. phase \notin {"list", "read"} /\ (phase = "drivers" => Comp(w) \in Driver)
  BY <1>2 DEF Batch
<1>4. <<Comp(w), TRUE>> \notin todo
  BY DEF SerialInv, OnePerComponent
<1> QED
  BY <1>1, <1>3, <1>4 DEF Due

LEMMA RestoreCalls ==
  ASSUME Faults = {}, Unprefixed, TypeOK, SerialInv, StoreInv, RunInv, DNSInv, ConnectedInv,
         RestoreInv, NEW w \in Worker, Working(w)
  PROVE  RestoreInv'
<1>i. PartInv /\ SticksInv /\ ReloadInv /\ OnePerComponent
  BY DEF SerialInv
<1>m. Moves(w)
  BY CallMoves
<1>1. PICK c \in Component : c = Comp(w)
  BY WorkerTypes
<1>2. \A v \in Worker \ {w} : Busy(v) => Comp(v) \in Component /\ Comp(v) # c
  BY <1>i, <1>m, <1>1, WorkerTypes DEF OnePerComponent, Moves
<1>3. Keeps(w, c) /\ Local(w, c)
  BY <1>i, <1>1, <1>2, RunHere, CallsLocal
<1>4. Apart(c)
  BY <1>1, CallsApart DEF ConnectedInv
<1>5. ASSUME NEW d \in Component, d # c PROVE Same(d)
  BY <1>3, <1>4, <1>5, OthersSame
\* The component of w.
<1>6. ASSUME c \notin Builtin
      PROVE  IF pc'[w] = "idle"
               THEN IF c \in sla' THEN Whole(c)'
                                 ELSE svc'[Main(c)] = 0 /\ (lost' \/ c \notin installed')
               ELSE Progress(w, c)'
  <2>1. /\ CreatableInv(w) /\ StoreReady(w) /\ Progress(w, c)
        /\ sla \subseteq App \cup Driver
    BY <1>1, <1>6, <1>m DEF ConnectedInv, RestoreInv, Moves
  <2>2. part[w] = "store" => svc[StoreOf(c)] = 0
    BY <1>1 DEF StoreInv, StoreAhead
  <2>3. ASSUME pc[w] \in LaunchSteps \ {"preconfig", "createNet", "attachNet"}
        PROVE  net[c] = "attached"
    <3>1. net[c] # "none"
      BY <1>1, <2>1, <2>3 DEF CreatableInv
    <3>2. ~\E v \in Worker : pc[v] = "attachNet" /\ Comp(v) = c
      BY <1>2, <2>3 DEF Busy
    <3>3. phase # "down"
      BY <1>i, <1>m DEF OnePerComponent, AtRest, Moves, Busy
    <3> QED
      BY <3>1, <3>2, <3>3 DEF DNSInv, TypeOK
  <2> QED
    BY <1>i, <1>1, <2>1, <2>2, <2>3, ProgressCalls
\* The SLA store is written only when the boot is over.
<1>7. pc[w] \in {"save", "forget"} => c \notin Builtin
                                   \/ (pc[w] = "forget" /\ sla' = sla)
  <2>1. pc[w] = "save" => c \notin Builtin
    BY <1>i, <1>1 DEF SticksInv, OnePerComponent
  <2>2. ASSUME pc[w] = "forget", c \in Builtin PROVE sla' = sla
    <3>1. sla' \subseteq sla /\ c \notin sla
      BY <1>i, <1>m, <2>2 DEF Moves, OnePerComponent
    <3> QED
      BY <1>3, <3>1 DEF Local, TypeOK
  <2> QED
    BY <2>1, <2>2
<1>8. phase # "ready" => sla' = sla
  <2>1. ASSUME phase # "ready", pc[w] \in {"save", "forget"}, c \notin Builtin
        PROVE  FALSE
    <3>1. job[w].reload
      BY <1>i, <1>m, <1>1, <2>1 DEF OnePerComponent, Reloading, Moves
    <3>2. Progress(w, c)
      BY <1>m, <1>1, <2>1 DEF RestoreInv, Moves
    <3> QED
      BY <2>1, <3>1, <3>2 DEF Progress, Along, LaunchSteps, UninstallSteps
  <2> QED
    BY <1>3, <1>7, <2>1 DEF Local
<1>9. sla' \subseteq App \cup Driver
  <2>1. ASSUME pc[w] = "save" PROVE c \in App \cup Driver
    <3>1. Progress(w, c)
      BY <1>m, <1>1, <1>7, <2>1 DEF RestoreInv, Moves
    <3> QED
      BY <2>1, <3>1 DEF Progress, Along, LaunchSteps
  <2> QED
    BY <1>m, <1>1, <2>1 DEF Moves, RestoreInv
<1>10. phase' \in {"read", "drivers", "apps"} => snap' = sla'
  BY <1>m, <1>8 DEF Moves, RestoreInv
<1>11. \A t \in todo' : t[2] => t[1] \in sla'
  <2>1. \A t \in todo : t[1] # c /\ t[1] \in Component
    BY <1>i, <1>1, <1>m DEF OnePerComponent, Moves, TypeOK
  <2> QED
    BY <1>m, <1>3, <2>1 DEF Moves, RestoreInv, Local
<1>12. ASSUME NEW v \in Worker PROVE StoreReady(v)'
  <2>1. CASE v = w
    BY <1>i, <2>1, StoreReadyCalls DEF RestoreInv, StoreInv, StoreAhead
  <2>2. CASE v # w
    <3>1. /\ pc'[v] = pc[v] /\ part'[v] = part[v] /\ Comp(v)' = Comp(v)
          /\ Launch(v)' = Launch(v)
      BY <1>m, <2>2 DEF Moves, SameFor, Comp, Launch
    <3>2. CASE part[v] = "store"
      <4>1. StoreOf(Comp(v)) \in Service /\ StoreOf(Comp(v))[1] # c
        BY <1>2, <1>i, <2>2, <3>2, WorkerTypes DEF PartInv, Busy, StoreOf
      <4>2. /\ secret'[<<StoreOf(Comp(v)), "key">>] = secret[<<StoreOf(Comp(v)), "key">>]
            /\ "pem" \in Kind => secret'[<<StoreOf(Comp(v)), "pem">>]
                                 = secret[<<StoreOf(Comp(v)), "pem">>]
        BY <1>4, <4>1, ConstantsAssumption DEF Apart
      <4> QED
        BY <3>1, <4>2 DEF RestoreInv, StoreReady
    <3> QED
      BY <3>1, <3>2 DEF StoreReady
  <2> QED
    BY <2>1, <2>2
<1>13. ASSUME NEW v \in Worker, Busy(v)', Comp(v)' \notin Builtin
       PROVE  Progress(v, Comp(v))'
  <2>1. CASE v = w
    <3>1. pc'[w] # "idle" /\ Comp(w)' = c
      BY <1>1, <1>13, <1>m, <2>1 DEF Busy, Moves, Comp
    <3> QED
      BY <1>6, <1>13, <2>1, <3>1
  <2>2. CASE v # w
    <3>1. SameFor(v) /\ Comp(v)' = Comp(v) /\ Busy(v) /\ mark'[v] = mark[v]
      BY <1>3, <1>13, <1>m, <2>2 DEF Moves, SameFor, Comp, Busy, Keeps
    <3>2. PICK d \in Component : d = Comp(v) /\ d # c
      BY <1>2, <2>2, <3>1
    <3>3. Progress(v, d)
      BY <1>13, <3>1, <3>2 DEF RestoreInv
    <3>4. Progress(v, d)'
      BY <1>5, <3>1, <3>2, <3>3, SameProgress
    <3> QED
      BY <3>1, <3>2, <3>4
  <2> QED
    BY <2>1, <2>2
<1>14. ASSUME NEW d \in Component \ Builtin
       PROVE  Restored(d)' \/ \E v \in Worker : Busy(v)' /\ Comp(v)' = d
  <2>1. CASE d = c /\ pc'[w] = "idle"
    <3>1. ~Due(c)
      BY <1>i, <1>1, <1>14, <1>m, <2>1, BusyNotDue DEF Moves
    <3>2. /\ phase \notin {"boot", "list", "read"}
          /\ ~(phase = "drivers" /\ c \notin Driver)
          /\ <<c, TRUE>> \notin todo
      <4>1. /\ phase # "boot"
            /\ phase # "ready" => c \in Batch
            /\ <<c, TRUE>> \notin todo
        BY <1>i, <1>1, <1>14, <1>m, <2>1
           DEF OnePerComponent, AtRest, ReloadInv, Moves, Busy
      <4> QED
        BY <4>1 DEF Batch
    <3>3. ~Due(c)'
      BY <1>m, <3>2 DEF Due, Moves
    <3> QED
      BY <1>6, <1>14, <2>1, <3>3 DEF Restored
  <2>2. CASE d = c /\ pc'[w] # "idle"
    BY <1>1, <1>m, <2>2 DEF Moves, Busy, Comp
  <2>3. CASE d # c
    <3>1. phase # "down"
      BY <1>i, <1>m DEF Moves, OnePerComponent, AtRest, Busy
    <3>2. CASE Restored(d)
      <4>1. Due(d)' <=> Due(d)
        BY <1>m, <1>3, <2>3 DEF Due, Moves, Local
      <4> QED
        BY <1>5, <2>3, <3>2, <4>1, SameRestored
    <3>3. CASE \E v \in Worker : Busy(v) /\ Comp(v) = d
      <4>1. PICK v \in Worker : Busy(v) /\ Comp(v) = d
        BY <3>3
      <4>2. v # w
        BY <1>1, <2>3, <4>1
      <4> QED
        BY <1>m, <4>1, <4>2 DEF Moves, SameFor, Busy, Comp
    <3> QED
      BY <3>1, <3>2, <3>3 DEF RestoreInv
  <2> QED
    BY <2>1, <2>2, <2>3
<1> QED
  BY <1>9, <1>10, <1>11, <1>12, <1>13, <1>14 DEF RestoreInv

LEMMA RestoreBegins ==
  ASSUME TypeOK, PartInv, RestoreInv, NEW w \in Worker, NEW c \in Component,
         NEW save \in BOOLEAN, NEW reload \in BOOLEAN,
         Begins(w, c, save, reload), phase # "down",
         \A v \in Worker \ {w} : Busy(v) => Comp(v) # c,
         UNCHANGED <<phase, snap, svc, secret, net, conn, sla, installed, lost, mark>>,
         todo' \subseteq todo, \A t \in todo \ todo' : t[1] = c,
         c \notin Builtin =>
           /\ pc'[w] = "preconfig" => (save <=> ~reload)
           /\ pc'[w] = "find" => ~save /\ ~reload
           /\ Due(c) <=> reload
  PROVE  RestoreInv'
<1>1. /\ pc[w] = "idle" /\ pc'[w] \in {"preconfig", "find"} /\ Comp(w)' = c
      /\ part'[w] = part[w] /\ part[w] # "store"
      /\ job'[w].save = save /\ job'[w].reload = reload
      /\ \A v \in Worker \ {w} : SameFor(v) /\ Comp(v)' = Comp(v) /\ Launch(v)' = Launch(v)
  BY DEF Begins, SameFor, PartInv, Comp, Launch
<1>2. ASSUME NEW d \in Component PROVE Same(d)
  BY DEF Same
<1>3. ASSUME c \notin Builtin PROVE Progress(w, c)'
  <2>1. Restored(c)
    BY <1>1, <1>3 DEF RestoreInv, Busy
  <2>2. reload => c \in sla
    BY <1>3 DEF Due
  <2> QED
    BY <1>1, <1>3, <2>1, <2>2
       DEF Restored, Whole, Progress, Along, LaunchSteps, UninstallSteps, Undecided
<1>4. ASSUME NEW v \in Worker, Busy(v)', Comp(v)' \notin Builtin
      PROVE  Progress(v, Comp(v))'
  <2>1. CASE v = w
    BY <1>1, <1>3, <1>4, <2>1
  <2>2. CASE v # w
    <3>1. PICK d \in Component : d = Comp(v)
      BY WorkerTypes
    <3>2. Progress(v, d) /\ SameFor(v) /\ Comp(v)' = d /\ mark'[v] = mark[v]
      BY <1>1, <1>4, <2>2, <3>1 DEF RestoreInv, SameFor, Busy
    <3> QED
      BY <1>2, <3>2, SameProgress
  <2> QED
    BY <2>1, <2>2
<1>5. ASSUME NEW d \in Component \ Builtin
      PROVE  Restored(d)' \/ \E v \in Worker : Busy(v)' /\ Comp(v)' = d
  <2>1. CASE d = c
    BY <1>1, <2>1 DEF Busy
  <2>2. CASE d # c /\ \E v \in Worker : Busy(v) /\ Comp(v) = d
    BY <1>1, <2>2 DEF Busy, SameFor
  <2>3. CASE d # c /\ Restored(d)
    <3>1. <<d, TRUE>> \in todo' <=> <<d, TRUE>> \in todo
      BY <2>3
    <3>2. Due(d)' <=> Due(d)
      BY <3>1 DEF Due
    <3> QED
      BY <1>2, <2>3, <3>2, SameRestored
  <2> QED
    BY <2>1, <2>2, <2>3 DEF RestoreInv
<1>6. \A v \in Worker : StoreReady(v)'
  BY <1>1 DEF RestoreInv, StoreReady, SameFor
<1> QED
  BY <1>4, <1>5, <1>6 DEF RestoreInv

\* The steps of a boot leave the same components to be launched.
LEMMA BootsDue ==
  ASSUME Faults = {}, TypeOK, SerialInv, RestoreInv, NEW c \in Component \ Builtin,
         StartServing \/ ListKeys \/ ReadSLAs \/ ReloadApps \/ Ready
  PROVE  Due(c)' <=> Due(c)
<1> USE DEF Due, At, outside, docker
<1>1. phase = "boot" => todo = {}
  BY DEF SerialInv, OnePerComponent, AtRest
<1>2. phase \in {"list", "read", "ready"} => \A t \in todo : ~t[2]
  BY DEF SerialInv, ReloadInv, Batch
<1>3. CASE StartServing \/ ListKeys
  BY <1>3 DEF StartServing, ListKeys, boot
<1>4. CASE ReadSLAs
  <2>1. snap' = sla /\ sla' = sla
    BY <1>4 DEF ReadSLAs, RestoreInv, MayFail
  <2>2. <<c, TRUE>> \in todo' <=> c \in sla \cap Driver
    BY <1>2, <1>4, <2>1 DEF ReadSLAs
  <2> QED
    BY <1>4, <2>1, <2>2 DEF ReadSLAs
<1>5. CASE ReloadApps
  <2>1. snap = sla /\ sla' = sla
    BY <1>5 DEF ReloadApps, RestoreInv
  <2>2. <<c, TRUE>> \notin todo
    BY <1>5 DEF ReloadApps, ReloadDone
  <2>3. <<c, TRUE>> \in todo' <=> c \in sla \cap App
    BY <1>5, <2>1, <2>2 DEF ReloadApps
  <2>4. c \in sla => (c \in App <=> c \notin Driver)
    BY ConstantsAssumption DEF RestoreInv
  <2> QED
    BY <1>5, <2>1, <2>2, <2>3, <2>4 DEF ReloadApps
<1>6. CASE Ready
  BY <1>6 DEF Ready
<1> QED
  BY <1>3, <1>4, <1>5, <1>6

LEMMA RestoreBoots ==
  ASSUME Faults = {}, TypeOK, SerialInv, RunInv, RestoreInv, BootStep
  PROVE  RestoreInv'
<1>1. UNCHANGED <<pc, job, part, mark, sla, installed, lost>>
  BY DEF BootStep, StartServing, ListKeys, ReadSLAs, ReloadApps, Ready, Reboot,
     RebootUnclean, outside, locals, memory
<1>2. CASE Reboot \/ RebootUnclean
  <2>1. /\ phase = "down" /\ phase' = "boot" /\ todo' = {}
        /\ svc' = [s \in Service |-> 0]
        /\ \A w \in Worker : pc[w] = "idle" /\ part[w] = "main"
    BY <1>2 DEF Reboot, RebootUnclean, MayFail, At, SerialInv, OnePerComponent, AtRest
  <2>2. ASSUME NEW c \in Component PROVE Restored(c)'
    <3>1. svc'[Main(c)] = 0 /\ c \notin installed'
      BY <1>1, <2>1 DEF Main, Service, RunInv
    <3> QED
      BY <2>1, <3>1 DEF Restored, Due
  <2> QED
    BY <1>1, <2>1, <2>2 DEF RestoreInv, StoreReady, Busy
<1>3. CASE StartServing \/ ListKeys \/ ReadSLAs \/ ReloadApps \/ Ready
  <2>1. UNCHANGED <<svc, secret, net, conn>> /\ phase # "down"
    BY <1>3 DEF StartServing, ListKeys, ReadSLAs, ReloadApps, Ready, At, outside, docker
  <2>2. ASSUME NEW d \in Component PROVE Same(d)
    BY <1>1, <2>1 DEF Same
  <2>3. phase' \in {"read", "drivers", "apps"} => snap' = sla'
    BY <1>1, <1>3 DEF StartServing, ListKeys, ReadSLAs, ReloadApps, Ready, At, RestoreInv,
                      MayFail
  <2>4. ASSUME NEW t \in todo', t[2] PROVE t[1] \in sla'
    <3>1. ASSUME t \notin todo PROVE t[1] \in snap' /\ phase' \in {"drivers", "apps"}
      <4>1. CASE StartServing
        <5>1. \A u \in Builtin \X {FALSE} : ~u[2]
          OBVIOUS
        <5> QED
          BY <2>4, <4>1, <5>1 DEF StartServing
      <4>2. CASE ListKeys \/ Ready
        BY <3>1, <4>2 DEF ListKeys, Ready
      <4>3. CASE ReadSLAs
        BY <3>1, <4>3 DEF ReadSLAs, At
      <4>4. CASE ReloadApps
        BY <3>1, <4>4 DEF ReloadApps, At
      <4> QED
        BY <1>3, <4>1, <4>2, <4>3, <4>4
    <3> QED
      BY <1>1, <2>3, <2>4, <3>1 DEF RestoreInv
  <2>5. ASSUME NEW c \in Component \ Builtin
        PROVE  Restored(c)' \/ \E v \in Worker : Busy(v)' /\ Comp(v)' = c
    <3>1. CASE Restored(c)
      BY <1>3, <2>2, <3>1, BootsDue, SameRestored
    <3>2. CASE \E v \in Worker : Busy(v) /\ Comp(v) = c
      BY <1>1, <3>2 DEF Busy, Comp
    <3> QED
      BY <2>1, <3>1, <3>2 DEF RestoreInv
  <2>6. ASSUME NEW w \in Worker
        PROVE  /\ StoreReady(w)'
               /\ Busy(w)' /\ Comp(w)' \notin Builtin => Progress(w, Comp(w))'
    <3>1. SameFor(w) /\ Comp(w)' = Comp(w) /\ Comp(w) \in Component
      BY <1>1, WorkerTypes DEF SameFor, Comp
    <3>2. Busy(w)' /\ Comp(w)' \notin Builtin => Progress(w, Comp(w))'
      BY <1>1, <2>2, <3>1, SameProgress DEF RestoreInv, Busy
    <3> QED
      BY <1>1, <2>1, <3>2 DEF RestoreInv, StoreReady, Comp, Launch
  <2> QED
    BY <1>1, <2>3, <2>4, <2>5, <2>6 DEF RestoreInv
<1> QED
  BY <1>2, <1>3 DEF BootStep

LEMMA RestoreStep ==
  ASSUME Faults = {}, Unprefixed, TypeOK, SerialInv, StoreInv, RunInv, DNSInv, ConnectedInv,
         RestoreInv, [SerialNext]_vars
  PROVE  RestoreInv'
<1>i. PartInv /\ ReloadInv /\ OnePerComponent
  BY DEF SerialInv
<1>1. CASE BootStep
  BY <1>1, RestoreBoots
<1>2. CASE Crash
  BY <1>2 DEF Crash, RestoreInv, StoreReady, Busy, outside
<1>3. ASSUME NEW w \in Worker, Working(w) PROVE RestoreInv'
  BY <1>3, RestoreCalls
<1>4. ASSUME NEW w \in Worker, Spawn(w) PROVE RestoreInv'
  <2>1. PICK t \in todo : BeginLaunch(w, t[1], FALSE, t[2]) /\ todo' = todo \ {t}
    BY <1>4 DEF Spawn
  <2>2. PICK c \in Component, reload \in BOOLEAN : t = <<c, reload>>
    BY DEF TypeOK
  <2>3. phase # "down" /\ \A v \in Worker : Busy(v) => Comp(v) # c
    BY <1>i, <2>1, <2>2 DEF OnePerComponent, AtRest
  <2>4. UNCHANGED <<phase, snap, svc, secret, net, conn, sla, installed, lost, mark>>
    BY <2>1 DEF BeginLaunch, outside, docker, memory
  <2>5. c \notin Builtin => reload /\ Due(c) /\ pc'[w] = "preconfig"
    <3>1. c \notin Builtin => reload /\ c \in sla /\ <<c, TRUE>> \in todo
      BY <1>i, <2>1, <2>2 DEF OnePerComponent, RestoreInv
    <3> QED
      BY <2>1, <3>1, OneSteps DEF BeginLaunch, Due
  <2>6. Begins(w, c, FALSE, reload)
    BY <2>1, <2>2, LaunchBegins
  <2>7. todo' \subseteq todo /\ \A u \in todo \ todo' : u[1] = c
    BY <2>1, <2>2
  <2> QED
    BY <1>i, <2>3, <2>4, <2>5, <2>6, <2>7, RestoreBegins
<1>q. ASSUME NEW c \in Component, Quiet(c)
      PROVE  /\ ~Due(c) /\ phase # "down" /\ \A v \in Worker : Busy(v) => Comp(v) # c
  <2>1. \A t \in todo : ~t[2]
    BY <1>i, <1>q DEF Quiet, ReloadInv, Batch
  <2> QED
    BY <1>q, <2>1 DEF Quiet, Due
<1>5. ASSUME NEW w \in Worker, NEW c \in Component, Quiet(c), Install(w, c)
      PROVE  RestoreInv'
  <2>1. BeginLaunch(w, c, TRUE, FALSE) /\ todo' = todo
    BY <1>5 DEF Install
  <2>2. UNCHANGED <<phase, snap, svc, secret, net, conn, sla, installed, lost, mark>>
    BY <2>1 DEF BeginLaunch, outside, docker, memory
  <2>3. pc'[w] = "preconfig"
    BY <2>1, OneSteps DEF BeginLaunch
  <2> QED
    BY <1>i, <1>5, <1>q, <2>1, <2>2, <2>3, LaunchBegins, RestoreBegins
<1>6. ASSUME NEW w \in Worker, NEW c \in Component, Quiet(c), Uninstall(w, c)
      PROVE  RestoreInv'
  <2>1. UNCHANGED <<phase, snap, todo, svc, secret, net, conn, sla, installed, lost, mark>>
    BY <1>6 DEF Uninstall, outside, docker, boot, memory
  <2>2. pc'[w] = "find"
    BY <1>6, OneSteps DEF Uninstall
  <2> QED
    BY <1>i, <1>6, <1>q, <2>1, <2>2, UninstallBegins, RestoreBegins
<1>7. CASE UNCHANGED vars
  <2>1. UNCHANGED <<svc, secret, net, conn, sla, installed, lost, phase, snap, todo, pc, job,
                    part, mark>>
    BY <1>7 DEF vars, outside, docker, boot, memory, locals
  <2>2. ASSUME NEW d \in Component PROVE Same(d)
    BY <2>1 DEF Same
  <2>3. ASSUME NEW w \in Worker
        PROVE  /\ StoreReady(w)'
               /\ Busy(w)' /\ Comp(w)' \notin Builtin => Progress(w, Comp(w))'
    <3>1. SameFor(w) /\ Comp(w)' = Comp(w) /\ Comp(w) \in Component /\ Launch(w)' = Launch(w)
      BY <2>1, WorkerTypes DEF SameFor, Comp, Launch
    <3>2. Busy(w)' /\ Comp(w)' \notin Builtin => Progress(w, Comp(w))'
      BY <2>1, <2>2, <3>1, SameProgress DEF RestoreInv, Busy
    <3> QED
      BY <2>1, <3>1, <3>2 DEF RestoreInv, StoreReady
  <2>4. ASSUME NEW d \in Component \ Builtin
        PROVE  phase # "down" =>
                 Restored(d)' \/ \E v \in Worker : Busy(v)' /\ Comp(v)' = d
    <3>1. Due(d)' <=> Due(d)
      BY <2>1 DEF Due
    <3>2. Restored(d) => Restored(d)'
      BY <2>2, <3>1, SameRestored
    <3> QED
      BY <2>1, <3>2 DEF RestoreInv, Busy, Comp
  <2> QED
    BY <2>1, <2>3, <2>4 DEF RestoreInv
<1> QED
  BY <1>1, <1>2, <1>3, <1>4, <1>5, <1>6, <1>7 DEF SerialNext, WorkerStep, Working

LEMMA RestoreCorrect ==
  ASSUME Faults = {}, Unprefixed
  PROVE  SerialSpec => [](TypeOK /\ SerialInv /\ StoreInv /\ RunInv /\ DNSInv
                          /\ ConnectedInv /\ RestoreInv)
<1>1. ASSUME SerialInit PROVE StoreInv /\ RunInv /\ DNSInv /\ ConnectedInv /\ RestoreInv
  <2>1. StoreInv /\ RunInv
    BY <1>1 DEF SerialInit, Init, StoreInv, StoreAhead, RunInv, LaunchSteps, StoreOf, Service
  <2>2. DNSInv /\ ConnectedInv
    BY <1>1 DEF SerialInit, Init, DNSInv, ConnectedInv, CreatableInv, ConnInv, Unconnected,
       LaunchSteps
  <2>3. \A c \in Component : Restored(c)
    BY <1>1 DEF SerialInit, Init, Restored, Due, Main, Service
  <2>4. RestoreInv
    BY <1>1, <2>3 DEF SerialInit, Init, RestoreInv, StoreReady, Busy
  <2> QED
    BY <2>1, <2>2, <2>4
<1>2. TypeOK /\ SerialInv /\ StoreInv /\ RunInv /\ DNSInv /\ ConnectedInv /\ RestoreInv
        /\ [SerialNext]_vars
        => StoreInv' /\ RunInv' /\ DNSInv' /\ ConnectedInv' /\ RestoreInv'
  BY StoreStep, RunStep, DNSStep, ConnectedStep, RestoreStep
<1> QED
  BY <1>1, <1>2, SerialCorrect, PTL DEF SerialSpec

\* Under the discipline and with no failing call, a component that nobody is at work
\* on is installed entirely or not at all, whenever the CM crashed and whatever was
\* saved (LaunchFromSLA, Uninstall, reloadApps).
THEOREM InstallsAreAtomic == SerialSpec => []AllOrNothing
<1>1. CASE ~(Faults = {} /\ Unprefixed)
  <2>1. AllOrNothing
    BY <1>1 DEF AllOrNothing
  <2> QED
    BY <2>1, PTL
<1>2. CASE Faults = {} /\ Unprefixed
  <2>1. ASSUME ConnectedInv, RestoreInv, phase # "down",
               NEW c \in Component \ Builtin, ~AtWork(c)
        PROVE  IF c \in sla THEN Whole(c) ELSE Absent(c)
    <3>1. Restored(c) /\ ~Due(c) /\ Unconnected(c)
      BY <2>1 DEF RestoreInv, ConnectedInv, AtWork
    <3> QED
      BY <3>1 DEF Restored, Unconnected, Absent
  <2>2. ConnectedInv /\ RestoreInv => AllOrNothing
    BY <2>1 DEF AllOrNothing
  <2> QED
    BY <1>2, <2>2, RestoreCorrect, PTL
<1> QED
  BY <1>1, <1>2

(***************************************************************************)
(* The CM implements the registry.                                         *)
(***************************************************************************)

\* What a call of w on c does to the main service and the SLA.
Effect(w, c) ==
    LET ran == svc[Main(c)] # 0
        goesOn == pc'[w] # "idle"
    IN \/ sla' = sla /\ (svc'[Main(c)] # 0 <=> ran)
       \/ sla' = sla /\ goesOn /\ (svc'[Main(c)] # 0 <=> ~ran)
       \/ pc[w] = "save" /\ goesOn /\ svc' = svc /\ sla' = sla \cup {c}
       \/ pc[w] = "forget" /\ goesOn /\ svc' = svc /\ sla' = sla \ {c}

LEMMA CallEffects ==
  ASSUME TypeOK, NEW w \in Worker, Working(w), NEW c \in Component, c = Comp(w)
  PROVE  Effect(w, c)
<1> USE DEF outside, docker, Effect
<1>a. UNCHANGED <<svc, sla>> => Effect(w, c)
  OBVIOUS
<1>b. ASSUME NEW from, NEW to, Step(w, from, to), to # "idle", sla' = sla
      PROVE  Effect(w, c)
  BY <1>b, OneSteps
<1>1. PreConfig(w) => Effect(w, c)
  BY <1>a DEF PreConfig
<1>2. CreateNetwork(w) => Effect(w, c)
  BY <1>a DEF CreateNetwork
<1>3. AttachCoreNetwork(w) => Effect(w, c)
  BY <1>a DEF AttachCoreNetwork
<1>4. Check(w) => Effect(w, c)
  BY <1>a DEF Check
<1>5. GenorateSecrets(w) => Effect(w, c)
  BY <1>a DEF GenorateSecrets, ClearSecret, MakeSecret
<1>6. RegisterToken(w) => Effect(w, c)
  BY <1>a DEF RegisterToken
<1>7. ConnectEndpoints(w) => Effect(w, c)
  BY <1>a DEF ConnectEndpoints
<1>8. LaunchStore(w) => Effect(w, c)
  BY <1>a DEF LaunchStore
<1>9. CreateStoreService(w) => Effect(w, c)
  BY <1>b DEF CreateStoreService
<1>10. AddPermissions(w) => Effect(w, c)
  BY <1>a DEF AddPermissions
<1>11. CreateService(w) => Effect(w, c)
  BY <1>a, <1>b DEF CreateService
<1>12. ASSUME SaveSLA(w) PROVE Effect(w, c)
  <2>1. pc[w] = "save" /\ pc'[w] = "track"
    BY <1>12, OneSteps DEF SaveSLA
  <2> QED
    BY <1>12, <2>1 DEF SaveSLA
<1>13. Track(w) => Effect(w, c)
  BY <1>a DEF Track
<1>14. FindService(w) => Effect(w, c)
  BY <1>a DEF FindService
<1>15. RemoveService(w) => Effect(w, c)
  BY <1>b DEF RemoveService
<1>16. ListSecrets(w) => Effect(w, c)
  BY <1>a DEF ListSecrets
<1>17. DropSecrets(w) => Effect(w, c)
  BY <1>a DEF DropSecrets
<1>18. Disconnect(w) => Effect(w, c)
  BY <1>a DEF Disconnect
<1>19. ASSUME DeleteSLA(w) PROVE Effect(w, c)
  <2>1. pc[w] = "forget" /\ pc'[w] = "untrack"
    BY <1>19, OneSteps DEF DeleteSLA
  <2> QED
    BY <1>19, <2>1 DEF DeleteSLA
<1>20. Untrack(w) => Effect(w, c)
  BY <1>a DEF Untrack
<1> QED
  BY <1>1, <1>2, <1>3, <1>4, <1>5, <1>6, <1>7, <1>8, <1>9, <1>10, <1>11, <1>12,
     <1>13, <1>14, <1>15, <1>16, <1>17, <1>18, <1>19, <1>20, Calls

LEMMA RegistryCalls ==
  ASSUME Faults = {}, Unprefixed, TypeOK, SerialInv, StoreInv, RunInv, DNSInv, ConnectedInv,
         RestoreInv, RestoreInv', SerialInv', NEW w \in Worker, Working(w)
  PROVE  [R!RegistryNext]_R!registryVars
<1>m. Moves(w)
  BY CallMoves
<1>1. PICK c \in Component : c = Comp(w)
  BY WorkerTypes
<1>2. \A v \in Worker \ {w} : Busy(v) => Comp(v) # c
  BY <1>m, <1>1 DEF SerialInv, OnePerComponent, Moves
<1>3. Keeps(w, c) /\ Local(w, c) /\ Effect(w, c)
  BY <1>1, <1>2, RunHere, CallsLocal, CallEffects DEF SerialInv
<1>u. phase # "down" /\ phase' = phase /\ todo' = todo
  BY <1>m DEF Moves, SerialInv, OnePerComponent, AtRest, Busy
\* Other components.
<1>4. ASSUME NEW d \in Component, d # c
      PROVE  (svc'[Main(d)] # 0 <=> svc[Main(d)] # 0) /\ (AtWork(d)' <=> AtWork(d))
  <2>1. svc'[Main(d)] = svc[Main(d)]
    BY <1>3, <1>4 DEF Keeps, Main, Service
  <2>2. Due(d)' <=> Due(d)
    BY <1>m, <1>3, <1>4 DEF Due, Local, Moves
  <2>3. (\E v \in Worker : Busy(v) /\ Comp(v) = d)' <=> \E v \in Worker : Busy(v) /\ Comp(v) = d
    <3>1. ~(Busy(w) /\ Comp(w) = d) /\ ~(Busy(w)' /\ Comp(w)' = d)
      BY <1>1, <1>4, <1>m DEF Moves, Busy, Comp
    <3>2. \A v \in Worker \ {w} : (Busy(v)' <=> Busy(v)) /\ Comp(v)' = Comp(v)
      BY <1>m DEF Moves, SameFor, Busy, Comp
    <3> QED
      BY <3>1, <3>2
  <2> QED
    BY <2>1, <2>2, <2>3 DEF AtWork
<1>5. CASE c \in Builtin
  <2>1. sla' = sla
    <3>1. \A d \in Component : d # c => (d \in sla' <=> d \in sla)
      BY <1>3 DEF Local
    <3>2. c \notin sla /\ c \notin sla'
      BY <1>5 DEF SerialInv, OnePerComponent
    <3>3. sla \subseteq Component /\ sla' \subseteq Component
      BY <1>1, <1>m DEF TypeOK, Moves
    <3> QED
      BY <3>1, <3>2, <3>3
  <2>2. Running' = Running /\ Engaged' = Engaged
    BY <1>4, <1>5, <1>u DEF Running, Engaged
  <2> QED
    BY <1>u, <2>1, <2>2 DEF R!registryVars
<1>6. CASE c \notin Builtin
  <2>1. c \in Engaged
    BY <1>1, <1>6, <1>m, <1>u DEF Engaged, AtWork, Moves
  <2>2. \/ Running' = Running /\ (svc'[Main(c)] # 0 <=> svc[Main(c)] # 0)
        \/ Running' = Running \cup {c} /\ c \notin Running
        \/ Running' = Running \ {c} /\ c \in Running
    <3>1. \A d \in Component \ Builtin : d # c => (d \in Running' <=> d \in Running)
      BY <1>4 DEF Running
    <3>2. /\ c \in Running' <=> svc'[Main(c)] # 0
          /\ c \in Running <=> svc[Main(c)] # 0
          /\ Running \subseteq Component \ Builtin /\ Running' \subseteq Component \ Builtin
      BY <1>6 DEF Running
    <3> QED
      BY <1>6, <3>1, <3>2
  <2>3. CASE pc'[w] # "idle"
    <3>1. c \in Engaged'
      BY <1>1, <1>6, <1>m, <1>u, <2>3 DEF Engaged, AtWork, Moves, Busy, Comp
    <3>2. Engaged' = Engaged
      BY <1>4, <1>u, <2>1, <3>1 DEF Engaged
    <3>3. Progress(w, c)
      BY <1>1, <1>6, <1>m DEF RestoreInv, Moves
    <3>4. CASE sla' = sla
      BY <1>6, <1>u, <2>1, <2>2, <3>2, <3>4
         DEF R!RegistryNext, R!registryVars, R!Start, R!Stop
    <3>5. CASE pc[w] = "save" /\ svc' = svc /\ sla' = sla \cup {c}
      <4>1. c \in Running /\ Running' = Running
        BY <1>6, <3>3, <3>5 DEF Progress, Along, Running
      <4> QED
        BY <1>6, <1>u, <2>1, <3>2, <3>5, <4>1 DEF R!RegistryNext, R!Save
    <3>6. CASE pc[w] = "forget" /\ svc' = svc /\ sla' = sla \ {c}
      <4>1. c \notin Running /\ Running' = Running
        BY <1>6, <3>3, <3>6 DEF Progress, Along, Running, UninstallSteps
      <4> QED
        BY <1>6, <1>u, <2>1, <3>2, <3>6, <4>1 DEF R!RegistryNext, R!Drop
    <3> QED
      BY <1>3, <3>4, <3>5, <3>6 DEF Effect
  <2>4. CASE pc'[w] = "idle"
    <3>1. sla' = sla /\ Running' = Running
      BY <1>3, <2>2, <2>4 DEF Effect, Running
    <3>2. ~\E v \in Worker : Busy(v)' /\ Comp(v)' = c
      BY <1>2, <1>m, <2>4 DEF Moves, SameFor, Busy, Comp
    <3>3. ~Due(c)'
      <4>1. ~Due(c)
        BY <1>1, <1>6, <1>m, BusyNotDue DEF Moves
      <4> QED
        BY <1>u, <3>1, <4>1 DEF Due
    <3>4. c \notin Engaged'
      BY <3>2, <3>3 DEF Engaged, AtWork
    <3>5. Engaged' = Engaged \ {c}
      BY <1>4, <1>u, <3>4 DEF Engaged
    <3>6. c \in Running' <=> c \in sla'
      <4>1. Restored(c)'
        BY <1>6, <1>u, <3>2 DEF RestoreInv
      <4> QED
        BY <1>6, <3>3, <4>1 DEF Restored, Whole, Running
    <3> QED
      BY <1>6, <1>u, <2>1, <3>1, <3>5, <3>6 DEF R!RegistryNext, R!End
  <2> QED
    BY <2>3, <2>4
<1> QED
  BY <1>5, <1>6

\* A goroutine that starts is at work on its component alone.
LEMMA BeginsAtWork ==
  ASSUME NEW w \in Worker, NEW c \in Component, NEW save, NEW reload,
         Begins(w, c, save, reload), UNCHANGED <<phase, sla>>,
         todo' \subseteq todo, \A t \in todo \ todo' : t[1] = c
  PROVE  AtWork(c)' /\ \A d \in Component \ {c} : AtWork(d)' <=> AtWork(d)
<1>1. /\ ~Busy(w) /\ Busy(w)' /\ Comp(w)' = c
      /\ \A v \in Worker \ {w} : (Busy(v)' <=> Busy(v)) /\ Comp(v)' = Comp(v)
  BY DEF Begins, SameFor, Busy, Comp
<1>2. \A d \in Component \ {c} : Due(d)' <=> Due(d)
  <2>1. \A d \in Component \ {c} : <<d, TRUE>> \in todo' <=> <<d, TRUE>> \in todo
    OBVIOUS
  <2> QED
    BY <2>1 DEF Due
<1> QED
  BY <1>1, <1>2 DEF AtWork

LEMMA RegistryStep ==
  ASSUME Faults = {}, Unprefixed, TypeOK, SerialInv, StoreInv, RunInv, DNSInv, ConnectedInv,
         RestoreInv, [SerialNext]_vars
  PROVE  [R!RegistryNext]_R!registryVars
<1>p. RestoreInv' /\ SerialInv'
  BY RestoreStep, SerialStep
<1>1. CASE BootStep
  <2>1. UNCHANGED <<sla, pc, job>>
    BY <1>1 DEF BootStep, StartServing, ListKeys, ReadSLAs, ReloadApps, Ready, Reboot,
       RebootUnclean, outside, locals
  <2>2. CASE Reboot \/ RebootUnclean
    <3>1. /\ phase = "down" /\ phase' = "boot" /\ svc' = [s \in Service |-> 0]
          /\ todo' = {} /\ \A w \in Worker : ~Busy(w)
      BY <2>2 DEF Reboot, RebootUnclean, MayFail, At, SerialInv, OnePerComponent, AtRest,
         Busy
    <3>2. Running' = {}
      BY <3>1 DEF Running, Main, Service
    <3>3. Engaged' = sla'
      <4>1. sla' \subseteq Component \ Builtin
        BY <2>1 DEF TypeOK, SerialInv, OnePerComponent
      <4>2. \A c \in Component \ Builtin : AtWork(c)' <=> c \in sla'
        BY <2>1, <3>1 DEF AtWork, Due, Busy
      <4> QED
        BY <3>1, <4>1, <4>2 DEF Engaged
    <3> QED
      BY <2>1, <3>1, <3>2, <3>3 DEF R!RegistryNext, R!Reboot
  <2>3. CASE StartServing \/ ListKeys \/ ReadSLAs \/ ReloadApps \/ Ready
    <3>1. svc' = svc /\ phase # "down" /\ phase' # "down"
      BY <2>3 DEF StartServing, ListKeys, ReadSLAs, ReloadApps, Ready, At, outside, docker
    <3>2. \A c \in Component \ Builtin : AtWork(c)' <=> AtWork(c)
      BY <2>1, <2>3, BootsDue DEF AtWork, Busy, Comp
    <3>3. Running' = Running /\ Engaged' = Engaged
      BY <3>1, <3>2 DEF Running, Engaged
    <3> QED
      BY <2>1, <3>1, <3>3 DEF R!registryVars
  <2> QED
    BY <1>1, <2>2, <2>3 DEF BootStep
<1>2. CASE Crash
  <2>1. phase # "down" /\ phase' = "down" /\ UNCHANGED <<svc, sla>>
    BY <1>2 DEF Crash, outside, docker
  <2>2. Running' = Running /\ Engaged' = {}
    BY <2>1 DEF Running, Engaged
  <2> QED
    BY <2>1, <2>2 DEF R!RegistryNext, R!Crash
<1>3. ASSUME NEW w \in Worker, Working(w) PROVE [R!RegistryNext]_R!registryVars
  BY <1>3, <1>p, RegistryCalls
<1>4. ASSUME NEW w \in Worker, Spawn(w) PROVE [R!RegistryNext]_R!registryVars
  <2>1. PICK t \in todo : BeginLaunch(w, t[1], FALSE, t[2]) /\ todo' = todo \ {t}
    BY <1>4 DEF Spawn
  <2>2. PICK c \in Component, reload \in BOOLEAN : t = <<c, reload>>
    BY DEF TypeOK
  <2>3. Begins(w, c, FALSE, reload) /\ UNCHANGED <<phase, sla, svc>>
    BY <2>1, <2>2, LaunchBegins
  <2>4. AtWork(c)' /\ \A d \in Component \ {c} : AtWork(d)' <=> AtWork(d)
    <3>1. todo' \subseteq todo /\ \A u \in todo \ todo' : u[1] = c
      BY <2>1, <2>2
    <3> QED
      BY <2>3, <3>1, BeginsAtWork
  \* The reload was going to launch it.
  <2>5. c \notin Builtin => AtWork(c)
    <3>1. c \notin Builtin => reload
      BY <2>1, <2>2 DEF SerialInv, OnePerComponent
    <3>2. c \notin Builtin => c \in sla /\ <<c, TRUE>> \in todo
      BY <2>1, <2>2, <3>1 DEF RestoreInv
    <3> QED
      BY <3>2 DEF AtWork, Due
  <2>6. Running' = Running /\ Engaged' = Engaged
    BY <2>3, <2>4, <2>5 DEF Running, Engaged
  <2> QED
    BY <2>3, <2>6 DEF R!registryVars
<1>5. ASSUME NEW w \in Worker, NEW c \in Component \ Builtin, Quiet(c),
             Install(w, c) \/ Uninstall(w, c)
      PROVE  [R!RegistryNext]_R!registryVars
  <2>1. PICK save \in BOOLEAN : Begins(w, c, save, FALSE)
    BY <1>5, LaunchBegins, UninstallBegins DEF Install
  <2>2. UNCHANGED <<phase, sla, svc, todo>>
    BY <1>5, LaunchBegins, UninstallBegins DEF Install
  <2>3. AtWork(c)' /\ \A d \in Component \ {c} : AtWork(d)' <=> AtWork(d)
    BY <2>1, <2>2, BeginsAtWork
  <2>4. phase = "ready" /\ ~AtWork(c)
    <3>1. \A t \in todo : ~t[2]
      BY <1>5 DEF Quiet, SerialInv, ReloadInv, Batch
    <3> QED
      BY <1>5, <3>1 DEF Quiet, AtWork, Due
  <2>5. Running' = Running /\ c \notin Engaged /\ Engaged' = Engaged \cup {c}
    BY <2>2, <2>3, <2>4 DEF Running, Engaged
  <2> QED
    BY <2>2, <2>4, <2>5 DEF R!RegistryNext, R!Begin
<1>6. CASE UNCHANGED vars
  <2>1. Running' = Running /\ Engaged' = Engaged
    BY <1>6 DEF Running, Engaged, AtWork, Due, Busy, Comp, vars, outside, docker, boot, locals
  <2> QED
    BY <1>6, <2>1 DEF R!registryVars, vars, outside, boot
<1> QED
  BY <1>1, <1>2, <1>3, <1>4, <1>5, <1>6 DEF SerialNext, WorkerStep, Working

\* Under the discipline and with no failing call, installs, uninstalls, reloads,
\* crashes and reboots (LaunchFromSLA, Uninstall, reloadApps) are those of Registry.
THEOREM RegistryImplemented ==
  ASSUME Faults = {}, Unprefixed
  PROVE  SerialSpec => ImplementsRegistry
<1>1. SerialInit => R!RegistryInit
  <2> SUFFICES ASSUME SerialInit PROVE R!RegistryInit
    OBVIOUS
  <2>1. /\ phase = "boot" /\ sla \subseteq Component \ Builtin /\ todo = {}
        /\ svc = [s \in Service |-> 0] /\ \A w \in Worker : ~Busy(w)
    BY ConstantsAssumption DEF SerialInit, Init, Busy
  <2>2. Running = {}
    BY <2>1 DEF Running, Main, Service
  <2>3. Engaged = sla
    BY <2>1 DEF Engaged, AtWork, Due
  <2> QED
    BY <2>1, <2>2, <2>3 DEF R!RegistryInit
<1>2. TypeOK /\ SerialInv /\ StoreInv /\ RunInv /\ DNSInv /\ ConnectedInv /\ RestoreInv
        /\ [SerialNext]_vars => [R!RegistryNext]_R!registryVars
  BY RegistryStep
<1> QED
  BY <1>1, <1>2, RestoreCorrect, PTL DEF SerialSpec, ImplementsRegistry, R!RegistrySpec

\* In a registry, whatever nobody is at work on runs exactly if it is saved.
THEOREM RegistrySettles == R!RegistrySpec => []R!Settled
<1> DEFINE Inv == R!RegistryTypeOK /\ R!Settled
<1>1. R!RegistryInit => Inv
  BY DEF R!RegistryInit, R!RegistryTypeOK, R!Settled
<1>2. Inv /\ [R!RegistryNext]_R!registryVars => Inv'
  <2> SUFFICES ASSUME Inv, [R!RegistryNext]_R!registryVars PROVE Inv'
    OBVIOUS
  <2> USE DEF R!RegistryTypeOK, R!Settled
  <2>1. CASE R!Crash \/ R!Reboot
    BY <2>1 DEF R!Crash, R!Reboot
  <2>2. ASSUME NEW c \in Component \ Builtin,
               \/ R!Begin(c) \/ R!Start(c) \/ R!Stop(c)
               \/ R!Save(c) \/ R!Drop(c) \/ R!End(c)
        PROVE  Inv'
    BY <2>2 DEF R!Begin, R!Start, R!Stop, R!Save, R!Drop, R!End
  <2>3. CASE UNCHANGED R!registryVars
    BY <2>3 DEF R!registryVars
  <2> QED
    BY <2>1, <2>2, <2>3 DEF R!RegistryNext
<1> QED
  BY <1>1, <1>2, PTL DEF R!RegistrySpec
=============================================================================
