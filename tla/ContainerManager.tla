-------------------------- MODULE ContainerManager --------------------------
(***************************************************************************)
(* Installing and uninstalling databox apps and drivers.                   *)
(*                                                                         *)
(* The container manager (CM) runs LaunchFromSLA and Uninstall on          *)
(* goroutines it never serialises: one per API command, one per saved SLA  *)
(* while it reloads, one per built-in component.  They share the Docker    *)
(* swarm, the core network, the arbiter, the SLA store and one unprotected *)
(* Go map.  Every call to one of those is a step of its own here.          *)
(*                                                                         *)
(* A launch is numbered.  The secrets and the token it makes, and the      *)
(* service it creates with them, carry that number: random tokens and      *)
(* Docker IDs never repeat.                                                *)
(***************************************************************************)
EXTENDS Naturals

CONSTANTS
    Component,    \* names an SLA can have
    App, Driver,  \* the components of each supported DataboxType
    NeedsStore,   \* ResourceRequirements.Store is set
    Whitelisted,  \* ExternalWhitelist is not empty
    Builtin,      \* launched at every boot: app-store and core-ui
    Longer,       \* Longer[c]: the names that c is a proper prefix of
    Kind,         \* secrets made for a service: "pem" and "key"; bound: "key"
    Worker,       \* goroutines that can run at the same time
    Faults,       \* the kinds of call that may fail; "remove" is ServiceRemove
    MaxInstalls,  \* bound: install commands
    MaxCrashes    \* bound: crashes of the CM process

FaultKinds == {"network", "secret", "service", "remove", "image", "core", "arbiter",
               "store", "cleanup"}

ASSUME ConstantsAssumption ==
    /\ App \subseteq Component /\ Driver \subseteq Component
    /\ App \cap Driver = {}
    /\ NeedsStore \subseteq Component /\ Whitelisted \subseteq Component
    /\ Builtin \subseteq App \cup Driver
    /\ Longer \in [Component -> SUBSET Component]
    /\ Faults \subseteq FaultKinds
    /\ "key" \in Kind /\ Kind \subseteq {"pem", "key"}
    /\ Component # {}
    /\ MaxInstalls \in Nat /\ MaxCrashes \in Nat

VARIABLES
    svc,        \* service -> launch that created it, 0 if there is none
    secret,     \* <<service, kind>> -> launch that made the secret, 0 if none
    net,        \* component -> state of its overlay network
    conn,       \* <<component, kind>> endpoints the core network connected
    arb,        \* service -> launch whose token the arbiter holds, 0 if none
    granted,    \* components whose SLA permissions the arbiter holds
    sla,        \* SLAs in the CM store
    installed,  \* cm.InstalledComponents
    phase,      \* how far Start has come
    snap,       \* reloadApps: slaList
    todo,       \* goroutines spawned at boot that have not run yet
    pc, job,    \* worker -> next call, and what it works on
    part,       \* worker -> which of its component's services it prepares
    mark,       \* worker -> <<service, launch>> pairs a ServiceList returned
    launches, installs, crashes,
    blind,      \* launches whose PreConfig found no DNS address
    lost,       \* history: a racing write to InstalledComponents was lost
    gone        \* history: components uninstalled for good

docker == <<svc, secret, net>>
outside == <<docker, conn, arb, granted, sla>>
boot == <<phase, snap, todo, installs, crashes>>
memory == <<installed, lost>>
locals == <<job, part, mark>>
vars == <<outside, boot, memory, pc, locals, launches, blind, gone>>

Service == Component \X {"main", "store"}
Main(c) == <<c, "main">>
StoreOf(c) == <<c, "store">>

LaunchSteps == {"preconfig", "createNet", "attachNet", "check", "clearPem",
                "makePem", "clearKey", "makeKey", "register", "connect",
                "store", "storeService", "grant", "create", "save", "track"}
UninstallSteps == {"find", "remove", "listSecrets", "dropSecrets",
                   "disconnect", "forget", "untrack"}
Phases == {"down", "boot", "list", "read", "drivers", "apps", "ready"}

Job == [comp : Component, save : BOOLEAN, reload : BOOLEAN, id : Nat]
NoJob == [comp |-> CHOOSE c \in Component : TRUE,
          save |-> FALSE, reload |-> FALSE, id |-> 0]

TypeOK ==
    /\ svc \in [Service -> Nat]
    /\ secret \in [Service \X Kind -> Nat]
    /\ net \in [Component -> {"none", "bare", "attached"}]
    /\ conn \subseteq Component \X {"peers", "externals"}
    /\ arb \in [Service -> Nat]
    /\ granted \subseteq Component
    /\ sla \subseteq Component
    /\ installed \subseteq Component
    /\ phase \in Phases
    /\ snap \subseteq Component
    /\ todo \subseteq Component \X BOOLEAN
    /\ pc \in [Worker -> {"idle"} \cup LaunchSteps \cup UninstallSteps]
    /\ job \in [Worker -> Job]
    /\ part \in [Worker -> {"main", "store"}]
    /\ mark \in [Worker -> SUBSET (Service \X Nat)]
    /\ launches \in Nat /\ installs \in Nat /\ crashes \in Nat
    /\ blind \subseteq Nat
    /\ lost \in BOOLEAN
    /\ gone \subseteq Component

(***************************************************************************)
(* Helpers                                                                 *)
(***************************************************************************)
MayFail(kind) == kind \in Faults
Comp(w) == job[w].comp
Launch(w) == job[w].id
Target(w) == <<Comp(w), part[w]>>   \* the service genorateSecrets prepares
Busy(w) == pc[w] # "idle"

Step(w, from, to) == pc[w] = from /\ pc' = [pc EXCEPT ![w] = to]
Finish(w, from) == Step(w, from, "idle") /\ job' = [job EXCEPT ![w] = NoJob]

FirstSecret == IF "pem" \in Kind THEN "clearPem" ELSE "clearKey"

\* Docker refuses to remove a secret that a service refers to.
InUse(s, k) == svc[s] # 0 /\ secret[<<s, k>>] = svc[s]

\* ServiceCreate wants a free name, both secrets and the network.
Creatable(s, id) ==
    /\ svc[s] = 0
    /\ \A k \in Kind : secret[<<s, k>>] = id
    /\ net[s[1]] # "none"

\* The services ServiceList returns for the filter name=c: a prefix match.
Matches(c) ==
    {s \in Service : s[1] \in {c} \cup Longer[c] /\ svc[s] # 0}

\* serList[0]: the list is in the order of the names, so c comes before the
\* names that start with c.
FirstMatches(c) ==
    IF svc[Main(c)] # 0 THEN {Main(c)} ELSE Matches(c)


Init ==
    /\ svc = [s \in Service |-> 0]
    /\ secret = [x \in Service \X Kind |-> 0]
    /\ net = [c \in Component |-> "none"]
    /\ conn = {} /\ arb = [s \in Service |-> 0] /\ granted = {}
    /\ sla \in SUBSET (App \cup Driver)   \* saved before the last reboot
    /\ installed = {} /\ lost = FALSE
    /\ phase = "boot" /\ snap = {} /\ todo = {}
    /\ pc = [w \in Worker |-> "idle"] /\ job = [w \in Worker |-> NoJob]
    /\ part = [w \in Worker |-> "main"] /\ mark = [w \in Worker |-> {}]
    /\ launches = 0 /\ installs = 0 /\ crashes = 0 /\ blind = {} /\ gone = {}

(***************************************************************************)
(* LaunchFromSLA                                                           *)
(***************************************************************************)
BeginLaunch(w, c, save, reload) ==
    /\ Step(w, "idle", "preconfig")
    /\ launches' = launches + 1
    /\ job' = [job EXCEPT ![w] = [comp |-> c, save |-> save, reload |-> reload,
                                 id |-> launches + 1]]
    /\ UNCHANGED <<outside, memory, phase, snap, crashes, part, mark, blind>>

\* PreConfig: an existing network is inspected for the core network's address; a
\* failure is only logged, and no address found.
PreConfig(w) ==
    /\ \/ /\ net[Comp(w)] = "none"
          /\ Step(w, "preconfig", "createNet")
          /\ UNCHANGED blind
       \/ /\ net[Comp(w)] # "none"
          /\ Step(w, "preconfig", "check")
          /\ \/ net[Comp(w)] = "attached" /\ UNCHANGED blind
             \/ /\ net[Comp(w)] = "bare" \/ MayFail("network")
                /\ blind' = blind \cup {Launch(w)}
    /\ UNCHANGED <<outside, boot, memory, locals, launches, gone>>

\* A failed NetworkCreate is only logged: the launch goes on with no address.
CreateNetwork(w) ==
    /\ \/ /\ net[Comp(w)] = "none"
          /\ Step(w, "createNet", "attachNet")
          /\ net' = [net EXCEPT ![Comp(w)] = "bare"]
          /\ UNCHANGED blind
       \/ /\ net[Comp(w)] # "none" \/ MayFail("network")
          /\ Step(w, "createNet", "check")
          /\ blind' = blind \cup {Launch(w)}
          /\ UNCHANGED net
    /\ UNCHANGED <<svc, secret, conn, arb, granted, sla, boot, memory, locals,
                   launches, gone>>

\* So is a failed NetworkConnect, or NetworkInspect after it.
AttachCoreNetwork(w) ==
    /\ Step(w, "attachNet", "check")
    /\ \/ net' = [net EXCEPT ![Comp(w)] = "attached"]
       \/ MayFail("network") /\ UNCHANGED net
    /\ \/ net'[Comp(w)] = "attached" /\ UNCHANGED blind
       \/ MayFail("network") /\ blind' = blind \cup {Launch(w)}
    /\ UNCHANGED <<svc, secret, conn, arb, granted, sla, boot, memory, locals,
                   launches, gone>>

\* Mutant of Check: the error path returns without waitGroup.Done().
CheckWithoutDone(w) ==
    /\ \/ Comp(w) \in App \cup Driver /\ Step(w, "check", FirstSecret)
       \/ MayFail("image") /\ Step(w, "check", "idle")
    /\ UNCHANGED <<outside, boot, memory, locals, launches, blind, gone>>

\* Unsupported type, missing image or missing dev mount: return the error.
Check(w) ==
    /\ \/ /\ Comp(w) \in App \cup Driver
          /\ Step(w, "check", FirstSecret)
          /\ UNCHANGED job
       \/ /\ Comp(w) \notin App \cup Driver \/ MayFail("image")
          /\ Finish(w, "check")
    /\ UNCHANGED <<outside, boot, memory, part, mark, launches, blind, gone>>

\* createSecret: remove the secret of that name, unless a service uses it ...
ClearSecret(w, k, from, to) ==
    /\ Step(w, from, to)
    /\ \/ secret' = IF InUse(Target(w), k) THEN secret
                    ELSE [secret EXCEPT ![<<Target(w), k>>] = 0]
       \/ MayFail("secret") /\ UNCHANGED secret
    /\ UNCHANGED <<svc, net, conn, arb, granted, sla, boot, memory, locals,
                   launches, blind, gone>>

\* ... and make a new one, which fails if the name is still taken.
MakeSecret(w, k, from, to) ==
    /\ Step(w, from, to)
    /\ \/ secret' = IF secret[<<Target(w), k>>] # 0 THEN secret
                    ELSE [secret EXCEPT ![<<Target(w), k>>] = Launch(w)]
       \/ MayFail("secret") /\ UNCHANGED secret
    /\ UNCHANGED <<svc, net, conn, arb, granted, sla, boot, memory, locals,
                   launches, blind, gone>>

GenorateSecrets(w) ==
    \/ ClearSecret(w, "pem", "clearPem", "makePem")
    \/ MakeSecret(w, "pem", "makePem", "clearKey")
    \/ ClearSecret(w, "key", "clearKey", "makeKey")
    \/ MakeSecret(w, "key", "makeKey", "register")

\* The new token reaches the arbiter whatever became of the secret.
RegisterToken(w) ==
    /\ Step(w, "register", IF part[w] = "main" THEN "connect" ELSE "storeService")
    /\ \/ arb' = [arb EXCEPT ![Target(w)] = Launch(w)]
       \/ MayFail("arbiter") /\ UNCHANGED arb
    /\ UNCHANGED <<docker, conn, granted, sla, boot, memory, locals, launches,
                   blind, gone>>

\* Mutant of ConnectEndpoints: launchStore is never called.
ConnectWithoutStore(w) ==
    /\ Step(w, "connect", "grant")
    /\ conn' = conn \cup {<<Comp(w), "peers">>}
    /\ UNCHANGED <<docker, arb, granted, sla, boot, memory, locals, launches,
                   blind, gone>>

ConnectEndpoints(w) ==
    /\ Step(w, "connect", IF Comp(w) \in NeedsStore THEN "store" ELSE "grant")
    /\ \/ conn' = conn \cup {<<Comp(w), "peers">>}
       \/ MayFail("core") /\ UNCHANGED conn
    /\ UNCHANGED <<docker, arb, granted, sla, boot, memory, locals, launches,
                   blind, gone>>

\* Mutant of LaunchStore: a running store is not noticed.
LaunchStoreAgain(w) ==
    /\ Step(w, "store", FirstSecret)
    /\ part' = [part EXCEPT ![w] = "store"]
    /\ UNCHANGED <<outside, boot, memory, job, mark, launches, blind, gone>>

\* launchStore: a store that already runs is left alone, with its token.
LaunchStore(w) ==
    /\ \/ /\ svc[StoreOf(Comp(w))] # 0
          /\ Step(w, "store", "grant")
          /\ UNCHANGED part
       \/ /\ svc[StoreOf(Comp(w))] = 0
          /\ Step(w, "store", FirstSecret)
          /\ part' = [part EXCEPT ![w] = "store"]
    /\ UNCHANGED <<outside, boot, memory, job, mark, launches, blind, gone>>

CreateStoreService(w) ==
    /\ Step(w, "storeService", "grant")
    /\ part' = [part EXCEPT ![w] = "main"]
    /\ \/ /\ Creatable(Target(w), Launch(w))
          /\ svc' = [svc EXCEPT ![Target(w)] = Launch(w)]
       \/ /\ ~Creatable(Target(w), Launch(w)) \/ MayFail("service")
          /\ UNCHANGED svc
    /\ UNCHANGED <<secret, net, conn, arb, granted, sla, boot, memory, job, mark,
                   launches, blind, gone>>

\* addPermissionsFromSLA: a driver's whitelist goes to the core network,
\* everything else to the arbiter.
AddPermissions(w) ==
    /\ Step(w, "grant", "create")
    /\ \/ granted' = granted \cup {Comp(w)}
       \/ MayFail("arbiter") /\ UNCHANGED granted
    /\ \/ /\ Comp(w) \in Driver \cap Whitelisted
          /\ conn' = conn \cup {<<Comp(w), "externals">>}
       \/ /\ Comp(w) \notin Driver \cap Whitelisted \/ MayFail("core")
          /\ UNCHANGED conn
    /\ UNCHANGED <<docker, arb, sla, boot, memory, locals, launches, blind, gone>>

\* Mutant of CreateService: its error is logged and the launch goes on.
CreateServiceLogged(w) ==
    /\ Step(w, "create", IF job[w].save THEN "save" ELSE "track")
    /\ \/ /\ Creatable(Target(w), Launch(w))
          /\ svc' = [svc EXCEPT ![Target(w)] = Launch(w)]
       \/ MayFail("service") /\ UNCHANGED svc
    /\ UNCHANGED <<secret, net, conn, arb, granted, sla, boot, memory, locals,
                   launches, blind, gone>>

CreateService(w) ==
    /\ \/ /\ Creatable(Target(w), Launch(w))
          /\ svc' = [svc EXCEPT ![Target(w)] = Launch(w)]
          /\ Step(w, "create", IF job[w].save THEN "save" ELSE "track")
          /\ UNCHANGED job
       \/ /\ ~Creatable(Target(w), Launch(w)) \/ MayFail("service")
          /\ Finish(w, "create")
          /\ UNCHANGED svc
    /\ UNCHANGED <<secret, net, conn, arb, granted, sla, boot, memory, part, mark,
                   launches, blind, gone>>

SaveSLA(w) ==
    /\ Step(w, "save", "track")
    /\ \/ sla' = sla \cup {Comp(w)}
       \/ MayFail("store") /\ UNCHANGED sla
    /\ UNCHANGED <<docker, conn, arb, granted, boot, memory, locals, launches,
                   blind, gone>>

\* InstalledComponents has no lock.  Two goroutines in a map write at once is
\* a data race: the runtime may abort the process (Crash) or lose one write.
WriteMap(w, value) ==
    \/ installed' = value /\ UNCHANGED lost
    \/ /\ \E v \in Worker \ {w} : pc[v] \in {"track", "untrack"}
       /\ lost' = TRUE
       /\ UNCHANGED installed

\* Mutant of Track: keyed by the service rather than by the name in the SLA.
TrackService(w) ==
    /\ Finish(w, "track")
    /\ WriteMap(w, installed \cup {Main(Comp(w))})
    /\ UNCHANGED <<outside, boot, part, mark, launches, blind, gone>>

Track(w) ==
    /\ Finish(w, "track")
    /\ WriteMap(w, installed \cup {Comp(w)})
    /\ UNCHANGED <<outside, boot, part, mark, launches, blind, gone>>

LaunchStep(w) ==
    \/ PreConfig(w) \/ CreateNetwork(w) \/ AttachCoreNetwork(w) \/ Check(w)
    \/ GenorateSecrets(w) \/ RegisterToken(w) \/ ConnectEndpoints(w)
    \/ LaunchStore(w) \/ CreateStoreService(w) \/ AddPermissions(w)
    \/ CreateService(w) \/ SaveSLA(w) \/ Track(w)

(***************************************************************************)
(* Uninstall                                                               *)
(***************************************************************************)
FindService(w) ==
    /\ \/ /\ FirstMatches(Comp(w)) = {}   \* not running: nothing is removed
          /\ Finish(w, "find")
          /\ UNCHANGED mark
       \/ \E s \in FirstMatches(Comp(w)) :
          /\ Step(w, "find", "remove")
          /\ mark' = [mark EXCEPT ![w] = {<<s, svc[s]>>}]
          /\ UNCHANGED job
    /\ UNCHANGED <<outside, boot, memory, part, launches, blind, gone>>

\* ServiceRemove goes by ID; its error is only logged.
RemoveService(w) ==
    /\ Step(w, "remove", "listSecrets")
    /\ \/ svc' = [s \in Service |-> IF <<s, svc[s]>> \in mark[w] THEN 0 ELSE svc[s]]
       \/ MayFail("remove") /\ UNCHANGED svc
    /\ mark' = [mark EXCEPT ![w] = {}]
    /\ UNCHANGED <<secret, net, conn, arb, granted, sla, boot, memory, job, part,
                   launches, blind, gone>>

\* The secrets to remove are looked up in the services that match now.
ListSecrets(w) ==
    /\ Step(w, "listSecrets", "dropSecrets")
    /\ mark' = [mark EXCEPT ![w] = {<<s, svc[s]>> : s \in Matches(Comp(w))}]
    /\ UNCHANGED <<outside, boot, memory, job, part, launches, blind, gone>>

DropSecrets(w) ==
    /\ Step(w, "dropSecrets", "disconnect")
    /\ \/ secret' = [x \in Service \X Kind |->
            IF <<x[1], secret[x]>> \in mark[w] /\ ~InUse(x[1], x[2])
              THEN 0 ELSE secret[x]]
       \/ MayFail("secret") /\ UNCHANGED secret
    /\ mark' = [mark EXCEPT ![w] = {}]
    /\ UNCHANGED <<svc, net, conn, arb, granted, sla, boot, memory, job, part,
                   launches, blind, gone>>

\* Mutant of Disconnect: it takes back only what AddPermissions connected.
DisconnectExternals(w) ==
    /\ Step(w, "disconnect", "forget")
    /\ conn' = conn \ {<<Comp(w), "externals">>}
    /\ UNCHANGED <<docker, arb, granted, sla, boot, memory, locals, launches,
                   blind, gone>>

\* Mutant of Disconnect: DeleteSLA is never called.
DisconnectOnly(w) ==
    /\ Step(w, "disconnect", "untrack")
    /\ conn' = {e \in conn : e[1] # Comp(w)}
    /\ UNCHANGED <<docker, arb, granted, sla, boot, memory, locals, launches,
                   blind, gone>>

Disconnect(w) ==
    /\ Step(w, "disconnect", "forget")
    /\ \/ conn' = {e \in conn : e[1] # Comp(w)}
       \/ MayFail("core") /\ UNCHANGED conn
    /\ UNCHANGED <<docker, arb, granted, sla, boot, memory, locals, launches,
                   blind, gone>>

\* A launch of c that will save its SLA is under way.
Saving(c) == \E v \in Worker : Busy(v) /\ Comp(v) = c /\ job[v].save

DeleteSLA(w) ==
    /\ Step(w, "forget", "untrack")
    /\ \/ /\ sla' = sla \ {Comp(w)}
          /\ gone' = IF Saving(Comp(w)) THEN gone ELSE gone \cup {Comp(w)}
       \/ MayFail("store") /\ UNCHANGED <<sla, gone>>
    /\ UNCHANGED <<docker, conn, arb, granted, boot, memory, locals, launches,
                   blind>>

Untrack(w) ==
    /\ Finish(w, "untrack")
    /\ WriteMap(w, installed \ {Comp(w)})
    /\ UNCHANGED <<outside, boot, part, mark, launches, blind, gone>>

UninstallStep(w) ==
    \/ FindService(w) \/ RemoveService(w) \/ ListSecrets(w) \/ DropSecrets(w)
    \/ Disconnect(w) \/ DeleteSLA(w) \/ Untrack(w)

(***************************************************************************)
(* processAPICommands: a goroutine per command, none waits for another.    *)
(***************************************************************************)
ApiUp == phase \notin {"down", "boot"}

Install(w, c) ==
    /\ ApiUp /\ installs < MaxInstalls
    /\ BeginLaunch(w, c, TRUE, FALSE)
    /\ installs' = installs + 1
    /\ gone' = gone \ {c}
    /\ UNCHANGED todo

Uninstall(w, c) ==
    /\ ApiUp
    /\ Step(w, "idle", "find")
    /\ job' = [job EXCEPT ![w] = [NoJob EXCEPT !.comp = c]]
    /\ UNCHANGED <<outside, boot, memory, part, mark, launches, blind, gone>>

(***************************************************************************)
(* Start, reloadApps and the crash of the CM.  Pairs in todo are           *)
(* <<component, part of the reload>>.                                      *)
(***************************************************************************)
At(from, to) == phase = from /\ phase' = to

\* The store is up: start the API, launchAppStore and launchUI.
StartServing ==
    /\ At("boot", "list")
    /\ todo' = Builtin \X {FALSE}
    /\ UNCHANGED <<outside, snap, installs, crashes, memory, pc, locals, launches,
                   blind, gone>>

\* GetAllSLAs lists the keys, then reads each; with no list nothing is reloaded, and
\* a key deleted since, or that cannot be read, is skipped.
ListKeys ==
    /\ At("list", "read")
    /\ \/ snap' = sla
       \/ MayFail("store") /\ snap' = {}
    /\ UNCHANGED <<outside, todo, installs, crashes, memory, pc, locals, launches,
                   blind, gone>>

ReadSLAs ==
    /\ At("read", "drivers")
    /\ \/ snap' = snap \cap sla
       \/ MayFail("store") /\ snap' \in SUBSET (snap \cap sla)
    /\ todo' = todo \cup ((snap' \cap Driver) \X {TRUE})
    /\ UNCHANGED <<outside, installs, crashes, memory, pc, locals, launches,
                   blind, gone>>

Reloading(w) == job[w].reload

\* Mutant of ReloadDone: waitGroup.Add(1) moved into the goroutines.
ReloadNotRunning == \A w \in Worker : ~Reloading(w)

\* waitGroup.Wait()
ReloadDone ==
    /\ \A t \in todo : ~t[2]
    /\ \A w \in Worker : ~Reloading(w)

\* Mutant of ReloadApps: it launches only what is installed already.
ReloadInstalledApps ==
    /\ At("drivers", "apps") /\ ReloadDone
    /\ todo' = todo \cup ((snap \cap App \cap installed) \X {TRUE})
    /\ UNCHANGED <<outside, snap, installs, crashes, memory, pc, locals, launches,
                   blind, gone>>

ReloadApps ==
    /\ At("drivers", "apps") /\ ReloadDone
    /\ todo' = todo \cup ((snap \cap App) \X {TRUE})
    /\ UNCHANGED <<outside, snap, installs, crashes, memory, pc, locals, launches,
                   blind, gone>>

Ready ==
    /\ At("apps", "ready") /\ ReloadDone
    /\ snap' = {}
    /\ UNCHANGED <<outside, todo, installs, crashes, memory, pc, locals, launches,
                   blind, gone>>

\* Mutant of Spawn: a reloaded component's SLA is saved as a new one's is.
SpawnSaving(w) ==
    \E t \in todo :
        /\ BeginLaunch(w, t[1], TRUE, t[2])
        /\ todo' = todo \ {t}
        /\ UNCHANGED <<installs, gone>>

Spawn(w) ==
    \E t \in todo :
        /\ BeginLaunch(w, t[1], FALSE, t[2])
        /\ todo' = todo \ {t}
        /\ UNCHANGED <<installs, gone>>

\* The process dies; what Docker, the arbiter and the store hold stays.
Crash ==
    /\ phase # "down" /\ crashes < MaxCrashes
    /\ phase' = "down" /\ crashes' = crashes + 1
    /\ snap' = {} /\ todo' = {} /\ installed' = {} /\ lost' = FALSE
    /\ pc' = [w \in Worker |-> "idle"] /\ job' = [w \in Worker |-> NoJob]
    /\ part' = [w \in Worker |-> "main"] /\ mark' = [w \in Worker |-> {}]
    /\ UNCHANGED <<outside, installs, launches, blind, gone>>

\* Mutant of Reboot: the components' networks are not removed.
RebootKeepingNetworks ==
    /\ At("down", "boot")
    /\ svc' = [s \in Service |-> 0]
    /\ secret' = [x \in Service \X Kind |-> 0]
    /\ net' = [c \in Component |-> IF net[c] = "none" THEN "none" ELSE "bare"]
    /\ conn' = {} /\ arb' = [s \in Service |-> 0] /\ granted' = {}
    /\ launches' = 0 /\ blind' = {}
    /\ UNCHANGED <<sla, snap, todo, installs, crashes, memory, pc, locals, gone>>

\* checkForAndFixBadRestarts, completed: services, networks and secrets are
\* removed, the core network and the arbiter start afresh; the store's volume
\* keeps the SLAs.
Reboot ==
    /\ At("down", "boot")
    /\ svc' = [s \in Service |-> 0]
    /\ secret' = [x \in Service \X Kind |-> 0]
    /\ net' = [c \in Component |-> "none"]
    /\ conn' = {} /\ arb' = [s \in Service |-> 0] /\ granted' = {}
    /\ launches' = 0 /\ blind' = {}   \* nothing that bears a number is left
    /\ UNCHANGED <<sla, snap, todo, installs, crashes, memory, pc, locals, gone>>

\* The clean-up of a boot is cut short once the services have gone: the CM dies
\* before the core network is restarted, before the networks are removed, or
\* before the secrets are.  The next boot finds no service and cleans nothing.
\* Or it runs to its end although removing the networks fails.
RebootUnclean ==
    /\ MayFail("cleanup")
    /\ At("down", "boot")
    /\ svc' = [s \in Service |-> 0]
    /\ \/ UNCHANGED <<net, conn, secret>>
       \/ /\ net' = [c \in Component |-> IF net[c] = "none" THEN "none" ELSE "bare"]
          /\ secret' \in {secret, [x \in Service \X Kind |-> 0]}
          /\ conn' = {}
       \/ /\ net' = [c \in Component |-> "none"]
          /\ conn' = {}
          /\ UNCHANGED secret
    /\ arb' = [s \in Service |-> 0] /\ granted' = {}
    /\ UNCHANGED <<sla, snap, todo, installs, crashes, memory, pc, locals,
                   launches, blind, gone>>

BootStep ==
    \/ StartServing \/ ListKeys \/ ReadSLAs \/ ReloadApps \/ Ready
    \/ Reboot \/ RebootUnclean

WorkerStep(w) == LaunchStep(w) \/ UninstallStep(w) \/ Spawn(w)

Next ==
    \/ BootStep
    \/ Crash
    \/ \E w \in Worker : WorkerStep(w)
    \/ \E w \in Worker, c \in Component : Install(w, c) \/ Uninstall(w, c)

Spec == Init /\ [][Next]_vars

\* Goroutines are scheduled; the pool of workers is the model's, so a spawned
\* goroutine gets one of them even if commands keep the pool busy.
Fairness ==
    /\ WF_vars(BootStep)
    /\ \A w \in Worker : WF_vars(LaunchStep(w)) /\ WF_vars(UninstallStep(w))
    /\ SF_vars(\E w \in Worker : Spawn(w))

FairSpec == Spec /\ Fairness

(***************************************************************************)
(* The discipline a careful user keeps: built-in components are left       *)
(* alone, and a component gets a command only once the boot is over and    *)
(* nothing else is being done to it.                                       *)
(***************************************************************************)
Quiet(c) == phase = "ready" /\ \A w \in Worker : Busy(w) => Comp(w) # c

SerialInit == Init /\ sla \cap Builtin = {}

SerialNext ==
    \/ BootStep
    \/ Crash
    \/ \E w \in Worker : WorkerStep(w)
    \/ \E w \in Worker, c \in Component \ Builtin :
          Quiet(c) /\ (Install(w, c) \/ Uninstall(w, c))

SerialSpec == SerialInit /\ [][SerialNext]_vars
SerialFairSpec == SerialSpec /\ Fairness

(***************************************************************************)
(* Properties                                                              *)
(***************************************************************************)

\* Whatever commands overlap, a component never runs before the arbiter holds
\* a token for it and its SLA's permissions, nor before its store, if it needs
\* one, has a token: the order of the calls in LaunchFromSLA.
ReadyBeforeStart ==
    "arbiter" \notin Faults =>
      \A c \in Component : svc[Main(c)] # 0 =>
        /\ arb[Main(c)] # 0
        /\ c \in granted
        /\ c \in NeedsStore => arb[StoreOf(c)] # 0

\* A component uninstalled with no install of it under way stays out of the
\* SLA store until somebody installs it again, whatever the reload that was
\* launching it meanwhile and the crashes that follow do.
UninstallSticks == gone \cap sla = {}

\* While reloadApps still has a driver to launch, it launches no app.
DriversFirst ==
    \A w \in Worker : Reloading(w) /\ Comp(w) \in App =>
        /\ \A t \in todo : t[2] => t[1] \notin Driver
        /\ \A v \in Worker : Reloading(v) => Comp(v) \notin Driver

\* Under the discipline a store's token is the one the arbiter holds, even when
\* its component is installed again while the store runs.
StoreTokenAgreement ==
    "arbiter" \notin Faults =>
      \A c \in Component : svc[StoreOf(c)] # 0 => arb[StoreOf(c)] = svc[StoreOf(c)]

\* Under the discipline, a component the CM lists as installed is running, or
\* is just being uninstalled, unless a racing map write was lost or the names
\* of other components start with its name.
InstalledIsRunning ==
    (~lost /\ \A c \in Component : Longer[c] = {}) =>
      \A c \in installed : svc[Main(c)] # 0
                           \/ \E w \in Worker : pc[w] \in UninstallSteps /\ Comp(w) = c

\* Under the discipline and with no failing call, every running component was
\* given the address of the core network as its DNS server.
StartedWithDNS ==
    Faults = {} => \A c \in Component : svc[Main(c)] \notin blind

\* Under the discipline, with no failing call and no name that starts with
\* another, the core network connects only components that run or are just being
\* launched or uninstalled, but for what a crash leaves until the next boot.
OnlyRunningConnected ==
    (Faults = {} /\ \A c \in Component : Longer[c] = {}) =>
      \A e \in conn : \/ svc[Main(e[1])] # 0
                      \/ \E w \in Worker : Busy(w) /\ Comp(w) = e[1]
                      \/ phase = "down"

\* The reload has yet to launch c.
Due(c) ==
    /\ c \in sla
    /\ \/ phase \in {"boot", "list", "read"}
       \/ phase = "drivers" /\ c \notin Driver
       \/ <<c, TRUE>> \in todo

AtWork(c) == Due(c) \/ \E w \in Worker : Busy(w) /\ Comp(w) = c

Unprefixed == \A c \in Component : Longer[c] = {}

Whole(c) ==
    /\ svc[Main(c)] # 0 /\ (c \in NeedsStore => svc[StoreOf(c)] # 0)
    /\ net[c] = "attached" /\ <<c, "peers">> \in conn
    /\ lost \/ c \in installed

Absent(c) ==
    /\ svc[Main(c)] = 0
    /\ \A e \in conn : e[1] # c
    /\ lost \/ c \notin installed

\* Under the discipline, with no failing call and no name that starts with
\* another, installs and uninstalls are all or nothing whenever the CM crashes
\* and whatever was saved: a component that no command is at work on and the
\* reload need not launch is saved and runs, with its store, network, endpoint
\* and entry in the map, or there is none of it but an old store or network.
AllOrNothing ==
    (Faults = {} /\ Unprefixed /\ phase # "down") =>
      \A c \in Component \ Builtin : ~AtWork(c) =>
        IF c \in sla THEN Whole(c) ELSE Absent(c)

\* Under the discipline and the same conditions, what the CM does to the services
\* and the SLA store, reloads, crashes and reboots included, is what Registry allows:
\* a component is saved once it runs, its SLA is deleted once it has stopped, and
\* whoever was at work on it leaves it saved and running, or neither.
Running == {c \in Component \ Builtin : svc[Main(c)] # 0}
Engaged == {c \in Component \ Builtin : phase # "down" /\ AtWork(c)}

R == INSTANCE Registry WITH
    Component <- Component \ Builtin, up <- phase # "down",
    saved <- sla, running <- Running, busy <- Engaged

ImplementsRegistry == R!RegistrySpec

\* A boot always comes to an end: every launch the reload waits for finishes.
BootCompletes == phase = "boot" ~> phase \in {"ready", "down"}

\* With no failing call, a component whose SLA was saved runs again after the
\* boot, unless the CM crashes once more.
SavedComesBack ==
    \A c \in Component :
      (phase = "boot" /\ c \in sla) ~> (svc[Main(c)] # 0 \/ phase = "down")

\* containerManager.go:918, "update the arbiter with the containers token": the
\* arbiter holds the token a running component was given.  Installing it again
\* makes a new token and registers it before ServiceCreate finds the name taken.
TokenAgreement ==
    \A c \in Component :
        (svc[Main(c)] # 0 /\ \A w \in Worker : Busy(w) => Comp(w) # c) =>
            arb[Main(c)] = svc[Main(c)]

\* containerManager.go:398, "Uninstall will remove the databox app or driver by
\* service name": the service it removes is the named component's.
UninstallRemovesNamed ==
    [][\A w \in Worker : RemoveService(w) =>
         \A s \in Service : svc'[s] # svc[s] => s = Main(Comp(w))]_vars


(***************************************************************************)
(* The inductive invariants of the proofs                                  *)
(***************************************************************************)

\* No launch that will save its SLA is of a component uninstalled for good.
SticksInv ==
    /\ UninstallSticks
    /\ \A w \in Worker :
         /\ job[w].save => Comp(w) \notin gone
         /\ pc[w] = "idle" => ~job[w].save
         /\ pc[w] = "save" => job[w].save

\* What a launch has put in place by the time it makes a given call.
Prepared(w) ==
    /\ pc[w] \in LaunchSteps => job[w].id # 0
    /\ part[w] = "store" =>
         pc[w] \in {"clearPem", "makePem", "clearKey", "makeKey", "register",
                    "storeService"}
    /\ pc[w] = "storeService" => part[w] = "store" /\ arb[StoreOf(Comp(w))] # 0
    /\ pc[w] \in {"connect", "store", "grant", "create"} \/ part[w] = "store" =>
         arb[Main(Comp(w))] # 0
    /\ pc[w] \in {"grant", "create"} /\ Comp(w) \in NeedsStore =>
         arb[StoreOf(Comp(w))] # 0
    /\ pc[w] = "create" => Comp(w) \in granted

\* Before the API and after a crash, no goroutine works or waits to.
AtRest == phase \in {"down", "boot"} =>
    todo = {} /\ \A w \in Worker : pc[w] = "idle" /\ part[w] = "main"

ReadyInv ==
    /\ AtRest
    /\ \A w \in Worker : Prepared(w)
    /\ \A s \in Service : svc[s] # 0 => arb[s] # 0
    /\ \A c \in Component : svc[Main(c)] # 0 =>
         c \in granted /\ (c \in NeedsStore => arb[StoreOf(c)] # 0)

\* The components whose launches reloadApps is waiting for.
Batch == CASE phase = "drivers" -> Driver
           [] phase = "apps" -> App
           [] OTHER -> {}

ReloadInv ==
    /\ \A t \in todo : t[2] => t[1] \in Batch
    /\ \A w \in Worker : Reloading(w) => Comp(w) \in Batch

\* launchStore is the only call that makes a worker prepare a store.
PartInv ==
    \A w \in Worker :
        /\ part[w] = "store" =>
             pc[w] \in {"clearPem", "makePem", "clearKey", "makeKey", "register",
                        "storeService"}
        /\ pc[w] = "storeService" => part[w] = "store"

\* Under the discipline at most one goroutine works on a component or waits to.
\* Built-in components are never saved, so the reload does not launch them again.
OnePerComponent ==
    /\ AtRest
    /\ \A v, w \in Worker : v # w /\ Busy(v) /\ Busy(w) => Comp(v) # Comp(w)
    /\ \A t \in todo :
         /\ t[2] => t[1] \notin Builtin
         /\ ~t[2] => t[1] \in Builtin
         /\ \A w \in Worker : Busy(w) => Comp(w) # t[1]
    /\ sla \cap Builtin = {} /\ snap \cap Builtin = {}
    /\ \A w \in Worker :
         /\ Busy(w) /\ phase # "ready" => Reloading(w) \/ Comp(w) \in Builtin
         /\ job[w].save => Comp(w) \notin Builtin

SerialInv == PartInv /\ SticksInv /\ ReloadInv /\ OnePerComponent

\* A store is prepared only where none runs, and the token registered for it is
\* that of the launch that prepares it.
StoreAhead(w) ==
    /\ part[w] = "store" => svc[StoreOf(Comp(w))] = 0
    /\ pc[w] = "storeService" => arb[StoreOf(Comp(w))] = Launch(w)

StoreInv ==
    /\ \A w \in Worker : StoreAhead(w)
    /\ \A c \in Component : svc[StoreOf(c)] # 0 => arb[StoreOf(c)] = svc[StoreOf(c)]

\* What is installed runs until the uninstall has removed its service.
Removed(w) == pc[w] \in UninstallSteps \ {"find", "remove"}

RunInv ==
    /\ phase \in {"down", "boot"} => installed = {}
    /\ \A w \in Worker :
         /\ pc[w] \in LaunchSteps => Launch(w) # 0
         /\ pc[w] \in {"save", "track"} => svc[Main(Comp(w))] # 0
         /\ pc[w] = "remove" => \A x \in mark[w] : x[1][1] = Comp(w)
    /\ ~lost => \A c \in installed :
         svc[Main(c)] # 0 \/ \E w \in Worker : Comp(w) = c /\ Removed(w)

\* With no failing call a network without the core network is one that a launch
\* is about to attach, or that a crash left behind.
DNSInv ==
    /\ blind = {}
    /\ \A w \in Worker : pc[w] = "createNet" => net[Comp(w)] = "none"
    /\ phase # "down" =>
         \A c \in Component : net[c] = "bare" =>
            \E w \in Worker : pc[w] = "attachNet" /\ Comp(w) = c

\* With no failing call a launch whose component does not run has what
\* ServiceCreate wants: the secrets it has made and the network.
SecretMade(w, k) == secret[<<Main(Comp(w)), k>>] = Launch(w)
SecretClear(w, k) == secret[<<Main(Comp(w)), k>>] = 0

CreatableInv(w) ==
    /\ pc[w] \in LaunchSteps \ {"preconfig", "createNet"} => net[Comp(w)] # "none"
    /\ pc[w] \in LaunchSteps /\ svc[Main(Comp(w))] = 0 =>
         /\ "pem" \in Kind /\ pc[w] = "makePem" /\ part[w] = "main" =>
              SecretClear(w, "pem")
         /\ pc[w] = "makeKey" /\ part[w] = "main" => SecretClear(w, "key")
         /\ "pem" \in Kind /\ (part[w] = "store" \/
              pc[w] \in {"clearKey", "makeKey", "register", "connect", "store", "grant",
                         "create"}) => SecretMade(w, "pem")
         /\ part[w] = "store" \/
              pc[w] \in {"register", "connect", "store", "grant", "create"} =>
                SecretMade(w, "key")

\* Nothing is connected for a component that does not run, unless its launch has
\* come to connecting it or its uninstall has yet to disconnect it.
Unconnected(c) == svc[Main(c)] = 0 => \A e \in conn : e[1] # c

ConnInv(w) ==
    /\ part[w] = "main" /\
         pc[w] \in {"preconfig", "createNet", "attachNet", "check", "clearPem", "makePem",
                    "clearKey", "makeKey", "register", "connect", "find"} =>
           Unconnected(Comp(w))
    /\ pc[w] \in {"forget", "untrack", "save", "track"} => Unconnected(Comp(w))

ConnectedInv ==
    /\ \A w \in Worker :
         /\ CreatableInv(w) /\ ConnInv(w)
         /\ pc[w] = "dropSecrets" => \A x \in mark[w] : x[1][1] = Comp(w)
    /\ phase # "down" =>
         \A c \in Component : Unconnected(c) \/ \E w \in Worker : Busy(w) /\ Comp(w) = c
=============================================================================
