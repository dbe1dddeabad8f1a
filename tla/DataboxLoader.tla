---------------------------- MODULE DataboxLoader ----------------------------
(***************************************************************************)
(* Databox.Start: what the container manager (CM) does at every boot       *)
(* before it starts its API.  It cleans up after a bad restart, starts the *)
(* core network, creates the global secrets, puts the core network's       *)
(* address into its own service, which restarts it, and starts the arbiter.*)
(*                                                                         *)
(* The CM is a swarm service itself: swarm starts it again when it exits,  *)
(* and whoever launched the databox launches it again when its service has *)
(* gone.  Between any two calls it can crash, or the host can reboot,      *)
(* which also stops the core network: a container with no restart policy.  *)
(* A number names a core-network container and its IP address.             *)
(***************************************************************************)
EXTENDS Naturals, FiniteSets

CONSTANTS
    Component,   \* services the CM launches once it is up
    Faults,      \* what may fail: "remove", "start" or "secret" (to create one)
    MaxMishaps   \* bound: crashes, reboots and failing calls

ASSUME LoaderAssumption ==
    /\ Component \cap {"cm", "arbiter"} = {}
    /\ Faults \subseteq {"remove", "start", "secret"} /\ MaxMishaps \in Nat

VARIABLES
    services,   \* swarm services with a databox.type label
    core,       \* the running databox-network container, 0 if none
    coreNet,    \* the system network that container is on, 0 if it is cut off
    relay,      \* databox-broadcast-relay runs
    sysnet,     \* databox-system-net, 0 if there is none
    nets,       \* components that have an overlay network
    secrets,    \* names of the secrets that exist
    spec,       \* what updateContainerManager writes into the CM's service
    made,       \* numbers given out so far
    pc,         \* next call of the CM process
    resolv,     \* the process's name server
    env,        \* the process's DATABOX_DNS_IP
    list,       \* services checkForAndFixBadRestarts has yet to remove
    bad,        \* badRestartDetected
    old,        \* history: services this process found when it started
    mishaps     \* crashes, reboots and failed calls so far

swarm == <<services, spec>>
network == <<core, coreNet, relay, sysnet, nets, made>>
process == <<resolv, env, list, bad, old>>
vars == <<swarm, network, secrets, pc, process, mishaps>>

Global == {"DATABOX_ROOT_CA", "CM_KEY", "DATABOX_ARBITER.pem", "DATABOX.pem",
           "DATABOX_NETWORK_KEY", "ZMQ_PUBLIC_KEY", "ZMQ_SECRET_KEY"}
Zmq == {"ZMQ_PUBLIC_KEY", "ZMQ_SECRET_KEY"}
Service == {"cm", "arbiter"} \cup Component

\* The secrets that updateContainerManager and startArbiter refer to.
CMSecrets == {"ZMQ_PUBLIC_KEY", "DATABOX_ROOT_CA"}
ArbiterSecrets == {"CM_KEY", "ZMQ_SECRET_KEY"}

\* As launched: no DNSConfig, no network, and none of the global secrets.
NewSpec == [dns |-> 0, net |-> 0, env |-> 0, refs |-> {}]

TypeOK ==
    /\ services \subseteq Service
    /\ core \in Nat /\ coreNet \in Nat /\ sysnet \in Nat /\ made \in Nat
    /\ relay \in BOOLEAN
    /\ nets \subseteq Component
    /\ secrets \subseteq Global \cup Component
    /\ spec \in [dns : Nat, net : Nat, env : Nat, refs : SUBSET Global]
    /\ pc \in {"down", "list", "services", "removeCore", "networks", "secrets",
               "core", "sysnet", "startCore", "relay", "createSecrets",
               "update", "arbiter", "ready"}
    /\ resolv \in Nat /\ env \in Nat
    /\ list \subseteq Service /\ old \subseteq Service
    /\ bad \in BOOLEAN /\ mishaps \in Nat

Init ==
    /\ services = {"cm"} /\ spec = NewSpec
    /\ core = 0 /\ coreNet = 0 /\ relay = FALSE /\ sysnet = 0 /\ nets = {}
    /\ made = 0 /\ secrets = {}
    /\ pc = "down" /\ resolv = 0 /\ env = 0 /\ list = {} /\ bad = FALSE
    /\ old = {} /\ mishaps = 0

Mishap == mishaps < MaxMishaps /\ mishaps' = mishaps + 1
Fails(kind) == kind \in Faults /\ Mishap
Step(from, to) == pc = from /\ pc' = to

\* The process exits: a fatal error, or a panic.
Exit(from) == Step(from, "down")

\* Docker gives services and containers IDs of their own; what
\* getThisContainerID finds in /proc/self/cgroup is the container's.
IDOf(s) == <<"service", s>>
getThisContainerID == <<"container", "cm">>

\* The CM's task, or an old service, is on the system network.
SysnetInUse == sysnet # 0 /\ (spec.net = sysnet \/ services \ {"cm"} # {})

\* Docker removes no secret that a service refers to, and creates no service
\* that refers to one there is not.
RefsOf(s) ==
    CASE s = "cm"      -> spec.refs
      [] s = "arbiter" -> ArbiterSecrets
      [] OTHER         -> CMSecrets \cup {s}

Held == {x \in secrets : \E s \in services : x \in RefsOf(s)}

(***************************************************************************)
(* checkForAndFixBadRestarts                                               *)
(***************************************************************************)
StartProcess ==
    /\ "cm" \in services
    /\ Step("down", "list")
    /\ resolv' = spec.dns /\ env' = spec.env
    /\ list' = {} /\ bad' = FALSE /\ old' = services \ {"cm"}
    /\ UNCHANGED <<swarm, network, secrets, mishaps>>

\* Mutant of CheckForBadRestart: off by one, as if the CM were not listed.
CheckForTwoOld ==
    /\ \/ /\ Cardinality(services) > 2
          /\ Step("list", "services")
          /\ bad' = TRUE /\ list' = services
       \/ /\ Cardinality(services) <= 2
          /\ Step("list", "core")
          /\ UNCHANGED <<bad, list>>
    /\ UNCHANGED <<swarm, network, secrets, resolv, env, old, mishaps>>

\* Mutant of CheckForBadRestart: it keeps the IDs of the services only.
CheckKeepingIDs ==
    /\ \/ /\ Cardinality(services) > 1
          /\ Step("list", "services")
          /\ bad' = TRUE /\ list' = {IDOf(s) : s \in services}
       \/ /\ Cardinality(services) <= 1
          /\ Step("list", "core")
          /\ UNCHANGED <<bad, list>>
    /\ UNCHANGED <<swarm, network, secrets, resolv, env, old, mishaps>>

\* The clean-up starts when there are more services than the CM's.
CheckForBadRestart ==
    /\ \/ /\ Cardinality(services) > 1
          /\ Step("list", "services")
          /\ bad' = TRUE /\ list' = services
       \/ /\ Cardinality(services) <= 1
          /\ Step("list", "core")
          /\ UNCHANGED <<bad, list>>
    /\ UNCHANGED <<swarm, network, secrets, resolv, env, old, mishaps>>

\* The service the loop skips is the one whose ID is the CM's.
RemoveService(s) ==
    /\ pc = "services" /\ s \in list
    /\ list' = list \ {s}
    /\ \/ /\ services' = IF IDOf(s) = getThisContainerID THEN services
                         ELSE services \ {s}
          /\ UNCHANGED mishaps
       \/ Fails("remove") /\ UNCHANGED services
    /\ UNCHANGED <<spec, network, secrets, pc, resolv, env, bad, old>>

\* removeContainer: an error is only logged, and the container runs on.
RemoveCoreNetwork ==
    /\ list = {} /\ Step("services", "removeCore")
    /\ \/ core' = 0 /\ UNCHANGED mishaps
       \/ core # 0 /\ Fails("remove") /\ UNCHANGED core
    /\ UNCHANGED <<swarm, coreNet, relay, sysnet, nets, made, secrets, process>>

\* Containers other than the CM's are disconnected, then the network is removed,
\* unless somebody is still connected to it.
RemoveNetworks ==
    /\ Step("removeCore", "networks")
    /\ \/ /\ nets' = {} /\ sysnet' = IF SysnetInUse THEN sysnet ELSE 0
          /\ coreNet' = 0
          /\ UNCHANGED mishaps
       \/ Fails("remove") /\ coreNet' \in {coreNet, 0} /\ UNCHANGED <<nets, sysnet>>
    /\ UNCHANGED <<swarm, core, relay, made, secrets, process>>

RemoveSecrets ==
    /\ Step("networks", "core")
    /\ \/ secrets' = (secrets \cap Zmq) \cup Held /\ UNCHANGED mishaps
       \/ Fails("remove") /\ UNCHANGED secrets
    /\ UNCHANGED <<swarm, network, process>>

(***************************************************************************)
(* startCoreNetwork                                                        *)
(***************************************************************************)

\* The core network runs already: nothing is started, the relay included.  If its
\* container is cut off, looking for its address ends the process with a panic.
StartCoreNetwork ==
    /\ \/ core # 0 /\ coreNet # 0 /\ Step("core", "createSecrets")
       \/ core # 0 /\ coreNet = 0 /\ Exit("core")
       \/ core = 0 /\ Step("core", "sysnet")
    /\ UNCHANGED <<swarm, network, secrets, process, mishaps>>

\* If the old network cannot be removed, creating another fails: it is kept.
CreateSystemNetwork ==
    /\ Step("sysnet", "startCore")
    /\ \/ /\ ~SysnetInUse
          /\ sysnet' = made + 1 /\ made' = made + 1
       \/ /\ SysnetInUse
          /\ UNCHANGED <<sysnet, made>>
    /\ UNCHANGED <<swarm, core, coreNet, relay, nets, secrets, process, mishaps>>

StartCoreContainer ==
    /\ \/ /\ Step("startCore", "relay")
          /\ core' = made + 1 /\ made' = made + 1 /\ coreNet' = sysnet
          /\ UNCHANGED mishaps
       \/ Fails("start") /\ Exit("startCore") /\ UNCHANGED <<core, made, coreNet>>
    /\ UNCHANGED <<swarm, relay, sysnet, nets, secrets, process>>

StartCoreNetworkRelay ==
    /\ \/ Step("relay", "createSecrets") /\ relay' = TRUE /\ UNCHANGED mishaps
       \/ Fails("start") /\ Exit("relay") /\ relay' = FALSE
    /\ UNCHANGED <<swarm, core, coreNet, sysnet, nets, made, secrets, process>>

(***************************************************************************)
(* The rest of Start                                                       *)
(***************************************************************************)

\* SecretCreate's error is only logged, and its ID used although it is empty.
CreateSecrets ==
    /\ Step("createSecrets", "update")
    /\ \E missing \in SUBSET (Global \ secrets) :
          /\ secrets' = secrets \cup (Global \ missing)
          /\ IF missing = {} THEN UNCHANGED mishaps ELSE Fails("secret")
    /\ UNCHANGED <<swarm, network, process>>

UpToDate == spec.dns # 0 /\ ~bad
Updated == [dns |-> core, net |-> sysnet, env |-> core, refs |-> CMSecrets]

\* The service refers to each secret once, and to none that is missing.
Updatable == "cm" \in services /\ spec.refs = {} /\ CMSecrets \subseteq secrets

\* Mutant of UpdateContainerManager: an up-to-date service keeps its resolv.conf.
UpdateOnlyService ==
    /\ \/ /\ "cm" \in services /\ UpToDate
          /\ Step("update", "arbiter")
          /\ UNCHANGED <<resolv, spec>>
       \/ /\ ~UpToDate /\ Updatable
          /\ Exit("update")
          /\ spec' = Updated
          /\ UNCHANGED resolv
       \/ /\ "cm" \notin services \/ (~UpToDate /\ ~Updatable)
          /\ Exit("update")
          /\ UNCHANGED <<spec, resolv>>
    /\ UNCHANGED <<services, network, secrets, env, list, bad, old, mishaps>>

\* Mutant of UpdateContainerManager: it updates the service at every boot.
UpdateAtEveryBoot ==
    /\ Exit("update")
    /\ spec' = IF "cm" \in services THEN Updated ELSE spec
    /\ UNCHANGED <<services, network, secrets, process, mishaps>>

\* A service with a DNSConfig is up to date: only /etc/resolv.conf is written.
\* Otherwise ServiceUpdate restarts the CM, or its failure ends the process.
UpdateContainerManager ==
    /\ \/ /\ "cm" \in services /\ UpToDate
          /\ Step("update", "arbiter")
          /\ resolv' = core
          /\ UNCHANGED spec
       \/ /\ ~UpToDate /\ Updatable
          /\ Exit("update")
          /\ spec' = Updated
          /\ UNCHANGED resolv
       \/ /\ "cm" \notin services \/ (~UpToDate /\ ~Updatable)
          /\ Exit("update")
          /\ UNCHANGED <<spec, resolv>>
    /\ UNCHANGED <<services, network, secrets, env, list, bad, old, mishaps>>

\* The name must be free, and the secrets be there.
StartArbiter ==
    /\ \/ /\ "arbiter" \notin services /\ ArbiterSecrets \subseteq secrets
          /\ Step("arbiter", "ready")
          /\ services' = services \cup {"arbiter"}
          /\ UNCHANGED mishaps
       \/ /\ Exit("arbiter")
          /\ \/ /\ "arbiter" \in services \/ ~(ArbiterSecrets \subseteq secrets)
                /\ UNCHANGED mishaps
             \/ Fails("start")
          /\ UNCHANGED services
    /\ UNCHANGED <<spec, network, secrets, process>>

\* The CM, once up, launches components.
LaunchComponent(c) ==
    /\ pc = "ready" /\ c \notin services /\ CMSecrets \subseteq secrets
    /\ services' = services \cup {c}
    /\ nets' = nets \cup {c} /\ secrets' = secrets \cup {c}
    /\ UNCHANGED <<spec, core, coreNet, relay, sysnet, made, pc, process, mishaps>>

(***************************************************************************)
(* Around the process                                                      *)
(***************************************************************************)
Crash ==
    /\ pc # "down" /\ pc' = "down" /\ Mishap
    /\ UNCHANGED <<swarm, network, secrets, process>>

RebootHost ==
    /\ pc' = "down" /\ Mishap
    /\ core' = 0 /\ relay' = FALSE
    /\ UNCHANGED <<swarm, coreNet, sysnet, nets, made, secrets, process>>

\* Swarm stops the task of a service that was removed.
StopProcess ==
    /\ "cm" \notin services /\ pc # "down" /\ pc' = "down"
    /\ UNCHANGED <<swarm, network, secrets, process, mishaps>>

Relaunch ==
    /\ "cm" \notin services /\ pc = "down"
    /\ services' = services \cup {"cm"} /\ spec' = NewSpec
    /\ UNCHANGED <<network, secrets, pc, process, mishaps>>

BootStep ==
    \/ StartProcess \/ CheckForBadRestart \/ (\E s \in Service : RemoveService(s))
    \/ RemoveCoreNetwork \/ RemoveNetworks \/ RemoveSecrets \/ StartCoreNetwork
    \/ CreateSystemNetwork \/ StartCoreContainer \/ StartCoreNetworkRelay
    \/ CreateSecrets \/ UpdateContainerManager \/ StartArbiter

Next ==
    \/ BootStep \/ Crash \/ RebootHost \/ StopProcess \/ Relaunch
    \/ \E c \in Component : LaunchComponent(c)

Spec == Init /\ [][Next]_vars

\* The process runs, swarm restarts it, and the user launches the databox again.
\* Docker lists services by their random IDs, and a CM launched again has a new
\* one: no old service is behind the CM in every clean-up that is cut short.
FairSpec ==
    /\ Spec
    /\ WF_vars(BootStep) /\ WF_vars(StopProcess) /\ WF_vars(Relaunch)
    /\ \A s \in Service : SF_vars(RemoveService(s))

(***************************************************************************)
(* Properties                                                              *)
(***************************************************************************)

\* A databox that is up uses the core network that runs: the CM has its address for
\* DNS and is on its system network.  Its CM and its arbiter have every secret they
\* refer to, however many could not be created or removed.  If nothing went wrong
\* yet the relay runs too, all global secrets are there, and what the CM hands its
\* store as DNS server is the core network's address.
BootIsConsistent ==
    pc = "ready" =>
        /\ core # 0 /\ resolv = core
        /\ sysnet # 0 /\ coreNet = sysnet /\ spec.net = sysnet
        /\ \A s \in {"cm", "arbiter"} : s \in services /\ RefsOf(s) \subseteq secrets
        /\ mishaps = 0 => relay /\ env = core /\ Global \subseteq secrets

\* A databox that is up runs no service that an earlier CM process started, whose
\* tokens and permissions the new arbiter does not know, however many clean-ups
\* it took and whichever removals failed.
NothingOldRuns == pc = "ready" => old \cap services = {}

\* The core network's container runs, but a clean-up that could not remove it has
\* cut it off from the system network: no boot gets past it.
Stranded == core # 0 /\ coreNet = 0

\* After the last crash and the last failing call the databox comes up, unless its
\* core network is stranded for good.
BootEnds == (pc # "ready" ~> pc = "ready") \/ <>[]Stranded

\* databoxLoader.go:102, "lets not kill ourselves, that's just silly": cleaning
\* up does not remove the CM's service.  The ID it looks for is not a service's.
SparesItself == [][pc = "services" /\ "cm" \in services => "cm" \in services']_vars

(***************************************************************************)
(* The inductive invariants of the proofs                                  *)
(***************************************************************************)
\* Which calls find the core network running, and on which network.
CoreInv ==
    /\ core # 0 /\ coreNet # 0 => sysnet # 0 /\ coreNet = sysnet
    /\ pc \in {"sysnet", "startCore"} => core = 0
    /\ pc = "startCore" => sysnet # 0
    /\ pc \in {"relay", "createSecrets", "update", "arbiter", "ready"} =>
         core # 0 /\ coreNet # 0

\* A CM service that was updated keeps its network and secrets in use, so no
\* clean-up and no boot replaces them.
UpdateInv ==
    /\ spec.dns # 0 => sysnet # 0 /\ spec.net = sysnet
    /\ "cm" \in services => spec.refs \subseteq secrets
    /\ pc \in {"arbiter", "ready"} => spec.dns # 0 /\ resolv = core
    /\ pc = "ready" => "arbiter" \in services /\ ArbiterSecrets \subseteq secrets

\* A process goes past the clean-up only if it found its own service alone: the
\* clean-up ends in an exit.
CleanInv ==
    /\ IsFiniteSet(services)
    /\ pc = "list" => old = services \ {"cm"} /\ ~bad
    /\ pc # "down" /\ ~bad => "cm" \in services
    /\ pc = "services" => bad
    /\ pc \notin {"down", "list"} /\ ~bad => old = {}
    /\ pc \in {"arbiter", "ready"} => ~bad

\* Until something goes wrong there is one boot, that the update restarts.
CalmInv ==
    mishaps = 0 =>
        /\ "cm" \in services /\ (pc # "ready" => services = {"cm"})
        /\ ~bad /\ pc \notin {"services", "removeCore", "networks", "secrets"}
        /\ core # 0 => coreNet # 0 /\ (relay \/ pc = "relay")
        /\ spec.dns # 0 => core # 0 /\ spec.env = core
        /\ pc # "down" => env = spec.env
        /\ pc \in {"update", "arbiter", "ready"} => Global \subseteq secrets

BootInv == CoreInv /\ UpdateInv /\ CleanInv /\ CalmInv
=============================================================================
