# Verification of the databox container manager

The container manager (CM) of a databox installs apps and drivers as Docker
swarm services, wires them to the core network, gives them secrets and
permissions, brings them back after a crash, and serves the user interface.
This directory holds TLA+ models of its concurrent and crash-prone parts, the
TLC runs that check them on small instances, and proofs, for every instance, of
the safety properties those runs check. `src/` below is the Go code of the repository.

## 1. Inventory

State the CM shares with other processes: the **Docker swarm** (services,
secrets, networks, containers), the **core network** (which component may talk
to which host, and under which address a component is known), the **arbiter**
(tokens and permissions), the **CM store** (saved SLAs, the password). State of
its own: the map `InstalledComponents`, the locals of its goroutines, web sessions,
and the certificates and tokens it writes to files. The CM store and those files
are all that survives a reboot in a useful form.

| Component (source) | State | Operations | What is hard | What makes it correct |
|---|---|---|---|---|
| Install and uninstall (containerManager.go 212-313, 398-438, 804-1098; coreNetworkClient.go; cmZestAPI.go 174-227) | services, secrets, networks, endpoints, tokens, permissions, SLAs, InstalledComponents | install, uninstall | a goroutine per command and no lock; eleven calls to four processes, of which any may fail; only some errors stop a launch | nothing runs before it is prepared; what is uninstalled stays away; what is listed runs; tokens agree |
| Boot and reload (app.go 11-42; containerManager.go 83-160, 488-520, 1100-1127; cmStoreClient.go) | options, SLA list, WaitGroup | main, Start, GetAllSLAs, reloadApps, launchUI, launchAppStore, the export service | any step may end the process, some errors are only logged; the API serves commands meanwhile; drivers before apps; a list that ages | every boot ends, every saved component comes back |
| Restart and crash detection (containerManager.go 162-210, 348-396, 440-477) | two maps of markers, addresses read | Restart, WaitForService, crashDetectore | deaths that restarts and uninstalls cause must be told from crashes, by the order of events; addresses read before a wait and posted after it | only crashes are answered; the core network learns the new address |
| Loader (databoxLoader.go, createSecretIfNotExists and removeContainer of dockerHelpers.go) | services, core network, relay, system network, global secrets, the CM's own service | Start: clean up, start core, create secrets, update own service, start arbiter | a process that rewrites, and may remove, the service it runs in; a crash between any two steps | a databox that is up is consistent and runs nothing of the old one; it does come up |
| Permissions (containerManager.go 943-1098) | arbiter's routes | addPermissionsFromSLA | many cases; errors only logged | an SLA grants what it says, no more |
| Service configuration (containerManager.go 721-802, dockerHelpers.go 141-173) | none | image names, networks, environment | string assembly | -- |
| Password, QR code, options (containerManager.go 114-138, cmZestAPI.go 249-302, cmStoreClient.go 76-87) | the password and the QR code in the CM store | Start, ClearSLADatabase, LoadPassword, SavePassword, populateMobileAppQrCodeAndCerts | the password shares a store with the SLAs that are cleared; two readers; each call may fail and is mostly only logged | the QR code shows the password the server wants; paired phones stay paired |
| Secure web server (secureServer.go 20-87, 193-239) | sessions | auth, proxy | a session belongs to a process, a password to a store | only who knows the password gets a session |
| Web socket proxy (secureServer.go 89-191) | two connections, two error channels | the handler and two copying goroutines | who closes what, and who still writes; a component that is uninstalled; a client that leaves too early | messages arrive in order, an end is told once all has arrived, no goroutine is leaked |
| Certificates and tokens (certificateGenerator.go, app.go) | files | generate unless there | a crash between creating and writing a file; the next boot looks for files by name | every certificate belongs to the root key; a torn file is the only thing that keeps a databox down |
| Insecure web server, status functions, image helpers, page | none | | reads only | -- |

`PROJECT.json` lists these parts with their status, and every hazard with the
line where it bites and the properties that would catch it. A hazard that does go
wrong, and that the properties therefore leave out, names none of them but has a note
that says so; the others that go wrong name a property of a *violation* run.

## 2. Modules

| Module | Models | Checked by | Proved in |
|---|---|---|---|
| `ContainerManager` | LaunchFromSLA, Uninstall, API commands, reload, crash and reboot | `cm_*` through `MCContainerManager` | `ContainerManagerProofs` |
| `Registry` | what a manager of durable components promises; abstract, implemented by `ContainerManager` with one command at a time and no failing call | `cm_restore`, as the property `ImplementsRegistry` | `FaultFreeProofs` |
| `CrashDetector` | Restart, WaitForService, crashDetectore, the containers of swarm services | `det_*` through `MCCrashDetector` | `CrashDetectorProofs` |
| `DataboxLoader` | Databox.Start | `load_*` through `MCDataboxLoader` | `DataboxLoaderProofs` |
| `Startup` | main and cm.Start up to the web server, certificates, password, QR code, sessions; `DataboxLoader` is one of its steps | `startup` through `MCStartup` | `StartupProofs` |
| `WebSocketProxy` | webSocketProxy and its two goroutines | `ws_pipe` through `MCWebSocketProxy` | `WebSocketProxyProofs` |
| `Pipe` | what a proxy of a connection promises; abstract, implemented by `WebSocketProxy` | `ws_pipe`, as the property `ImplementsPipe` | `PipeProofs` |

`ContainerManager` also has `DisciplineProofs` (what holds with one command at a
time) and `FaultFreeProofs` (and no failing call). The three modules of a boot
meet at their ends: `Startup` runs `DataboxLoader` as the action `LoadDatabox`,
and `ContainerManager` starts in phase "boot" where `Startup` has the API up; a
process that ends in one of them is started again in the others' terms by
`StartProcess` or `Reboot`.

Definitions whose comment begins "Mutant of" are not part of a model: each is a
plausible bug in one action, and shows that a property can fail.

### ContainerManager

A *worker* is a goroutine running `LaunchFromSLA` or `Uninstall`; `pc[w]` names
the next call it makes and `job[w]` holds its arguments (the component, whether
to save the SLA, whether the reload waits for it). One action is one call to
Docker, the core network, the arbiter or the store, or the map write; between
two calls any other worker may run, which is what goroutines do.

| Action | Code |
|---|---|
| `PreConfig`, `CreateNetwork`, `AttachCoreNetwork` | coreNetworkClient.go 60-142. The network is found, or created and attached; a launch that ends up with no DNS address, because the core network is not attached or its address cannot be looked up, goes into `blind` |
| `Check` | containerManager.go 230-267, the early returns: type, image, dev mount |
| `ClearSecret`, `MakeSecret`, `RegisterToken` | genorateSecrets, createSecret (843-941), for the component, then for its store |
| `ConnectEndpoints`, `LaunchStore`, `CreateStoreService`, `AddPermissions` | 284-293, 804-841, 943-1081 |
| `CreateService`, `SaveSLA`, `Track` | 295-312 |
| `FindService` to `Untrack` | Uninstall, 398-438, in its order |
| `Install`, `Uninstall` | processAPICommands: a command starts a worker |
| `StartServing`, `ListKeys`, `ReadSLAs`, `ReloadApps`, `Ready`, `Spawn` | Start from 141 on, GetAllSLAs, reloadApps, the built-in components. With failing calls to the store the list may be empty, and any SLA may be skipped |
| `Crash`, `Reboot`, `RebootUnclean` | the process dies; swarm starts another, whose loader cleans up, or finds nothing to clean because the clean-up before it was cut short, or cannot remove the networks |

Secrets, tokens and services carry the number of the launch that made them:
that is all that token agreement depends on. A secret named after a service is
the pair of the service and a kind. `WriteMap` is the data race on
`InstalledComponents`: with another goroutine about to write, a write may be
lost; the runtime's other answer, to abort the process, is `Crash`.

A call of a kind in `Faults` may fail; what happens then is the code's: an
error that is only logged lets the launch continue, and the few that are
returned end it. The kind "remove" is ServiceRemove, "cleanup" a clean-up that is cut
short.

`SerialSpec` is the same system used with care: a component gets a command only
after the boot and while nothing else is being done to it, and the built-in
components are left alone. Nothing in the code enforces this. The properties
that hold only under it are checked under it, and the README says so each time.

`Registry` has the components that are saved, those that run, and those that are
`busy`: being launched or removed, or waiting for the reload. A component is saved
only once it runs and dropped only once it has stopped, and whoever is busy with it
leaves it saved and running, or neither. The refinement leaves out the built-in
components, which run and are never saved; it maps `saved` to the SLA store, `running`
to the components whose service exists, and `busy` to `AtWork`: a goroutine has the
component, or it is `Due`, on the list a reload has read or is going to read.
The steps are `CreateService`, `SaveSLA`, ServiceRemove, DeleteSLA, the commands and
the ends of the goroutines, a crash and a reboot; all other calls are stutters.

### CrashDetector

Docker numbers the containers of a service; a number also stands for the
container's address. `reg` is what the core network has for a service. Callers
of `Restart` are the detector and the goroutines of API commands. Docker's
events reach the detector in order (a kill before the death it causes, the
removal of a service before its container stops), and it reads none while it is
in `Restart` itself. Events before `Subscribe` and after `BreakStream` are lost.
The detector's map of restarts is keyed by container name, which is unique per
container, the map of uninstalls by service ID. A death is a crash to it only if
the container has a databox.type label (`labelled`, any set of services).
`overlapped` marks the restarts that ran at the same time as another: of those
the last to post wins, whichever container it saw.

### DataboxLoader

`pc` is the next call of the one goroutine of `Databox.Start`; the process may
die before any of them. `services`, `core`, `coreNet`, `sysnet`, `secrets`, `spec`
(what updateContainerManager writes into the CM's service) outlive it. A number
names a core-network container and its address, and a system network.

| Action | Code |
|---|---|
| `StartProcess` | swarm starts the process, with the specification its service has |
| `CheckForBadRestart`, `RemoveService` | 87-110. The loop compares service IDs with a container ID, so it skips none |
| `RemoveCoreNetwork` | removeContainer, dockerHelpers.go 122-139: a removal that fails is logged, and the container runs on |
| `RemoveNetworks`, `RemoveSecrets` | 115-145. Containers but the CM's are disconnected by force (`coreNet' = 0`), and what is in use is not removed |
| `StartCoreNetwork` | 156-193: a core network that runs is taken as it is, and one that is cut off ends the boot with a panic |
| `CreateSystemNetwork`, `StartCoreContainer`, `StartCoreNetworkRelay` | 194-301 |
| `CreateSecrets` | 57-71, dockerHelpers.go 89-120: a secret that cannot be created is logged, its empty ID used |
| `UpdateContainerManager` | 303-377: `UpToDate`, `Updatable`, `Updated` |
| `StartArbiter` | 379-426 |

A ServiceUpdate ends the process (`Exit`): swarm restarts it with the new
specification, which the code awaits in a sleep of 1000 s; one that is refused, for
a secret that is missing or named twice, is fatal. `RefsOf` are the secrets a service
refers to, and `Held` those which Docker does not remove for it. `StopProcess` is
swarm stopping the task of a service that was removed, and `Relaunch` the user's
launch of a databox whose CM service has gone.

### Startup

`pc` is the next step of main and cm.Start, from looking for the root key to
serving requests; `qrpc` is the goroutine that publishes the certificate and
makes the QR code, `export` the one that creates the export service and whose
failure is fatal at any moment. Between `CreateFile` and `WriteFile` a file is
*torn*: it is there for every later boot, and it is useless. GenRootCA writes the
private key, the file it is looked for by, last. Passwords and root keys are
numbered in the order in which they are made; `OverridePasword` is password 1.
`service` is the CM's swarm service: as it was launched, updated by the loader, or
gone. `left` is what a databox before has left for the clean-up: services, and a
core network that was cut off and not removed. A clean-up always ends the process,
since it removes the CM's service as well (`load_self`); then the user launches the
databox again, and may choose other `options`, while a process that swarm starts
again has those of its service.

| Action | Code |
|---|---|
| `StatRoot`, `NextFile`, `CreateFile`, `WriteFile` | app.go 44-106, GenRootCA, GenCert, GenerateArbiterToken |
| `CleanUp`, `CleanUpCutShort`, `CleanUpFails` | checkForAndFixBadRestarts, databoxLoader.go 87-154, as far as it gets before swarm stops the process |
| `LoadDatabox` | databox.Start with nothing to clean up: the first one ends the process, by updating its service |
| `WaitForArbiter`, `RegisterComponent`, `LaunchStore` | the start of main's and Start's work: waiting for the arbiter, registering, the CM's own store |
| `ClearSLAs`, `UseOverride`, `LoadPassword`, `SavePassword` | Start 114-138 |
| `StartAPI`, `Serve` | CmZestAPI, with the goroutine for the QR code, then ServeSecure |
| `StartExport`, `PublishCerts`, `LoadForQR`, `WriteQR` | the goroutines of Start and of the API |
| `Scan`, `Login` | a phone reads the QR code and the root certificate; auth with a password |
| `Crash`, `StartProcess`, `Relaunch` | the process dies; swarm starts it while it has a service, the user when it has none |

### WebSocketProxy and Pipe

`copier[s]` is the goroutine that reads from side s ("client" is the browser,
"backend" the component) and writes to the other. The handler checks that the
component is installed, dials it, upgrades the client's connection, starts both
goroutines and waits for the first error; returning closes the backend's
connection only. A copier that fails to read reports the error and *then* writes
a close frame, with the handler free to return in between; a copier that fails
to write ends. What a peer has sent before it left may still be read; a write to
a peer that has gone may succeed into the void. `Panic` ends the process: a
failed upgrade does so from a goroutine (`UpgradeFails`), and any other panic
(`Crash`) takes this connection with it.

`Pipe` has the messages sent and received, who is still there, and who has been
told of the end. The refinement maps a peer that is there to `present`, and one
that was told anything, a close frame or a cut connection, to `ended`.

## 3. Runs

Each run's properties hold, or in the runs marked *violation*, fail
in the way the finding in `PROJECT.json` describes.

| Run | Shows |
|---|---|
| `cm_api` | With overlapping installs and uninstalls, services that cannot be removed, a crash and a clean or unclean boot, an app never runs before the arbiter has its token, its permissions and a token for its store (`ReadyBeforeStart`; of the store itself it says nothing), and what was uninstalled with no install under way stays out of the SLA store (`UninstallSticks`), even though the reload may be launching it from its old list. |
| `cm_reload` | From every set of saved SLAs: no app while a driver of the reload is not done (`DriversFirst`), and the boot ends though images are missing and the core network and the arbiter fail (`BootCompletes`). |
| `cm_serial` | Under the discipline, with two components, an SLA of an unsupported type, and failing secrets, services, networks and calls to the SLA store: a store and the arbiter agree on its token, although its component may be installed again (`StoreTokenAgreement`), and what is listed runs (`InstalledIsRunning`). |
| `cm_restore` | Under the discipline, nothing failing but one crash: after the boot saved components run again (`SavedComesBack`), each was given a DNS address (`StartedWithDNS`), and the core network connects nothing else (`OnlyRunningConnected`); a component nobody is at work on is saved and complete, with its store, network, endpoint and map entry, or there is none of it (`AllOrNothing`); and services and SLA store change only as a registry's do (`ImplementsRegistry`). |
| `cm_token` | *violation.* A second install of a running component replaces the token the arbiter knows, then fails; the component is locked out. |
| `cm_prefix` | *violation.* Docker's name filter matches prefixes: uninstalling a component that does not run removes another. |
| `det_restart` | With a crash, API restarts, uninstalls, a stream that may break and a core network that may be out of reach, the detector removes a container only in answer to a crash (`OnlyCrashesRestart`) and always returns to its events (`DetectorReturns`); a crash answered without an error by a restart that overlaps no other leaves the address of a newer container (`CrashAnswered`, the half of `CrashIsFixed` that holds); registered addresses only move forward (`RegistrationForward`) and, when nothing crashed or failed, end up right (`RegistrationCurrent`), unless restarts overlap. |
| `det_fixed` | *violation.* A death is answered before swarm has replaced the container; Restart gives up and the old registration stays. |
| `load_boot` | With up to three mishaps anywhere, failing removals and creations included, the databox comes up unless its core network is stranded (`BootEnds`). Then it uses the core network that runs, its CM and its arbiter have every secret they refer to (`BootIsConsistent`), and it runs no service its process found when it started (`NothingOldRuns`). |
| `load_self` | *violation.* The clean-up removes the CM's own service: it compares service IDs with a container ID. |
| `startup` | With up to three crashes or failing steps, clean-ups that remove the CM's own service, and any options at each launch by the user: every whole certificate belongs to the root key on disk (`CertsMatchRoot`), the QR code shows the password that is wanted (`QRShowsPassword`), a paired phone is let in after every later boot (`PairedStaysPaired`), sessions belong to those who know the password (`SessionsKnowPassword`), and the web server comes up for good unless a file it needs was torn or the core network is stranded (`ServesOrTorn`). |
| `ws_pipe` | Peers that send, close or break, an uninstall, a failed upgrade and a crash: the proxy is a pipe (`ImplementsPipe`), a close frame means that all the other peer sent before closing has arrived, unless a message of one's own bounced off it first (`CloseIsComplete`), a peer is told when the other leaves (`LeavingIsTold`), and both goroutines end (`CopiersEnd`). |

Known and not given a run of their own:

* An uninstall that overlaps an install leaves the component listed as installed:
  `InstalledIsRunning` fails under `Spec`.
* Uninstall's "remove secrets" (containerManager.go 415-429) removes none: the
  services it looks in are listed after ServiceRemove. `ListSecrets` and
  `DropSecrets` model that; no property depends on a secret that is left.
* A crash between starting the core network and its relay leaves a databox with
  no relay, and after a host reboot the environment variable the CM gives its
  store as DNS server may name an address the core network has lost.
  `BootIsConsistent` promises those two only while nothing went wrong.
* A core network that cannot be removed (the error is only logged, dockerHelpers.go
  136-137) is still disconnected from the system network, and every later boot panics
  when it looks for its address there (databoxLoader.go 167), until the host reboots
  or somebody removes it: `Stranded`, the exception of `BootEnds` and `ServesOrTorn`.
* A global secret that cannot be created is only logged (dockerHelpers.go 109-112). The
  CM and the arbiter do not come up without those they refer to, but DATABOX.pem,
  DATABOX_ARBITER.pem and DATABOX_NETWORK_KEY may be missing in a databox that is up.
* A clean-up whose ServiceList fails takes it for no services and cleans nothing
  (databoxLoader.go 91-94); see the assumptions.
* With commands that overlap, two launches of one component share and replace each
  other's secrets and store token, one may find the network that the other is still
  attaching and start with no DNS address, and restarts may post an older address
  last. `StoreTokenAgreement`, `StartedWithDNS` and `RegistrationCurrent` leave
  those out.
* Nothing takes a permission back: uninstall removes the services and leaves
  the arbiter's grants, and addPermissionsFromSLA only adds. A component that
  is installed again with a smaller SLA keeps what the larger one gave it until
  the next boot starts a new arbiter. `granted` grows in the same way.
* With `OverridePasword` the QR code shows the stored password, or an empty one.
* A torn file is never repaired. Of the CM itself it keeps the databox down
  (`ServesOrTorn` says so); of another component it leaves that one broken.
* A load of the password that fails is answered by making and saving another, and
  every paired phone is locked out. `PairedStaysPaired` ends there.
* A client that leaves while its web socket is being upgraded ends the whole
  process, through a nil connection in a goroutine.

### Bounds

* Two workers: every race here is between two goroutines that touch the same
  thing; the theorems cover any number. A command that finds no free worker
  waits, which only delays it. `Worker` is symmetric, and symmetry is used in
  the runs that check only invariants.
* One component where launches race with each other, two where apps and drivers
  or unrelated components matter. `other`, in neither `App` nor `Driver`, is an
  SLA of an unsupported type.
* In `cm_restore` the app needs a store and the driver is built in: components do
  not touch each other's services under the discipline, so one that is saved is
  enough for `AllOrNothing` and `ImplementsRegistry`; the theorems cover any number.
* `Kind = {"key"}` drops the certificate of a service, which is made by the
  same calls just before its token; `cm_restore` keeps both.
* `MaxInstalls = 1` or 2: with SLAs saved before the boot, one command is enough
  to install something twice. Uninstalls are not bounded.
* `MaxCrashes = 1` in `cm_api` and `cm_restore`: a crash resets every local; the numbers a second
  one would see are those of the first.
* `Faults` differs between runs to keep each small; together they fire every
  failing branch. The theorems cover all combinations of failing calls.
* `WaitLimit = 1` for the 20 polls of Restart: a poll that sees nothing changes
  only its counter, so one such poll before the last stands for all of them.
* One service and one API goroutine in `det_restart`: services share nothing but
  the detector, which they can only delay, and the theorems cover any number.
  `MaxContainers = 4` and `MaxCrashes = 1` allow a crash, an API restart and a
  detector restart that overlap.
* Two messages of each peer, of two values, in `ws_pipe`: one that is being passed
  on and one behind it when a peer leaves, and enough to tell a swap or a repeat.
* `MaxMishaps = 3` in `startup`: the first crash tears a file or stops a password
  from being saved, the second hits the boot that works with what is left, and
  one more step fails there. `MaxPasswords = 3`: the overriding one, and one
  replaced by another. Two phones, one of which is paired while the other scans.
* Deadlock is not checked where the system may stop: in `det_*` when all services
  are uninstalled or all containers used up, in `load_*` and `startup` when the
  databox is up and nobody does anything, in `ws_pipe` when the connection is
  over.
* `MaxMishaps = 3` in `load_boot`: a crash that makes the next boot clean up,
  one in that clean-up, and one more.

### Fairness

`cm_*`: weak fairness of each step of the boot and of every started goroutine
(the Go scheduler runs them; every call returns, with an error if need be) and
strong fairness of starting a goroutine that is due, since the pool of workers
is the model's and not the program's. Crashes and commands are never forced.
`det_restart`: weak fairness of the detector, of its subscription and of swarm
starting containers; commands, crashes and uninstalls are never forced.
`ws_pipe`: weak fairness of the handler and of each copying goroutine (the
scheduler runs them, and writes to a socket return), and of a browser that was
told of the end closing its socket, as RFC 6455 has it answer a close frame.
Without the last the goroutine that reads from the client would stay, since the
handler never closes the client's connection.
`startup`: weak fairness of the boot (main runs, and swarm restarts a process that
ends as long as it has a service) and of the user launching again a databox whose
service has gone; strong fairness of a clean-up that is not cut short, for the
reason given for `load_boot`.
`load_boot`: weak fairness of the process, of swarm stopping the task of a
removed service, and of the user launching the databox again; strong fairness
of removing each old service, as otherwise the CM, which removes its own
service, could always remove it first and be stopped. Docker lists services by
random ID and a relaunched CM has a new one, so it cannot always come first.

### Assumptions about what is not in `src/`

* Docker refuses to create a service whose name is taken, whose secrets or
  network do not exist, to create a secret or network whose name is taken, and
  to remove a secret that a service refers to or a network in use. Name filters
  match prefixes, listed in the order of names.
* The arbiter keeps one token per name and the core network one address; both
  forget everything when they start. The SLA store is durable and its
  operations are atomic.
* The CM's service has a `databox.type` label, as databoxLoader.go:94 says.
* A new core network gets a new address. It may happen to get the old one, which
  only hides the differences the model shows.
* Gorilla's web sockets buffer what was read: a message that arrived before a
  connection was closed may still be returned. Errors are sticky.
* DeleteAll on the CM store may remove the password, which is stored as text among
  JSON documents, or leave it; either is possible in `ClearSLAs`.
* Docker makes no secret of an empty file, and no service without the secrets it
  refers to. Its listing calls answer: the code drops their errors and takes a
  failed one for an empty list.
* Names are atoms that are prefixes of each other only where `Longer` says so;
  names that differ in case, which share secrets, are not considered, nor those that
  Docker's filter for networks finds inside the name of another network.

## 4. Proofs

Every invariant and every safety action property of a passing run is proved, for
all values of the constants, from the assumption on constants of its module; so
are both refinements. Each inductive invariant was checked with TLC first and
stands at the end of the module it is about, or, if only `FaultFreeProofs` needs
it, before its lemmas there.

**`ContainerManagerProofs`**: any set of components, workers, kinds and failing
calls, any commands and crashes.

* `TypeCorrect`: `Spec => []TypeOK`.
* `UninstallIsFinal`: `Spec => []UninstallSticks`. The property is not inductive:
  a launch that is about to save could put an uninstalled component back.
  `SticksInv` adds that a launch that will save is never one of a component in
  `gone`: an uninstall counts as final only if none is under way, an install
  takes the component out of `gone`, and reloads never save.
* `NothingRunsUnready`: `Spec => []ReadyBeforeStart`. `Prepared(w)` says what a
  launch has achieved when it makes a given call; `ReadyInv` adds `AtRest`, that
  after a crash no goroutine is left that was prepared by an arbiter that has
  since been started afresh. Tokens and permissions only grow between reboots,
  so a step of one worker leaves every other worker prepared (`PreparedStays`,
  `ReadyOneWorker`), and the proof has one case per call.
* `DriversComeFirst`: `Spec => []DriversFirst`. `ReloadInv` says that all
  launches the reload waits for, and all that wait to start, are drivers in
  phase "drivers" and apps in phase "apps"; the barrier is what lets the phase
  change without breaking it.

**`DisciplineProofs`**: the same, under `SerialSpec`. `SerialInv` is the ground:
at most one goroutine works on a component or waits to (`OnePerComponent`), which
needs that the reload never launches a built-in component, because those are
never saved, and that a command comes only when the reload is over.

* `StoreTokensAgree`: `StoreInv` adds that a store is prepared only where none
  runs, and that at its creation the arbiter holds the token of that launch.
* `InstalledRuns`: `RunInv` follows a component from the creation of its service
  through `SaveSLA` and `Track`, and from its removal to `Untrack`.

**`FaultFreeProofs`**: under `SerialSpec` with `Faults = {}`, crashes allowed.

* `AllKnowDNS`: `DNSInv`, that a network without the core network is one that a
  launch is about to attach, or one that a crash left and the boot removes.
* `ConnectedRuns`: a launch connects its component long before ServiceCreate, so
  the proof is that ServiceCreate cannot be refused: `CreatableInv` has the
  secrets and the network ready. `ConnInv` does the rest.
* `InstallsAreAtomic`: `SerialSpec => []AllOrNothing`. `RestoreInv` adds to the
  components at rest (`Restored`) what a goroutine knows of its own at each call
  (`Along`, `Progress`): up to the call that decides, a launch leaves a component
  that runs alone, and what it does to one that does not is finished by the time
  its service is created; an uninstall has marked what it removes. It rests on
  `ConnInv` and `StoreReady`, with which the creations of the store and of the
  component cannot be refused: a refused one would leave an endpoint with no
  service. A boot finds what it is going to launch in `Due`, and nothing else.
* `RegistryImplemented`: `SerialSpec => ImplementsRegistry`. A step of one goroutine
  leaves every other component as it was (`CallsLocal`, `OthersSame`), and what it
  does to its own is a step of `Registry` (`CallEffects`, `RegistryCalls`); that
  SaveSLA finds the component running, DeleteSLA finds it stopped, and the end finds
  it saved and running or neither, is `RestoreInv`. The theorem assumes `Unprefixed`,
  no component's name that starts with another's: without it an uninstall removes a
  service of a component that nobody is at work on (`cm_prefix`).
* `RegistrySettles`: in a `Registry` what runs is what is saved, but for what somebody
  is busy with. It says what the refinement is worth.

**`CrashDetectorProofs`**: any services and goroutines, any number of events.

* `TypeCorrect`, and `AddressesMoveForward` from `ContainerInv` (containers never
  run again) and `ForwardInv` (a restart that overlaps no other knows that nobody
  else posts).
* `CrashesOnly`: `EventInv` relates the queue of events to Docker and the
  detector: each death is reported once, and each that no crash explains comes
  after its kill in the queue, or its kill has been read, or its service is gone.
* `AddressesCurrent`: `CurrentInv`, with one API goroutine and no crash.
* `AnswersMoveOn`: `Spec => []CrashAnswered`. `AnsweredInv`: the container the detector
  reads after the death is a newer one, and an API restart that holds the dead one's
  address overlaps the detector's. The other half, a Restart that gives up, is the
  finding of `det_fixed`.

**`DataboxLoaderProofs`**: `TypeCorrect`, `UpIsConsistent`, `NothingOld`, from
`BootInv`: which calls find the core network running and not cut off (`CoreInv`), that
the network and the secrets an updated service refers to are there, since Docker
removes none in use (`UpdateInv`), that every clean-up ends in an exit (`CleanInv`),
and the single restart of a boot where nothing goes wrong (`CalmInv`).

**`StartupProofs`**: `TypeCorrect`; `CertificatesMatch` from `FileInv`, which says
how far the writing of a file has come and rests on the private key being written
last; `QRCodeRight`, `PairingLasts` and `SessionsRight` from `PasswordInv`, which
follows the password from the store to the process, the QR code and the phones.

**`PipeProofs` and `WebSocketProxyProofs`**: what arrives in a `Pipe` is always a
prefix of what was sent (`PipeInOrder`). `PipeImplemented`: `PipeInv` counts the
message a copier holds and shows that nobody is told of an end while both peers
are there; every step then is a step of `Pipe` or a stutter. `CloseComplete`:
`CloseInv`, what a copier knows between reporting an error and writing the frame.

Only model-checked: liveness (`BootCompletes`, `SavedComesBack`,
`DetectorReturns`, `BootEnds`, `ServesOrTorn`, `LeavingIsTold`, `CopiersEnd`),
which is out of the prover's reach.

## 5. Plan

Done: `ContainerManager`, `CrashDetector`, `DataboxLoader`, `Startup`,
`WebSocketProxy`, the abstract `Pipe` and `Registry`, and the proofs above. Left:

1. `Permissions`: addPermissionsFromSLA, addPermission and getAppConfig as
   operators from SLAs to routes and networks, against a reference that says what
   an SLA asks for; over all small SLAs. `ContainerManager`'s `AddPermissions`
   stays the abstraction of it.
2. The HTTP proxy: the installed check against uninstalls.
3. `RegistrationCurrent` with crashes, for restarts that overlap none.
4. Listing calls that fail, first the ServiceList of the clean-up, and what then is
   left of `NothingOldRuns`.

## 6. Not modelled

* Which routes and networks an SLA grants: tables of strings (see the plan).
  Service configuration is the assembly of strings as well.
* The HTTP proxy, which copies one request and one response and keeps no state,
  the insecure server and the web page, which are static.
* ServiceStatus, ListAllDatasources and the image and container helpers: single
  calls that change nothing the models look at. `populateServiceStatus` and
  `populateDataSources` are never called.
* Errors of a full disk. GenRootCA ignores those of pem.Encode, so a full disk
  leaves the same torn files as a crash does.
* auth's branch for a cookie, which looks a session up, and the error of rand.Read
  that it does not check when it makes one (secureServer.go 60).
* RegisterPrivileged, which posts an address and drops its error.
* Certificates' contents and dates, log output, formats of messages.
* A ServiceUpdate that takes longer than the 1000 s the CM waits for it.
