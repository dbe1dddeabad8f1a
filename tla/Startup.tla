------------------------------ MODULE Startup ------------------------------
(***************************************************************************)
(* From the start of the process to a phone that is let in: certificates,  *)
(* the loader, cm.Start up to the web server, the QR code, sessions.       *)
(*                                                                         *)
(* The files under certs and what the CM keeps in its store outlive the    *)
(* process; it may die before any step.  A file is created, then written:  *)
(* between the two it is torn, and a torn file counts as there at the next *)
(* boot.  Root keys and passwords are numbered in the order they are made. *)
(***************************************************************************)
EXTENDS Naturals, Sequences

CONSTANTS
    Phone,       \* clients that scan the QR code and log in
    Overrides,   \* whether OverridePasword may be set
    Clears,      \* whether ClearSLAs may be set
    Faults,      \* the kinds of step that may fail
    MaxMishaps,  \* bound: crashes and failing steps
    MaxPasswords \* bound: with so many passwords made, none is cleared any more

ASSUME StartupAssumption ==
    /\ Overrides \subseteq BOOLEAN /\ Clears \subseteq BOOLEAN
    /\ Overrides # {} /\ Clears # {}
    /\ Faults \subseteq {"loader", "arbiter", "export", "component", "store"}
    /\ MaxMishaps \in Nat /\ MaxPasswords \in Nat

VARIABLES
    disk,       \* file -> how much of it is there, and of which root key it is
    keys,       \* root keys made
    service,    \* the CM's swarm service: as launched, updated by the loader, or gone
    left,       \* what databoxes before have left: "services", and a "core" network
                \* that was cut off but not removed
    saved,      \* CMPassword in the CM store, 0 if there is none
    qr,         \* "data" in the CM store: the password in the QR code, and cert.pem
    options,    \* ContainerManagerOptions of this process
    pc,         \* the main goroutine
    cur,        \* the file it writes
    reach,      \* the CM store can be reached
    refused,    \* err of RegesterDataboxComponent
    want,       \* the password ServeSecure was given
    passwords,  \* passwords generated
    qrpc, qrpw, \* the goroutine that makes the QR code, and the password it read
    export,     \* the goroutine that starts the export service
    sessions,   \* phones whose cookie is in sessionTokens
    phone,      \* phone -> what it scanned
    paired,     \* history: phones that logged in with the saved password, until it
                \* is cleared or replaced
    lapse,      \* history: what this process did without the saved password
    mishaps

files == <<disk, keys>>
swarm == <<service, left>>
store == <<saved, qr>>
main == <<options, reach, refused, want, passwords>>
coder == <<qrpc, qrpw>>
phones == <<sessions, phone, paired>>
vars == <<files, swarm, store, pc, cur, main, coder, export, phones, lapse, mishaps>>

Cert == {"container-manager", "databox-network", "export-service", "arbiter",
         "app-server"}
Token == {"arbiterToken-container-manager", "arbiterToken-databox-network",
          "arbiterToken-arbiter"}
RootFile == {"pub", "der", "root"}

\* Mutant of RootOrder: the private key is written first.
PrivateKeyFirst == <<"root", "pub", "der">>

\* GenRootCA writes the file that it is looked for by last.
RootOrder == <<"pub", "der", "root">>

File == RootFile \cup Cert \cup Token

\* The order in which they are looked for.
FileOrder ==
    <<"container-manager", "databox-network", "export-service", "arbiter", "app-server",
      "arbiterToken-container-manager", "arbiterToken-databox-network",
      "arbiterToken-arbiter">>

Content == [size : {"none", "torn", "whole"}, key : Nat]
Override == 1   \* passwords that are generated are larger

TypeOK ==
    /\ disk \in [File -> Content] /\ keys \in Nat
    /\ service \in {"gone", "new", "updated"} /\ left \subseteq {"services", "core"}
    /\ saved \in Nat /\ qr \in [pw : Nat, cert : Nat]
    /\ options \in [override : BOOLEAN, clear : BOOLEAN]
    /\ pc \in {"down", "stat", "create", "write", "files", "loader", "arbiter",
               "component", "store", "clear", "load", "save", "serve", "secure",
               "ready"}
    /\ cur \in File
    /\ reach \in BOOLEAN /\ refused \in BOOLEAN
    /\ want \in Nat /\ passwords \in Nat
    /\ pc \in {"save", "serve", "secure", "ready"} => want > 0
    /\ qrpc \in {"idle", "certs", "load", "write", "done", "failed"} /\ qrpw \in Nat
    /\ export \in {"idle", "starting", "done"}
    /\ sessions \subseteq Phone /\ paired \subseteq Phone
    /\ phone \in [Phone -> [pw : Nat, cert : Nat]]
    /\ lapse \subseteq {"override", "load", "save", "qr"}
    /\ mishaps \in Nat

Nothing == [size |-> "none", key |-> 0]

Init ==
    /\ disk = [f \in File |-> Nothing] /\ keys = 0
    /\ service = "new" /\ left = {}
    /\ saved = 0 /\ qr = [pw |-> 0, cert |-> 0]
    /\ options \in [override : Overrides, clear : Clears]
    /\ pc = "down" /\ cur = "pub"
    /\ reach = FALSE /\ refused = FALSE /\ want = 0 /\ passwords = Override
    /\ qrpc = "idle" /\ qrpw = 0 /\ export = "idle"
    /\ sessions = {} /\ paired = {}
    /\ phone = [p \in Phone |-> [pw |-> 0, cert |-> 0]]
    /\ lapse = {} /\ mishaps = 0

Mishap == mishaps < MaxMishaps /\ mishaps' = mishaps + 1
Fails(kind) == kind \in Faults /\ Mishap
Step(from, to) == pc = from /\ pc' = to

\* Mutant of Exit: session tokens are kept with the process gone.
ExitKeepingSessions ==
    /\ pc' = "down" /\ qrpc' = "idle" /\ export' = "idle"
    /\ UNCHANGED sessions

\* The process ends: goroutines and session tokens are gone.
Exit ==
    /\ pc' = "down" /\ qrpc' = "idle" /\ export' = "idle"
    /\ sessions' = {}

Continue == UNCHANGED <<qrpc, export, sessions, mishaps>>

\* Swarm starts a process for as long as there is a service, with its options.
StartProcess ==
    /\ service # "gone" /\ Step("down", "stat")
    /\ lapse' = {}
    /\ UNCHANGED <<files, swarm, store, cur, main, coder, export, phones, mishaps>>

\* The user launches the databox again, maybe with other options.
Relaunch ==
    /\ pc = "down" /\ service = "gone" /\ service' = "new"
    /\ options' \in [override : Overrides, clear : Clears]
    /\ UNCHANGED <<files, left, store, pc, cur, reach, refused, want, passwords, coder,
                   export, phones, lapse, mishaps>>

(***************************************************************************)
(* Certificates and tokens                                                 *)
(***************************************************************************)
Present(f) == disk[f].size # "none"
Whole(f) == disk[f].size = "whole"

\* GenRootCA makes a new key if there is no file for it.
StatRoot ==
    /\ \/ /\ ~Present("root")
          /\ Step("stat", "create") /\ cur' = RootOrder[1]
          /\ keys' = keys + 1
       \/ /\ Present("root")
          /\ Step("stat", "files")
          /\ UNCHANGED <<cur, keys>>
    /\ UNCHANGED <<disk, swarm, store, main, qrpw, phone, paired, lapse>> /\ Continue

\* Certificates come before tokens; GenCert panics on a root file it cannot decode.
NextFile ==
    \/ /\ pc = "files"
       /\ \E i \in 1..Len(FileOrder) :
             /\ ~Present(FileOrder[i]) /\ \A j \in 1..(i-1) : Present(FileOrder[j])
             /\ IF FileOrder[i] \in Cert /\ ~Whole("root")
                THEN Exit /\ UNCHANGED <<cur, mishaps>>
                ELSE pc' = "create" /\ cur' = FileOrder[i] /\ Continue
       /\ UNCHANGED <<files, swarm, store, main, qrpw, phone, paired, lapse>>
    \/ /\ \A i \in 1..Len(FileOrder) : Present(FileOrder[i])
       /\ Step("files", "loader") /\ Continue
       /\ UNCHANGED <<files, swarm, store, cur, main, qrpw, phone, paired, lapse>>

CreateFile ==
    /\ Step("create", "write")
    /\ disk' = [disk EXCEPT ![cur] = [size |-> "torn", key |-> 0]]
    /\ UNCHANGED <<keys, swarm, store, cur, main, qrpw, phone, paired, lapse>> /\ Continue

\* A certificate is signed with the root key on disk; a token has none.
KeyOf(f) ==
    IF f \in RootFile THEN keys ELSE IF f \in Cert THEN disk["root"].key ELSE 0

WriteFile ==
    /\ disk' = [disk EXCEPT ![cur] = [size |-> "whole", key |-> KeyOf(cur)]]
    /\ \/ \E i \in 1..2 :
             /\ cur = RootOrder[i] /\ cur' = RootOrder[i + 1]
             /\ Step("write", "create")
       \/ /\ \A i \in 1..2 : cur # RootOrder[i]
          /\ Step("write", "files") /\ UNCHANGED cur
    /\ UNCHANGED <<keys, swarm, store, main, qrpw, phone, paired, lapse>> /\ Continue

(***************************************************************************)
(* Up to the web server                                                    *)
(***************************************************************************)

\* checkForAndFixBadRestarts (module DataboxLoader) finds old services.  It removes
\* the CM's service with them, so swarm stops the process, now or later: what is
\* left by then is `rest'.
RemoveLeft(rest) ==
    /\ pc = "loader" /\ "services" \in left
    /\ Exit /\ service' = "gone" /\ left' = rest
    /\ UNCHANGED <<files, store, cur, main, qrpw, phone, paired, lapse, mishaps>>

CleanUp == RemoveLeft({}) \/ RemoveLeft(left \ {"services"})
CleanUpCutShort == RemoveLeft(left)

\* It may fail to remove anything; a CM that is still there then updates its
\* service, or fails to.
CleanUpFails ==
    /\ pc = "loader" /\ "services" \in left
    /\ Exit /\ Fails("loader")
    /\ service' \in {"gone", "updated", service}
    /\ left' \in SUBSET {"services", "core"}
    /\ UNCHANGED <<files, store, cur, main, qrpw, phone, paired, lapse>>

\* Mutant of LoadDatabox: every boot updates the CM's service.
LoadAgain ==
    /\ pc = "loader" /\ "services" \notin left
    /\ Exit /\ service' = "updated"
    /\ UNCHANGED <<files, left, store, cur, main, qrpw, phone, paired, lapse, mishaps>>

\* databox.Start with no old service: the first one updates the CM's service, which
\* restarts it.  Docker makes no secret of an empty file, and no arbiter without the
\* secret.  A core network that is cut off ends it with a panic.
LoadDatabox ==
    /\ pc = "loader" /\ "services" \notin left
    /\ \/ /\ left = {} /\ service = "new"
          /\ Exit /\ service' = "updated" /\ UNCHANGED <<left, mishaps>>
       \/ /\ left = {} /\ service = "updated"
          /\ pc' = "arbiter" /\ left' = {"services"}
          /\ UNCHANGED service /\ Continue
       \/ /\ left = {"core"} \/ ~Whole("arbiterToken-container-manager")
          /\ Exit /\ UNCHANGED <<swarm, mishaps>>
       \/ Exit /\ Fails("loader") /\ UNCHANGED swarm
    /\ UNCHANGED <<files, store, cur, main, qrpw, phone, paired, lapse>>

\* main waits for the arbiter, or exits; Start only logs the same error.  Then
\* the export service is started on a goroutine.
WaitForArbiter ==
    /\ \/ /\ Step("arbiter", "component") /\ export' = "starting"
          /\ UNCHANGED <<qrpc, sessions, mishaps>>
       \/ pc = "arbiter" /\ Exit /\ Fails("arbiter")
    /\ UNCHANGED <<files, swarm, store, cur, main, qrpw, phone, paired, lapse>>

RegisterComponent ==
    /\ Step("component", "store")
    /\ \/ refused' = FALSE /\ UNCHANGED mishaps
       \/ refused' = TRUE /\ Fails("component")
    /\ UNCHANGED <<files, swarm, store, cur, options, reach, want, passwords, coder,
                   export, phones, lapse>>

\* launchCMStore returns an address whether its store runs or not.
LaunchStore ==
    /\ Step("store", "clear")
    /\ \/ reach' = TRUE /\ UNCHANGED mishaps
       \/ reach' = FALSE /\ Fails("store")
    /\ UNCHANGED <<files, swarm, store, cur, options, refused, want, passwords, coder,
                   export, phones, lapse>>

StoreWorks == reach /\ UNCHANGED mishaps
StoreFails == (~reach /\ UNCHANGED mishaps) \/ Fails("store")

\* The password is kept in the store that is cleared, as text among JSON: what
\* DeleteAll makes of it is the store's choice.
ClearSLAs ==
    /\ Step("clear", "load")
    /\ \/ /\ options.clear /\ ~refused /\ StoreWorks /\ passwords < MaxPasswords
          /\ saved' = 0 /\ paired' = {}
       \/ UNCHANGED <<saved, paired, mishaps>>
       \/ options.clear /\ ~refused /\ StoreFails /\ UNCHANGED <<saved, paired>>
    /\ UNCHANGED <<files, swarm, qr, cur, main, coder, export, sessions, phone, lapse>>

UseOverride ==
    /\ options.override /\ Step("load", "serve")
    /\ want' = Override
    /\ lapse' = lapse \cup {"override"}
    /\ UNCHANGED <<files, swarm, store, cur, options, reach, refused, passwords, coder,
                   export, phones, mishaps>>

\* Mutant of LoadPassword: it is taken as it is found.
LoadWithoutCheck ==
    /\ ~options.override /\ StoreWorks
    /\ Step("load", "serve") /\ want' = saved
    /\ UNCHANGED <<files, swarm, store, cur, options, reach, refused, passwords, coder,
                   export, phones, lapse>>

\* Mutant of LoadPassword: the API, and with it the QR code, is started before.
LoadWithAPI ==
    /\ ~options.override /\ StoreWorks
    /\ \/ saved # 0 /\ Step("load", "serve") /\ want' = saved /\ UNCHANGED passwords
       \/ /\ saved = 0 /\ Step("load", "save")
          /\ want' = passwords + 1 /\ passwords' = passwords + 1
    /\ qrpc' = "certs"
    /\ UNCHANGED <<files, swarm, store, cur, options, reach, refused, qrpw,
                   export, phones, lapse>>

\* Mutant of LoadPassword: what was read is not used.
GenerateAlways ==
    /\ ~options.override /\ StoreWorks
    /\ Step("load", "save") /\ want' = passwords + 1 /\ passwords' = want'
    /\ UNCHANGED <<files, swarm, store, cur, options, reach, refused, coder, export, phones,
                   lapse>>

\* A password that was not found, or not read, is generated.
LoadPassword ==
    /\ ~options.override
    /\ \/ /\ StoreWorks /\ saved # 0
          /\ Step("load", "serve") /\ want' = saved
          /\ UNCHANGED <<passwords, paired, lapse>>
       \/ /\ StoreWorks /\ saved = 0
          /\ Step("load", "save") /\ want' = passwords + 1 /\ passwords' = passwords + 1
          /\ UNCHANGED <<paired, lapse>>
       \/ /\ StoreFails
          /\ Step("load", "save") /\ want' = passwords + 1 /\ passwords' = passwords + 1
          /\ paired' = {} /\ lapse' = lapse \cup {"load"}
    /\ UNCHANGED <<files, swarm, store, cur, options, reach, refused, coder, export,
                   sessions, phone>>

\* A password that cannot be saved is used all the same.
SavePassword ==
    /\ Step("save", "serve")
    /\ \/ StoreWorks /\ saved' = want /\ UNCHANGED lapse
       \/ /\ StoreFails /\ UNCHANGED saved
          /\ lapse' = lapse \cup {"save"}
    /\ UNCHANGED <<files, swarm, qr, cur, main, coder, export, phones>>

\* CmZestAPI, and with it the QR code, is started before the server.
StartAPI ==
    /\ Step("serve", "secure") /\ qrpc' = "certs"
    /\ UNCHANGED <<files, swarm, store, cur, main, qrpw, export, phones, lapse, mishaps>>

\* ServeSecure: the server ends the process without a certificate.
Serve ==
    /\ \/ Whole("container-manager") /\ Step("secure", "ready") /\ Continue
       \/ ~Whole("container-manager") /\ pc = "secure" /\ Exit /\ UNCHANGED mishaps
    /\ UNCHANGED <<files, swarm, store, cur, main, qrpw, phone, paired, lapse>>

BootStep ==
    \/ StartProcess \/ StatRoot \/ NextFile \/ CreateFile \/ WriteFile
    \/ CleanUp \/ CleanUpCutShort \/ CleanUpFails \/ LoadDatabox \/ WaitForArbiter
    \/ RegisterComponent \/ LaunchStore \/ ClearSLAs \/ UseOverride \/ LoadPassword
    \/ SavePassword \/ StartAPI \/ Serve

(***************************************************************************)
(* The other goroutines                                                    *)
(***************************************************************************)

\* The export service cannot be created: that is fatal, whenever it happens.
StartExport ==
    /\ export = "starting"
    /\ \/ export' = "done" /\ UNCHANGED <<pc, qrpc, sessions, mishaps>>
       \/ Exit /\ Fails("export")
    /\ UNCHANGED <<files, swarm, store, cur, main, qrpw, phone, paired, lapse>>

PublishCerts ==
    /\ qrpc = "certs" /\ qrpc' = "load"
    /\ \/ StoreWorks /\ qr' = [qr EXCEPT !.cert = disk["pub"].key]
       \/ StoreFails /\ UNCHANGED qr
    /\ UNCHANGED <<files, swarm, saved, pc, cur, main, qrpw, export, phones, lapse>>

\* A password that cannot be read is shown as an empty one.
LoadForQR ==
    /\ qrpc = "load" /\ qrpc' = "write"
    /\ \/ StoreWorks /\ qrpw' = saved /\ UNCHANGED lapse
       \/ StoreFails /\ qrpw' = 0 /\ lapse' = lapse \cup {"qr"}
    /\ UNCHANGED <<files, swarm, store, pc, cur, main, export, phones>>

WriteQR ==
    /\ qrpc = "write"
    /\ \/ StoreWorks /\ qrpc' = "done" /\ qr' = [qr EXCEPT !.pw = qrpw]
       \/ StoreFails /\ qrpc' = "failed" /\ UNCHANGED qr
    /\ UNCHANGED <<files, swarm, saved, pc, cur, main, qrpw, export, phones, lapse>>

(***************************************************************************)
(* Phones, and the end of the process                                      *)
(***************************************************************************)

\* The QR code and cert.pem are what the store has, of this boot or an earlier.
Scan(p) ==
    /\ pc = "ready" /\ reach /\ p \notin paired \cup sessions
    /\ phone' = [phone EXCEPT ![p] = qr]
    /\ UNCHANGED <<files, swarm, store, pc, cur, main, coder, export, sessions, paired,
                   lapse, mishaps>>

\* auth with "Token password": a session token is made.
Login(p) ==
    /\ pc = "ready" /\ phone[p].cert = disk["container-manager"].key
    /\ phone[p].pw = want
    /\ sessions' = sessions \cup {p}
    /\ paired' = IF saved = want THEN paired \cup {p} ELSE paired
    /\ UNCHANGED <<files, swarm, store, pc, cur, main, coder, export, phone, lapse,
                   mishaps>>

Crash ==
    /\ pc # "down" /\ Exit /\ Mishap
    /\ UNCHANGED <<files, swarm, store, cur, main, qrpw, phone, paired, lapse>>

Next ==
    \/ BootStep \/ Relaunch \/ StartExport \/ PublishCerts \/ LoadForQR \/ WriteQR \/ Crash
    \/ \E p \in Phone : Scan(p) \/ Login(p)

Spec == Init /\ [][Next]_vars

\* Main runs, swarm restarts a process whose service is there, and the user launches
\* again a databox whose service is gone.  Not every clean-up is cut short: see
\* DataboxLoader's FairSpec.
FairSpec == Spec /\ WF_vars(BootStep) /\ WF_vars(Relaunch) /\ SF_vars(CleanUp)

(***************************************************************************)
(* Properties                                                              *)
(***************************************************************************)

\* Wherever crashes hit, a private key that is whole has the public files that
\* belong to it, and every certificate that is whole is signed with it: the key
\* is never made again once it is there.
CertsMatchRoot ==
    /\ Whole("root") =>
          \A f \in {"pub", "der"} : Whole(f) /\ disk[f].key = disk["root"].key
    /\ \A f \in Cert : Whole(f) => Whole("root") /\ disk[f].key = disk["root"].key

\* The QR code, once written, shows the password that the server wants, unless it
\* was overridden or a call to the store for it failed in this process.
QRShowsPassword == qrpc = "done" /\ lapse = {} => qr.pw = want

\* A phone that has logged in with the saved password is let in after every later
\* boot, by its password and by its root certificate, until the store is cleared, a
\* load of the password fails, or while it is overridden.
PairedStaysPaired ==
    \A p \in paired :
        /\ pc = "ready" /\ ~options.override => phone[p].pw = want
        /\ phone[p].cert = disk["container-manager"].key

\* Only who knows the password that this process wants has a session: an old
\* cookie does not outlive a password.
SessionsKnowPassword == \A p \in sessions : phone[p].pw = want

\* The databox comes up for good, through clean-ups that remove its own service and
\* the user's launches after them, unless a crash has torn the root key, the web
\* server's certificate or the CM's token, or a clean-up that failed has left the
\* core network cut off; a torn file of another component does not keep it down.
ServesOrTorn ==
    \/ <>[](pc = "ready")
    \/ <>[]("core" \in left)
    \/ \E f \in {"root", "container-manager", "arbiterToken-container-manager"} :
          <>[](disk[f].size = "torn")

(***************************************************************************)
(* The inductive invariants of the proofs                                  *)
(***************************************************************************)

\* How far the writing of a file has come.
FileInv ==
    /\ CertsMatchRoot
    /\ pc \in {"create", "write"} =>
         /\ cur \in RootFile => ~Whole("root")
         /\ cur \in {"der", "root"} => Whole("pub") /\ disk["pub"].key = keys
         /\ cur = "root" => Whole("der") /\ disk["der"].key = keys
         /\ cur \in Cert => Whole("root")
    /\ pc = "create" /\ cur \in Cert => ~Present(cur)
    /\ pc = "write" => disk[cur].size = "torn"
    /\ pc = "ready" \/ paired # {} => Whole("container-manager")

\* Where the password is while the process runs, and between two of them.
PasswordInv ==
    /\ qrpc # "idle" => pc \in {"secure", "ready"}
    /\ sessions # {} => pc = "ready"
    /\ pc \in {"serve", "secure", "ready"} =>
         /\ lapse = {} => saved = want
         /\ ~options.override /\ paired # {} => saved = want
    /\ pc = "save" => paired = {}
    /\ qrpc = "write" /\ lapse = {} => qrpw = want
    /\ paired # {} => saved > 0
    /\ \A p \in paired : phone[p].pw = saved
    /\ QRShowsPassword /\ PairedStaysPaired /\ SessionsKnowPassword
=============================================================================
