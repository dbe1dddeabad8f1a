--------------------------- MODULE StartupProofs ---------------------------
(***************************************************************************)
(* Proofs about Startup, for every set of phones and options and however   *)
(* often the process dies: types, that certificates always match the root  *)
(* key, and that passwords, QR codes, phones and sessions agree.           *)
(***************************************************************************)
EXTENDS Startup, TLAPS

\* What is looked for after the root key are the certificates and the tokens.
LEMMA Names ==
    /\ Len(FileOrder) = 8
    /\ \A i \in 1..8 : FileOrder[i] \in Cert \cup Token
    /\ \A f \in Cert \cup Token : f \notin RootFile
    /\ \A i \in 1..3 : RootOrder[i] \in RootFile
    /\ RootOrder[1] = "pub" /\ RootOrder[2] = "der" /\ RootOrder[3] = "root"
BY DEF FileOrder, Cert, Token, RootFile, RootOrder

LEMMA TypesStep ==
    ASSUME TypeOK, [Next]_vars
    PROVE  TypeOK'
<1> USE DEF TypeOK, files, store, main, coder, phones, Step, Continue, Exit, swarm, StoreWorks, StoreFails, Fails, Mishap
<1>1. CASE StartProcess
  BY <1>1 DEF StartProcess
<1>1a. CASE Relaunch
  <2>1. options' \in [override : BOOLEAN, clear : BOOLEAN]
    BY <1>1a, StartupAssumption DEF Relaunch
  <2> QED
    BY <1>1a, <2>1 DEF Relaunch
<1>2. CASE StatRoot
  <2>1. RootOrder[1] \in File
    BY Names DEF File
  <2> QED
    BY <1>2, <2>1 DEF StatRoot
<1>3. CASE NextFile
  <2>1. \A i \in 1..Len(FileOrder) : FileOrder[i] \in File
    BY Names DEF File
  <2>2. cur' \in File
    BY <1>3, <2>1 DEF NextFile
  <2>3. pc' \in {"down", "create", "loader"} /\ sessions' \in {{}, sessions}
    BY <1>3 DEF NextFile
  <2>4. /\ qrpc' \in {"idle", qrpc} /\ export' \in {"idle", export} /\ mishaps' = mishaps
        /\ UNCHANGED <<disk, keys, service, left, saved, qr, options, reach, refused, want,
                       passwords, qrpw, phone, paired, lapse>>
    BY <1>3 DEF NextFile
  <2> QED
    BY <2>2, <2>3, <2>4
<1>4. CASE CreateFile
  <2>1. [size |-> "torn", key |-> 0] \in Content
    BY DEF Content
  <2> QED
    BY <1>4, <2>1 DEF CreateFile
<1>5. CASE WriteFile
  <2>1. KeyOf(cur) \in Nat
    BY DEF KeyOf, Content, File, RootFile
  <2>2. [size |-> "whole", key |-> KeyOf(cur)] \in Content
    BY <2>1 DEF Content
  <2>3. \A i \in 1..3 : RootOrder[i] \in File
    BY Names DEF File
  <2> QED
    BY <1>5, <2>2, <2>3 DEF WriteFile
<1>6. CASE CleanUp \/ CleanUpCutShort \/ CleanUpFails \/ LoadDatabox
  <2>1. service' \in {"gone", "new", "updated"} /\ left' \subseteq {"services", "core"}
    BY <1>6 DEF CleanUp, CleanUpCutShort, RemoveLeft, CleanUpFails, LoadDatabox
  <2>2. /\ pc' \in {"down", "arbiter"} /\ sessions' \in {{}, sessions}
        /\ qrpc' \in {"idle", qrpc} /\ export' \in {"idle", export}
        /\ mishaps' \in Nat
    BY <1>6 DEF CleanUp, CleanUpCutShort, RemoveLeft, CleanUpFails, LoadDatabox
  <2>3. UNCHANGED <<disk, keys, saved, qr, cur, options, reach, refused, want, passwords,
                    qrpw, phone, paired, lapse>>
    BY <1>6 DEF CleanUp, CleanUpCutShort, RemoveLeft, CleanUpFails, LoadDatabox
  <2> QED
    BY <2>1, <2>2, <2>3
<1>7. CASE WaitForArbiter
  BY <1>7 DEF WaitForArbiter
<1>8. CASE RegisterComponent
  <2>1. pc' = "store" /\ mishaps' \in Nat
    BY <1>8 DEF RegisterComponent
  <2>3. refused' \in BOOLEAN
    BY <1>8, Zenon DEF RegisterComponent
  <2>2. UNCHANGED <<disk, keys, service, left, saved, qr, cur, options, reach, want, passwords,
                    qrpc, qrpw, export, sessions, phone, paired, lapse>>
    BY <1>8 DEF RegisterComponent
  <2> QED
    BY <2>1, <2>2, <2>3
<1>9. CASE LaunchStore
  <2>1. pc' = "clear" /\ mishaps' \in Nat
    BY <1>9 DEF LaunchStore
  <2>3. reach' \in BOOLEAN
    BY <1>9, Zenon DEF LaunchStore
  <2>2. UNCHANGED <<disk, keys, service, left, saved, qr, cur, options, refused, want, passwords,
                    qrpc, qrpw, export, sessions, phone, paired, lapse>>
    BY <1>9 DEF LaunchStore
  <2> QED
    BY <2>1, <2>2, <2>3
<1>10. CASE ClearSLAs
  BY <1>10 DEF ClearSLAs
<1>11. CASE UseOverride
  <2>1. lapse' \subseteq {"override", "load", "save", "qr"}
    BY <1>11 DEF UseOverride
  <2>2. pc' = "serve" /\ want' = 1
    BY <1>11 DEF UseOverride, Override
  <2>3. UNCHANGED <<disk, keys, service, left, saved, qr, cur, options, reach, refused, passwords,
                    qrpc, qrpw, export, sessions, phone, paired, mishaps>>
    BY <1>11 DEF UseOverride
  <2> QED
    BY <2>1, <2>2, <2>3
<1>12. CASE LoadPassword
  <2>1. lapse' \subseteq {"override", "load", "save", "qr"}
    BY <1>12 DEF LoadPassword
  <2>4. paired' \in {{}, paired}
    BY <1>12 DEF LoadPassword
  <2>2. /\ pc' \in {"serve", "save"} /\ mishaps' \in Nat
        /\ want' \in Nat /\ want' > 0 /\ passwords' \in Nat
    BY <1>12 DEF LoadPassword
  <2>3. UNCHANGED <<disk, keys, service, left, saved, qr, cur, options, reach, refused, qrpc, qrpw,
                    export, sessions, phone>>
    BY <1>12 DEF LoadPassword
  <2> QED
    BY <2>1, <2>2, <2>3, <2>4
<1>13. CASE SavePassword
  <2>1. lapse' \subseteq {"override", "load", "save", "qr"}
    BY <1>13 DEF SavePassword
  <2>2. pc = "save" /\ pc' = "serve" /\ saved' \in {saved, want} /\ mishaps' \in Nat
    BY <1>13 DEF SavePassword
  <2>3. UNCHANGED <<disk, keys, service, left, qr, cur, options, reach, refused, want, passwords,
                    qrpc, qrpw, export, sessions, phone, paired>>
    BY <1>13 DEF SavePassword
  <2> QED
    BY <2>1, <2>2, <2>3
<1>14. CASE StartAPI
  BY <1>14 DEF StartAPI
<1>14a. CASE Serve
  BY <1>14a DEF Serve
<1>15. CASE StartExport
  BY <1>15 DEF StartExport
<1>16. CASE PublishCerts
  <2>1. disk["pub"].key \in Nat
    BY DEF Content, File, RootFile
  <2> QED
    BY <1>16, <2>1 DEF PublishCerts
<1>17. CASE LoadForQR
  <2>1. lapse' \subseteq {"override", "load", "save", "qr"}
    BY <1>17 DEF LoadForQR
  <2>2. qrpc' = "write" /\ qrpw' \in {0, saved} /\ mishaps' \in Nat
    BY <1>17 DEF LoadForQR
  <2>3. UNCHANGED <<disk, keys, service, left, saved, qr, pc, cur, options, reach, refused, want,
                    passwords, export, sessions, phone, paired>>
    BY <1>17 DEF LoadForQR
  <2> QED
    BY <2>1, <2>2, <2>3
<1>18. CASE WriteQR
  BY <1>18 DEF WriteQR
<1>19. CASE Crash
  BY <1>19 DEF Crash
<1>20. ASSUME NEW p \in Phone, Scan(p) PROVE TypeOK'
  BY <1>20 DEF Scan
<1>21. ASSUME NEW p \in Phone, Login(p) PROVE TypeOK'
  BY <1>21 DEF Login
<1>22. CASE UNCHANGED vars
  BY <1>22 DEF vars
<1> QED
  BY <1>1, <1>1a, <1>2, <1>3, <1>4, <1>5, <1>6, <1>7, <1>8, <1>9, <1>10, <1>11, <1>12,
     <1>13, <1>14, <1>14a, <1>15, <1>16, <1>17, <1>18, <1>19, <1>20, <1>21, <1>22
  DEF Next, BootStep

\* The state keeps its types, and no server runs with an empty password
\* (containerManager.go 121-138).
THEOREM TypeCorrect == Spec => []TypeOK
<1>1. Init => TypeOK
  <2>1. Nothing \in Content
    BY DEF Nothing, Content
  <2> SUFFICES ASSUME Init PROVE TypeOK
    OBVIOUS
  <2>2. options \in [override : BOOLEAN, clear : BOOLEAN]
    BY StartupAssumption DEF Init
  <2>3. disk \in [File -> Content] /\ "pub" \in File
    BY <2>1 DEF Init, File, RootFile
  <2> QED
    BY <2>2, <2>3 DEF Init, TypeOK, Override
<1> QED
  BY <1>1, TypesStep, PTL DEF Spec

(***************************************************************************)
(* Certificates                                                            *)
(***************************************************************************)
LEMMA FileStep ==
    ASSUME TypeOK, FileInv, [Next]_vars
    PROVE  FileInv'
<1> USE DEF TypeOK, files, store, main, coder, phones, Step, Continue, Exit, swarm, StoreWorks, StoreFails, Fails, Mishap, FileInv, CertsMatchRoot, Whole, Present
<1>1. CASE StartProcess
  BY <1>1 DEF StartProcess
<1>1a. CASE Relaunch
  BY <1>1a DEF Relaunch
<1>2. CASE StatRoot
  BY <1>2, Names DEF StatRoot, Cert
<1>3. CASE NextFile
  <2>1. CASE pc' \in {"down", "loader"}
    BY <1>3, <2>1 DEF NextFile
  <2>2. CASE pc' = "create"
    <3>1. PICK i \in 1..Len(FileOrder) :
              /\ ~Present(FileOrder[i]) /\ cur' = FileOrder[i]
              /\ FileOrder[i] \in Cert => Whole("root")
      BY <1>3, <2>2 DEF NextFile
    <3>2. cur' \in Cert \cup Token /\ cur' \notin RootFile
      BY <3>1, Names
    <3>3. UNCHANGED <<disk, keys, paired>>
      BY <1>3 DEF NextFile
    <3> QED
      BY <2>2, <3>1, <3>2, <3>3 DEF RootFile
  <2> QED
    BY <1>3, <2>1, <2>2 DEF NextFile
<1>4. CASE CreateFile
  BY <1>4 DEF CreateFile, File, RootFile, Cert, Token, Content
<1>5. CASE WriteFile
  <2>1. CASE cur \in RootFile
    BY <1>5, <2>1, Names DEF WriteFile, KeyOf, File, RootFile, Cert, Token, Content
  <2>2. CASE cur \in Cert
    BY <1>5, <2>2, Names DEF WriteFile, KeyOf, File, RootFile, Cert, Token, Content
  <2>3. CASE cur \in Token
    BY <1>5, <2>3, Names DEF WriteFile, KeyOf, File, RootFile, Cert, Token, Content
  <2> QED
    BY <2>1, <2>2, <2>3 DEF File
<1>6. CASE CleanUp \/ CleanUpCutShort \/ CleanUpFails \/ LoadDatabox
  BY <1>6 DEF CleanUp, CleanUpCutShort, RemoveLeft, CleanUpFails, LoadDatabox
<1>7. CASE WaitForArbiter
  BY <1>7 DEF WaitForArbiter
<1>8. CASE RegisterComponent
  BY <1>8 DEF RegisterComponent
<1>9. CASE LaunchStore
  BY <1>9 DEF LaunchStore
<1>10. CASE ClearSLAs
  BY <1>10 DEF ClearSLAs
<1>11. CASE UseOverride
  BY <1>11 DEF UseOverride
<1>12. CASE LoadPassword
  BY <1>12 DEF LoadPassword
<1>13. CASE SavePassword
  BY <1>13 DEF SavePassword
<1>14. CASE StartAPI
  BY <1>14 DEF StartAPI
<1>14a. CASE Serve
  BY <1>14a DEF Serve
<1>15. CASE StartExport
  BY <1>15 DEF StartExport
<1>16. CASE PublishCerts
  BY <1>16 DEF PublishCerts
<1>17. CASE LoadForQR
  BY <1>17 DEF LoadForQR
<1>18. CASE WriteQR
  BY <1>18 DEF WriteQR
<1>19. CASE Crash
  BY <1>19 DEF Crash
<1>20. ASSUME NEW p \in Phone, Scan(p) PROVE FileInv'
  BY <1>20 DEF Scan
<1>21. ASSUME NEW p \in Phone, Login(p) PROVE FileInv'
  BY <1>21 DEF Login
<1>22. CASE UNCHANGED vars
  BY <1>22 DEF vars
<1> QED
  BY <1>1, <1>1a, <1>2, <1>3, <1>4, <1>5, <1>6, <1>7, <1>8, <1>9, <1>10, <1>11, <1>12,
     <1>13, <1>14, <1>14a, <1>15, <1>16, <1>17, <1>18, <1>19, <1>20, <1>21, <1>22
  DEF Next, BootStep

LEMMA FileInvCorrect == Spec => []FileInv
<1>1. Init => FileInv
  BY DEF Init, FileInv, CertsMatchRoot, Whole, Present, Nothing, File, RootFile, Cert
<1> QED
  BY <1>1, FileStep, TypeCorrect, PTL DEF Spec

\* Wherever the process dies, a private key that is whole goes with its public
\* files, and whole certificates with it (GenRootCA, GenCertToFile).
THEOREM CertificatesMatch == Spec => []CertsMatchRoot
<1>1. FileInv => CertsMatchRoot
  BY DEF FileInv
<1> QED
  BY <1>1, FileInvCorrect, PTL

(***************************************************************************)
(* The password                                                            *)
(***************************************************************************)
LEMMA PasswordStep ==
    ASSUME TypeOK, FileInv, PasswordInv, [Next]_vars
    PROVE  PasswordInv'
<1> USE DEF TypeOK, files, store, main, coder, phones, Step, Continue, Exit, swarm, StoreWorks, StoreFails, Fails, Mishap, FileInv, PasswordInv, QRShowsPassword, PairedStaysPaired, SessionsKnowPassword
<1>1. CASE StartProcess
  BY <1>1 DEF StartProcess
<1>1a. CASE Relaunch
  BY <1>1a DEF Relaunch
<1>2. CASE StatRoot
  BY <1>2 DEF StatRoot
<1>3. CASE NextFile
  BY <1>3 DEF NextFile
<1>4. CASE CreateFile
  <2>1. paired # {} => disk'["container-manager"] = disk["container-manager"]
    BY <1>4 DEF CreateFile, Whole, Present, Cert, File
  <2> QED
    BY <1>4, <2>1 DEF CreateFile
<1>5. CASE WriteFile
  <2>1. paired # {} => disk'["container-manager"] = disk["container-manager"]
    BY <1>5 DEF WriteFile, Whole, Present, Cert, File
  <2> QED
    BY <1>5, <2>1 DEF WriteFile
<1>6. CASE CleanUp \/ CleanUpCutShort \/ CleanUpFails \/ LoadDatabox
  BY <1>6 DEF CleanUp, CleanUpCutShort, RemoveLeft, CleanUpFails, LoadDatabox
<1>7. CASE WaitForArbiter
  BY <1>7 DEF WaitForArbiter
<1>8. CASE RegisterComponent
  BY <1>8 DEF RegisterComponent
<1>9. CASE LaunchStore
  BY <1>9 DEF LaunchStore
<1>10. CASE ClearSLAs
  BY <1>10 DEF ClearSLAs
<1>11. CASE UseOverride
  BY <1>11 DEF UseOverride
<1>12. CASE LoadPassword
  BY <1>12 DEF LoadPassword
<1>13. CASE SavePassword
  BY <1>13 DEF SavePassword
<1>14. CASE StartAPI
  BY <1>14 DEF StartAPI
<1>14a. CASE Serve
  BY <1>14a DEF Serve
<1>15. CASE StartExport
  BY <1>15 DEF StartExport
<1>16. CASE PublishCerts
  BY <1>16 DEF PublishCerts
<1>17. CASE LoadForQR
  BY <1>17 DEF LoadForQR
<1>18. CASE WriteQR
  BY <1>18 DEF WriteQR
<1>19. CASE Crash
  BY <1>19 DEF Crash
<1>20. ASSUME NEW p \in Phone, Scan(p) PROVE PasswordInv'
  BY <1>20 DEF Scan
<1>21. ASSUME NEW p \in Phone, Login(p) PROVE PasswordInv'
  BY <1>21 DEF Login
<1>22. CASE UNCHANGED vars
  BY <1>22 DEF vars
<1> QED
  BY <1>1, <1>1a, <1>2, <1>3, <1>4, <1>5, <1>6, <1>7, <1>8, <1>9, <1>10, <1>11, <1>12,
     <1>13, <1>14, <1>14a, <1>15, <1>16, <1>17, <1>18, <1>19, <1>20, <1>21, <1>22
  DEF Next, BootStep

LEMMA PasswordInvCorrect == Spec => []PasswordInv
<1>1. Init => PasswordInv
  BY DEF Init, PasswordInv, QRShowsPassword, PairedStaysPaired, SessionsKnowPassword
<1> QED
  BY <1>1, PasswordStep, TypeCorrect, FileInvCorrect, PTL DEF Spec

\* The QR code shows what the server wants, barring overrides and failed calls
\* (populateMobileAppQrCodeAndCerts and Start).
THEOREM QRCodeRight == Spec => []QRShowsPassword
<1>1. PasswordInv => QRShowsPassword
  BY DEF PasswordInv
<1> QED
  BY <1>1, PasswordInvCorrect, PTL

\* A paired phone stays paired over crashes and boots (Start 121-138).
THEOREM PairingLasts == Spec => []PairedStaysPaired
<1>1. PasswordInv => PairedStaysPaired
  BY DEF PasswordInv
<1> QED
  BY <1>1, PasswordInvCorrect, PTL

\* A session means knowing the password of this process (auth).
THEOREM SessionsRight == Spec => []SessionsKnowPassword
<1>1. PasswordInv => SessionsKnowPassword
  BY DEF PasswordInv
<1> QED
  BY <1>1, PasswordInvCorrect, PTL
=============================================================================
