------------------------- MODULE DataboxLoaderProofs -------------------------
(***************************************************************************)
(* Proofs about DataboxLoader, for any components, faults and number of    *)
(* crashes and reboots.                                                    *)
(***************************************************************************)
EXTENDS DataboxLoader, FiniteSetTheorems, TLAPS

LEMMA TypesStep == TypeOK /\ [Next]_vars => TypeOK'
<1> SUFFICES ASSUME TypeOK, [Next]_vars PROVE TypeOK'
  OBVIOUS
<1>1. ASSUME StartProcess PROVE TypeOK'
  BY <1>1 DEF TypeOK, StartProcess, Step, swarm, network, process
<1>2. ASSUME CheckForBadRestart PROVE TypeOK'
  BY <1>2 DEF TypeOK, CheckForBadRestart, Step, swarm, network, process
<1>3. ASSUME NEW s \in Service, RemoveService(s) PROVE TypeOK'
  BY <1>3 DEF TypeOK, RemoveService, Fails, Mishap, IDOf, getThisContainerID,
     Step, swarm, network, process
<1>4. ASSUME RemoveCoreNetwork PROVE TypeOK'
  BY <1>4 DEF TypeOK, RemoveCoreNetwork, Fails, Mishap, Step, swarm, network,
     process
<1>5. ASSUME RemoveNetworks PROVE TypeOK'
  BY <1>5 DEF TypeOK, RemoveNetworks, Fails, Mishap, SysnetInUse, Step, swarm,
     network, process
<1>6. ASSUME RemoveSecrets PROVE TypeOK'
  BY <1>6 DEF TypeOK, RemoveSecrets, Held, Fails, Mishap, Step, swarm, network,
     process
<1>7. ASSUME StartCoreNetwork PROVE TypeOK'
  BY <1>7 DEF TypeOK, StartCoreNetwork, Exit, Step, swarm, network, process
<1>8. ASSUME CreateSystemNetwork PROVE TypeOK'
  BY <1>8 DEF TypeOK, CreateSystemNetwork, SysnetInUse, Step, swarm, network,
     process
<1>9. ASSUME StartCoreContainer PROVE TypeOK'
  BY <1>9 DEF TypeOK, StartCoreContainer, Fails, Mishap, Exit, Step, swarm,
     network, process
<1>10. ASSUME StartCoreNetworkRelay PROVE TypeOK'
  <2>1. relay' \in BOOLEAN
    BY <1>10 DEF TypeOK, StartCoreNetworkRelay
  <2>2. mishaps' \in Nat
    BY <1>10 DEF TypeOK, StartCoreNetworkRelay, Fails, Mishap
  <2> QED
    BY <1>10, <2>1, <2>2 DEF TypeOK, StartCoreNetworkRelay, Exit, Step, swarm, network, process
<1>11. ASSUME CreateSecrets PROVE TypeOK'
  <2>1. secrets' \subseteq Global \cup Component /\ mishaps' \in Nat
    BY <1>11 DEF TypeOK, CreateSecrets, Fails, Mishap
  <2> QED
    BY <1>11, <2>1 DEF TypeOK, CreateSecrets, Step, swarm, network, process
<1>12. ASSUME UpdateContainerManager PROVE TypeOK'
  <2>1. spec' \in [dns : Nat, net : Nat, env : Nat, refs : SUBSET Global]
    BY <1>12 DEF TypeOK, UpdateContainerManager, Updated, CMSecrets, Global
  <2> QED
    BY <1>12, <2>1 DEF TypeOK, UpdateContainerManager, Exit, Step, swarm, network, process
<1>13. ASSUME StartArbiter PROVE TypeOK'
  <2>1. services' \subseteq Service
    BY <1>13 DEF TypeOK, StartArbiter, Service
  <2>2. mishaps' \in Nat
    BY <1>13 DEF TypeOK, StartArbiter, Fails, Mishap
  <2> QED
    BY <1>13, <2>1, <2>2 DEF TypeOK, StartArbiter, Exit, Step, swarm, network, process
<1>14. ASSUME NEW c \in Component, LaunchComponent(c) PROVE TypeOK'
  <2>1. /\ services' \subseteq Service /\ nets' \subseteq Component
        /\ secrets' \subseteq Global \cup Component
    BY <1>14 DEF TypeOK, LaunchComponent, Service
  <2> QED
    BY <1>14, <2>1 DEF TypeOK, LaunchComponent, Step, swarm, network, process
<1>15. ASSUME Crash PROVE TypeOK'
  BY <1>15 DEF TypeOK, Crash, Mishap, Step, swarm, network, process
<1>16. ASSUME RebootHost PROVE TypeOK'
  <2>1. relay' \in BOOLEAN
    BY <1>16 DEF TypeOK, RebootHost
  <2>2. mishaps' \in Nat
    BY <1>16 DEF TypeOK, RebootHost, Fails, Mishap
  <2> QED
    BY <1>16, <2>1, <2>2 DEF TypeOK, RebootHost, Step, swarm, network, process
<1>17. ASSUME StopProcess PROVE TypeOK'
  BY <1>17 DEF TypeOK, StopProcess, Step, swarm, network, process
<1>18. ASSUME Relaunch PROVE TypeOK'
  <2>1. /\ services' \subseteq Service
        /\ spec' \in [dns : Nat, net : Nat, env : Nat, refs : SUBSET Global]
    BY <1>18 DEF TypeOK, Relaunch, Service, NewSpec
  <2> QED
    BY <1>18, <2>1 DEF TypeOK, Relaunch, Step, swarm, network, process
<1>19. CASE UNCHANGED vars
  BY <1>19 DEF TypeOK, vars, swarm, network, process
<1> QED
  BY <1>1, <1>2, <1>3, <1>4, <1>5, <1>6, <1>7, <1>8, <1>9, <1>10, <1>11, <1>12,
     <1>13, <1>14, <1>15, <1>16, <1>17, <1>18, <1>19 DEF Next, BootStep

\* The state keeps its types (Databox.Start).
THEOREM TypeCorrect == Spec => []TypeOK
<1>1. ASSUME Init PROVE TypeOK
  <2>1. /\ services \subseteq Service
        /\ spec \in [dns : Nat, net : Nat, env : Nat, refs : SUBSET Global]
    BY <1>1 DEF Init, NewSpec, Service
  <2> QED
    BY <1>1, <2>1 DEF Init, TypeOK
<1> QED
  BY <1>1, TypesStep, PTL DEF Spec

LEMMA CoreStep == TypeOK /\ CoreInv /\ UpdateInv /\ [Next]_vars => CoreInv'
<1> SUFFICES ASSUME TypeOK, CoreInv, UpdateInv, [Next]_vars PROVE CoreInv'
  OBVIOUS
<1> USE DEF TypeOK
<1>1. ASSUME StartProcess PROVE CoreInv'
  BY <1>1 DEF CoreInv, StartProcess, Step, swarm, network, process
<1>2. ASSUME CheckForBadRestart PROVE CoreInv'
  BY <1>2 DEF CoreInv, CheckForBadRestart, Step, swarm, network, process
<1>3. ASSUME NEW s \in Service, RemoveService(s) PROVE CoreInv'
  BY <1>3 DEF CoreInv, RemoveService, Fails, Mishap, IDOf, getThisContainerID,
     Step, swarm, network, process
<1>4. ASSUME RemoveCoreNetwork PROVE CoreInv'
  BY <1>4 DEF CoreInv, RemoveCoreNetwork, Fails, Mishap, Step, swarm, network,
     process
<1>5. ASSUME RemoveNetworks PROVE CoreInv'
  <2>1. /\ pc' = "networks" /\ UNCHANGED core
        /\ coreNet' = 0 \/ UNCHANGED <<coreNet, sysnet>>
    BY <1>5 DEF RemoveNetworks, Step
  <2> QED
    BY <2>1 DEF CoreInv
<1>6. ASSUME RemoveSecrets PROVE CoreInv'
  BY <1>6 DEF CoreInv, RemoveSecrets, Fails, Mishap, Step, swarm, network,
     process
<1>7. ASSUME StartCoreNetwork PROVE CoreInv'
  BY <1>7 DEF CoreInv, StartCoreNetwork, Exit, Step, swarm, network, process
<1>8. ASSUME CreateSystemNetwork PROVE CoreInv'
  <2>1. core = 0 /\ core' = 0 /\ pc' = "startCore"
    BY <1>8 DEF CoreInv, CreateSystemNetwork, Step
  <2>2. sysnet' # 0
    BY <1>8 DEF CreateSystemNetwork, SysnetInUse
  <2> QED
    BY <2>1, <2>2 DEF CoreInv
<1>9. ASSUME StartCoreContainer PROVE CoreInv'
  BY <1>9 DEF CoreInv, StartCoreContainer, Fails, Mishap, Exit, Step, swarm,
     network, process
<1>10. ASSUME StartCoreNetworkRelay PROVE CoreInv'
  BY <1>10 DEF CoreInv, StartCoreNetworkRelay, Fails, Mishap, Exit, Step, swarm,
     network, process
<1>11. ASSUME CreateSecrets PROVE CoreInv'
  BY <1>11 DEF CoreInv, CreateSecrets, Step, swarm, network, process
<1>12. ASSUME UpdateContainerManager PROVE CoreInv'
  BY <1>12 DEF CoreInv, UpdateContainerManager, Exit, Step, swarm, network,
     process
<1>13. ASSUME StartArbiter PROVE CoreInv'
  BY <1>13 DEF CoreInv, StartArbiter, Fails, Mishap, Exit, Step, swarm, network,
     process
<1>14. ASSUME NEW c \in Component, LaunchComponent(c) PROVE CoreInv'
  BY <1>14 DEF CoreInv, LaunchComponent, Step, swarm, network, process
<1>15. ASSUME Crash PROVE CoreInv'
  BY <1>15 DEF CoreInv, Crash, Mishap, Step, swarm, network, process
<1>16. ASSUME RebootHost PROVE CoreInv'
  BY <1>16 DEF CoreInv, RebootHost, Mishap, Step, swarm, network, process
<1>17. ASSUME StopProcess PROVE CoreInv'
  BY <1>17 DEF CoreInv, StopProcess, Step, swarm, network, process
<1>18. ASSUME Relaunch PROVE CoreInv'
  BY <1>18 DEF CoreInv, Relaunch, NewSpec, Step, swarm, network, process
<1>19. CASE UNCHANGED vars
  BY <1>19 DEF CoreInv, vars, swarm, network, process
<1> QED
  BY <1>1, <1>2, <1>3, <1>4, <1>5, <1>6, <1>7, <1>8, <1>9, <1>10, <1>11, <1>12,
     <1>13, <1>14, <1>15, <1>16, <1>17, <1>18, <1>19 DEF Next, BootStep

LEMMA UpdateStep == TypeOK /\ CoreInv /\ UpdateInv /\ [Next]_vars => UpdateInv'
<1> SUFFICES ASSUME TypeOK, CoreInv, UpdateInv, [Next]_vars PROVE UpdateInv'
  OBVIOUS
<1> USE DEF TypeOK
<1>1. ASSUME StartProcess PROVE UpdateInv'
  BY <1>1 DEF CoreInv, UpdateInv, StartProcess, Step, swarm, network, process
<1>2. ASSUME CheckForBadRestart PROVE UpdateInv'
  BY <1>2 DEF CoreInv, UpdateInv, CheckForBadRestart, Step, swarm, network,
     process
<1>3. ASSUME NEW s \in Service, RemoveService(s) PROVE UpdateInv'
  BY <1>3 DEF CoreInv, UpdateInv, RemoveService, Fails, Mishap, IDOf,
     getThisContainerID, Step, swarm, network, process
<1>4. ASSUME RemoveCoreNetwork PROVE UpdateInv'
  BY <1>4 DEF CoreInv, UpdateInv, RemoveCoreNetwork, Fails, Mishap, Step, swarm,
     network, process
<1>5. ASSUME RemoveNetworks PROVE UpdateInv'
  BY <1>5 DEF CoreInv, UpdateInv, RemoveNetworks, Fails, Mishap, SysnetInUse,
     Step, swarm, network, process
<1>6. ASSUME RemoveSecrets PROVE UpdateInv'
  <2>1. "cm" \in services => spec.refs \subseteq Held
    BY DEF UpdateInv, Held, RefsOf
  <2> QED
    BY <1>6, <2>1 DEF UpdateInv, RemoveSecrets, Step, swarm, network, process
<1>7. ASSUME StartCoreNetwork PROVE UpdateInv'
  BY <1>7 DEF CoreInv, UpdateInv, StartCoreNetwork, Exit, Step, swarm, network,
     process
<1>8. ASSUME CreateSystemNetwork PROVE UpdateInv'
  BY <1>8 DEF CoreInv, UpdateInv, CreateSystemNetwork, SysnetInUse, Step, swarm,
     network, process
<1>9. ASSUME StartCoreContainer PROVE UpdateInv'
  BY <1>9 DEF CoreInv, UpdateInv, StartCoreContainer, Fails, Mishap, Exit, Step,
     swarm, network, process
<1>10. ASSUME StartCoreNetworkRelay PROVE UpdateInv'
  BY <1>10 DEF CoreInv, UpdateInv, StartCoreNetworkRelay, Fails, Mishap, Exit,
     Step, swarm, network, process
<1>11. ASSUME CreateSecrets PROVE UpdateInv'
  BY <1>11 DEF CoreInv, UpdateInv, CreateSecrets, Step, swarm, network, process
<1>12. ASSUME UpdateContainerManager PROVE UpdateInv'
  BY <1>12 DEF CoreInv, UpdateInv, UpdateContainerManager, UpToDate, Updatable,
     Updated, Exit, Step, swarm, network, process
<1>13. ASSUME StartArbiter PROVE UpdateInv'
  BY <1>13 DEF CoreInv, UpdateInv, StartArbiter, Fails, Mishap, Exit, Step,
     swarm, network, process
<1>14. ASSUME NEW c \in Component, LaunchComponent(c) PROVE UpdateInv'
  BY <1>14, LoaderAssumption DEF UpdateInv, LaunchComponent, Step, swarm,
     network, process
<1>15. ASSUME Crash PROVE UpdateInv'
  BY <1>15 DEF CoreInv, UpdateInv, Crash, Mishap, Step, swarm, network, process
<1>16. ASSUME RebootHost PROVE UpdateInv'
  BY <1>16 DEF CoreInv, UpdateInv, RebootHost, Mishap, Step, swarm, network,
     process
<1>17. ASSUME StopProcess PROVE UpdateInv'
  BY <1>17 DEF CoreInv, UpdateInv, StopProcess, Step, swarm, network, process
<1>18. ASSUME Relaunch PROVE UpdateInv'
  BY <1>18 DEF CoreInv, UpdateInv, Relaunch, NewSpec, Step, swarm, network,
     process
<1>19. CASE UNCHANGED vars
  BY <1>19 DEF CoreInv, UpdateInv, vars, swarm, network, process
<1> QED
  BY <1>1, <1>2, <1>3, <1>4, <1>5, <1>6, <1>7, <1>8, <1>9, <1>10, <1>11, <1>12,
     <1>13, <1>14, <1>15, <1>16, <1>17, <1>18, <1>19 DEF Next, BootStep

\* A finite set of at most one service that has the CM's is that service's alone.
LEMMA OnlyCM ==
  ASSUME NEW S, IsFiniteSet(S), "cm" \in S, Cardinality(S) <= 1
  PROVE  S = {"cm"}
<1>1. Cardinality(S) \in Nat /\ Cardinality(S) # 0
  BY FS_CardinalityType, FS_EmptySet
<1>2. Cardinality(S) = 1
  BY <1>1
<1> QED
  BY <1>2, FS_Singleton

LEMMA CleanStep == TypeOK /\ CleanInv /\ [Next]_vars => CleanInv'
<1> SUFFICES ASSUME TypeOK, CleanInv, [Next]_vars PROVE CleanInv'
  OBVIOUS
<1>a. IsFiniteSet(services) /\ \A x : IsFiniteSet(services \cup {x}) /\ IsFiniteSet(services \ {x})
  BY FS_AddElement, FS_RemoveElement DEF CleanInv
<1>1. ASSUME StartProcess PROVE CleanInv'
  BY <1>a, <1>1 DEF CleanInv, StartProcess, Step, swarm, network, process
<1>2. ASSUME CheckForBadRestart PROVE CleanInv'
  BY <1>a, OnlyCM, <1>2 DEF CleanInv, CheckForBadRestart, Step, swarm, network,
     process
<1>3. ASSUME NEW s \in Service, RemoveService(s) PROVE CleanInv'
  BY <1>a, <1>3 DEF CleanInv, RemoveService, Fails, Mishap, IDOf,
     getThisContainerID, Step, swarm, network, process
<1>4. ASSUME RemoveCoreNetwork PROVE CleanInv'
  BY <1>a, <1>4 DEF CleanInv, RemoveCoreNetwork, Fails, Mishap, Step, swarm,
     network, process
<1>5. ASSUME RemoveNetworks PROVE CleanInv'
  BY <1>a, <1>5 DEF CleanInv, RemoveNetworks, Fails, Mishap, SysnetInUse, Step,
     swarm, network, process
<1>6. ASSUME RemoveSecrets PROVE CleanInv'
  BY <1>a, <1>6 DEF CleanInv, RemoveSecrets, Fails, Mishap, Step, swarm,
     network, process
<1>7. ASSUME StartCoreNetwork PROVE CleanInv'
  BY <1>a, <1>7 DEF CleanInv, StartCoreNetwork, Exit, Step, swarm, network, process
<1>8. ASSUME CreateSystemNetwork PROVE CleanInv'
  BY <1>a, <1>8 DEF CleanInv, CreateSystemNetwork, SysnetInUse, Step, swarm,
     network, process
<1>9. ASSUME StartCoreContainer PROVE CleanInv'
  BY <1>a, <1>9 DEF CleanInv, StartCoreContainer, Fails, Mishap, Exit, Step,
     swarm, network, process
<1>10. ASSUME StartCoreNetworkRelay PROVE CleanInv'
  BY <1>a, <1>10 DEF CleanInv, StartCoreNetworkRelay, Fails, Mishap, Exit, Step,
     swarm, network, process
<1>11. ASSUME CreateSecrets PROVE CleanInv'
  BY <1>a, <1>11 DEF CleanInv, CreateSecrets, Step, swarm, network, process
<1>12. ASSUME UpdateContainerManager PROVE CleanInv'
  BY <1>a, <1>12 DEF CleanInv, UpdateContainerManager, UpToDate, Exit, Step, swarm,
     network, process
<1>13. ASSUME StartArbiter PROVE CleanInv'
  BY <1>a, <1>13 DEF CleanInv, StartArbiter, Fails, Mishap, Exit, Step, swarm,
     network, process
<1>14. ASSUME NEW c \in Component, LaunchComponent(c) PROVE CleanInv'
  BY <1>a, <1>14 DEF CleanInv, LaunchComponent, Step, swarm, network, process
<1>15. ASSUME Crash PROVE CleanInv'
  BY <1>a, <1>15 DEF CleanInv, Crash, Mishap, Step, swarm, network, process
<1>16. ASSUME RebootHost PROVE CleanInv'
  BY <1>a, <1>16 DEF CleanInv, RebootHost, Mishap, Step, swarm, network, process
<1>17. ASSUME StopProcess PROVE CleanInv'
  BY <1>a, <1>17 DEF CleanInv, StopProcess, Step, swarm, network, process
<1>18. ASSUME Relaunch PROVE CleanInv'
  BY <1>a, <1>18 DEF CleanInv, Relaunch, NewSpec, Step, swarm, network, process
<1>19. CASE UNCHANGED vars
  BY <1>a, <1>19 DEF CleanInv, vars, swarm, network, process
<1> QED
  BY <1>1, <1>2, <1>3, <1>4, <1>5, <1>6, <1>7, <1>8, <1>9, <1>10, <1>11, <1>12,
     <1>13, <1>14, <1>15, <1>16, <1>17, <1>18, <1>19 DEF Next, BootStep

LEMMA CalmStep ==
    TypeOK /\ CoreInv /\ CleanInv /\ CalmInv /\ [Next]_vars => CalmInv'
<1> SUFFICES ASSUME TypeOK, CoreInv, CleanInv, CalmInv, [Next]_vars PROVE CalmInv'
  OBVIOUS
<1>a. Cardinality({"cm"}) = 1
  BY FS_Singleton
<1>b. mishaps \in Nat
  BY DEF TypeOK
<1>1. ASSUME StartProcess PROVE CalmInv'
  BY <1>a, <1>b, <1>1 DEF CalmInv, StartProcess, Step, swarm, network, process
<1>2. ASSUME CheckForBadRestart PROVE CalmInv'
  BY <1>a, <1>b, <1>2 DEF CalmInv, CheckForBadRestart, Step, swarm, network,
     process
<1>3. ASSUME NEW s \in Service, RemoveService(s) PROVE CalmInv'
  BY <1>a, <1>b, <1>3 DEF CalmInv, RemoveService, Fails, Mishap, IDOf,
     getThisContainerID, Step, swarm, network, process
<1>4. ASSUME RemoveCoreNetwork PROVE CalmInv'
  BY <1>a, <1>b, <1>4 DEF CalmInv, RemoveCoreNetwork, Fails, Mishap, Step, swarm,
     network, process
<1>5. ASSUME RemoveNetworks PROVE CalmInv'
  BY <1>a, <1>b, <1>5 DEF CalmInv, RemoveNetworks, Fails, Mishap, SysnetInUse,
     Step, swarm, network, process
<1>6. ASSUME RemoveSecrets PROVE CalmInv'
  BY <1>a, <1>b, <1>6 DEF CalmInv, RemoveSecrets, Fails, Mishap, Step, swarm,
     network, process
<1>7. ASSUME StartCoreNetwork PROVE CalmInv'
  BY <1>a, <1>b, <1>7 DEF CalmInv, StartCoreNetwork, Exit, Step, swarm, network,
     process
<1>8. ASSUME CreateSystemNetwork PROVE CalmInv'
  BY <1>a, <1>b, <1>8 DEF CalmInv, CreateSystemNetwork, SysnetInUse, Step,
     swarm, network, process
<1>9. ASSUME StartCoreContainer PROVE CalmInv'
  <2>1. core = 0 /\ sysnet # 0 /\ UNCHANGED <<services, spec, bad, env>>
    BY <1>9 DEF CoreInv, StartCoreContainer, Exit, Step, swarm, process
  <2>2. /\ pc = "startCore"
        /\ mishaps' = 0 => mishaps = 0 /\ pc' = "relay" /\ coreNet' = sysnet
    BY <1>9, <1>b DEF StartCoreContainer, Exit, Step, Fails, Mishap
  <2> QED
    BY <2>1, <2>2 DEF CalmInv
<1>10. ASSUME StartCoreNetworkRelay PROVE CalmInv'
  BY <1>a, <1>b, <1>10 DEF CalmInv, StartCoreNetworkRelay, Fails, Mishap, Exit,
     Step, swarm, network, process
<1>11. ASSUME CreateSecrets PROVE CalmInv'
  <2>1. mishaps' = 0 => mishaps = 0 /\ Global \subseteq secrets'
    BY <1>11, <1>b DEF CreateSecrets, Fails, Mishap
  <2> QED
    BY <1>11, <2>1 DEF CalmInv, CreateSecrets, Step, swarm, network, process
<1>12. ASSUME UpdateContainerManager PROVE CalmInv'
  BY <1>a, <1>b, <1>12 DEF CoreInv, CalmInv, UpdateContainerManager, Updated,
     Exit, Step, swarm, network, process
<1>13. ASSUME StartArbiter PROVE CalmInv'
  BY <1>a, <1>b, <1>13 DEF CalmInv, StartArbiter, Fails, Mishap, Exit, Step,
     swarm, network, process
<1>14. ASSUME NEW c \in Component, LaunchComponent(c) PROVE CalmInv'
  BY <1>a, <1>b, <1>14 DEF CalmInv, LaunchComponent, Step, swarm, network,
     process
<1>15. ASSUME Crash PROVE CalmInv'
  BY <1>a, <1>b, <1>15 DEF CalmInv, Crash, Mishap, Step, swarm, network, process
<1>16. ASSUME RebootHost PROVE CalmInv'
  BY <1>a, <1>b, <1>16 DEF CalmInv, RebootHost, Mishap, Step, swarm, network,
     process
<1>17. ASSUME StopProcess PROVE CalmInv'
  BY <1>a, <1>b, <1>17 DEF CalmInv, StopProcess, Step, swarm, network, process
<1>18. ASSUME Relaunch PROVE CalmInv'
  BY <1>a, <1>b, <1>18 DEF CalmInv, Relaunch, NewSpec, Step, swarm, network,
     process
<1>19. CASE UNCHANGED vars
  BY <1>a, <1>b, <1>19 DEF CalmInv, vars, swarm, network, process
<1> QED
  BY <1>1, <1>2, <1>3, <1>4, <1>5, <1>6, <1>7, <1>8, <1>9, <1>10, <1>11, <1>12,
     <1>13, <1>14, <1>15, <1>16, <1>17, <1>18, <1>19 DEF Next, BootStep

LEMMA BootCorrect == Spec => [](TypeOK /\ BootInv)
<1>1. ASSUME Init PROVE BootInv
  <2>1. IsFiniteSet(services)
    BY <1>1, FS_Singleton DEF Init
  <2>2. spec.dns = 0 /\ spec.refs = {}
    BY <1>1 DEF Init, NewSpec
  <2> QED
    BY <1>1, <2>1, <2>2 DEF Init, BootInv, CoreInv, UpdateInv, CleanInv, CalmInv
<1>2. TypeOK /\ BootInv /\ [Next]_vars => BootInv'
  BY CoreStep, UpdateStep, CleanStep, CalmStep DEF BootInv
<1> QED
  BY <1>1, <1>2, TypeCorrect, PTL DEF Spec

\* A databox that is up uses the core network that runs, and its CM and arbiter
\* have every secret they refer to, whatever crashed, rebooted, could not be created
\* or could not be removed before (startCoreNetwork, updateContainerManager).
THEOREM UpIsConsistent == Spec => []BootIsConsistent
<1>1. BootInv => BootIsConsistent
  BY DEF BootInv, CoreInv, UpdateInv, CleanInv, CalmInv, BootIsConsistent, RefsOf
<1> QED
  BY <1>1, BootCorrect, PTL

\* A databox that is up runs nothing an earlier CM process started
\* (checkForAndFixBadRestarts, updateContainerManager).
THEOREM NothingOld == Spec => []NothingOldRuns
<1>1. BootInv => NothingOldRuns
  BY DEF BootInv, CleanInv, NothingOldRuns
<1> QED
  BY <1>1, BootCorrect, PTL
=============================================================================
