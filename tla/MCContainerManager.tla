------------------------- MODULE MCContainerManager -------------------------
(***************************************************************************)
(* Instances of ContainerManager: an app that needs a store, a driver with *)
(* an external whitelist, and workers that only their name tells apart.    *)
(***************************************************************************)
EXTENDS ContainerManager, TLC

CONSTANTS app, driver

\* No name starts with another.
Unrelated == [c \in Component |-> {}]

\* The name of the app is a prefix of the driver's.
AppIsPrefix == [c \in Component |-> IF c = app THEN {driver} ELSE {}]

Symmetry == Permutations(Worker)
=============================================================================
