--------------------------- MODULE MCCrashDetector ---------------------------
(***************************************************************************)
(* Instances of CrashDetector.                                             *)
(***************************************************************************)
EXTENDS CrashDetector, TLC

\* API goroutines that only their name tells apart.
Symmetry == Permutations(Restarter)
=============================================================================
