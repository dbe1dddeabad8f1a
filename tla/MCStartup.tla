----------------------------- MODULE MCStartup -----------------------------
(***************************************************************************)
(* Instances of Startup: phones are model values.                          *)
(***************************************************************************)
EXTENDS Startup
=============================================================================
