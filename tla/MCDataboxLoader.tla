-------------------------- MODULE MCDataboxLoader --------------------------
(***************************************************************************)
(* Instances of DataboxLoader: components are model values.                *)
(***************************************************************************)
EXTENDS DataboxLoader
=============================================================================
