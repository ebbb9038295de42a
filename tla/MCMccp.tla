-------------------------------- MODULE MCMccp --------------------------------
(* Mccp for TLC. *)
EXTENDS MccpInvariant
===============================================================================
