--------------------------- MODULE MCEnvironment ---------------------------
(* Instances of Environment for TLC; the cfg files give the constants. *)
EXTENDS Environment
=============================================================================
