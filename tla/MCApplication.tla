--------------------------- MODULE MCApplication ---------------------------
(* Instances of Application for TLC; the cfg files give the constants. *)
EXTENDS Application
=============================================================================
