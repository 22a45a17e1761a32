----------------------------- MODULE MCStartup -----------------------------
(* Startup for TLC: the constants are all in the configurations. *)
EXTENDS Startup, TLC
=============================================================================
