----------------------------- MODULE MCComposer -----------------------------
(* Composer for TLC. *)
EXTENDS Composer
=============================================================================
