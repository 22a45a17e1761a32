----------------------------- MODULE MCHostView -----------------------------
(* HostView for TLC. *)
EXTENDS HostView, TLC

CONSTANTS h1, h2

Same == Permutations(Host)
=============================================================================
