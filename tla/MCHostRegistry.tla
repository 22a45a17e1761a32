--------------------------- MODULE MCHostRegistry ---------------------------
(* HostRegistry for TLC. *)
EXTENDS HostRegistry, TLC

CONSTANTS h1, h2, h3

Same == Permutations(Host)
=============================================================================
