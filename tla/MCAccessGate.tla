--------------------------- MODULE MCAccessGate ---------------------------
(* TLC instance of AccessGate: three machines, one of which sends two      *)
(* requests, so that joining, both caps and cross-machine mix-ups happen.  *)
EXTENDS AccessGate, TLC

CONSTANTS a, b, c, r1, r2, r3, r4, r5

MCOwner == r1 :> a @@ r2 :> a @@ r3 :> a @@ r4 :> b @@ r5 :> c
===========================================================================
