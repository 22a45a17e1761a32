---------------------------- MODULE MCTestSuites ----------------------------
(* A service and two paths under it; a file saved by the proxy, or one     *)
(* edited by hand in which a rule is dead.                                 *)
EXTENDS TestSuites, TLC

CONSTANTS a, b, c, s1, s2

MCPath == {<<a>>, <<a, b>>, <<a, c>>}
MCLoaded == {{<<a, b>>, <<a, c>>}, {<<a>>, <<a, b>>}, {<<a>>, <<a, c>>}}
Same == Permutations({b, c})
=============================================================================
