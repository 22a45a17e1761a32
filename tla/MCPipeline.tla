----------------------------- MODULE MCPipeline -----------------------------
(* Constants of Pipeline for TLC: one mock, scoped to one of the ids.      *)
EXTENDS Pipeline, TLC
MCRegistry == <<"answer">>
MCMatches == ("answer" :> {"p"})
MCScope == ("answer" :> {"a"})
=============================================================================
