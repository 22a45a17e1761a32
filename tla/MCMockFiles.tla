---------------------------- MODULE MCMockFiles ----------------------------
(* Constants of MockFiles for TLC. *)
EXTENDS MockFiles, TLC
MCFileOrder == <<"x", "y">>
MCCopyOf == ("x" :> <<"y">> @@ "y" :> <<>>)
M(n, s, w) == [name |-> n, scope |-> s, multi |-> w]
(* two mocks of one instance in a file, or one scoped over several lines *)
MCContents == {<<M("m", {"a"}, FALSE), M("n", {"a"}, FALSE)>>, <<M("n", {"b"}, TRUE)>>}
=============================================================================
