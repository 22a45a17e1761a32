----------------------------- MODULE MCLibrary -----------------------------
(* Constants of Library for TLC. *)
EXTENDS Library, TLC
(* two names that slug alike, and one that does not *)
MCIdsOf == ("m" :> <<"x", "x-2">> @@ "n" :> <<"x", "x-2">> @@ "o" :> <<"y">>)
MCColl == <<"c", "d">>
File(n) == [name |-> n, inst |-> "a"]
Disk == ("x" :> File("m") @@ "x-2" :> File("n") @@ "y" :> File("o"))
(* as the server leaves it, and with an id twice and one without a file *)
MCLibraries ==
    {[files |-> Disk, index |-> <<[id |-> "c", requests |-> <<"x", "x-2", "y">>]>>],
     [files |-> [Disk EXCEPT !["y"] = Nothing],
      index |-> <<[id |-> "c", requests |-> <<"x", "y", "x">>],
                  [id |-> "d", requests |-> <<"x-2", "x">>]>>]}
=============================================================================
