------------------------------- MODULE MCHostTools -----------------------------
(* A small instance of HostTools for TLC. *)
EXTENDS HostTools

(* /data is writable, /data/ro inside it is another directory, read-only,  *)
(* under which the host has a directory of the same name; and the root, a  *)
(* directory that is not there, and a file.                                *)
Nested ==
    <<Mount(<<"", "data", "">>, <<"h">>, TRUE), Mount(<<"data", "ro">>, <<"k">>, FALSE)>>
Root == <<Mount(<<"">>, <<"h">>, TRUE), Mount(<<"", "gone">>, <<"gone">>, TRUE),
          Mount(<<"", "one">>, <<"h", "f">>, TRUE)>>
Tables == {Nested, Root}

Data == {<<"", "data", "f">>, <<"", "data", "ro", "f">>, <<"", "data", "ro">>}
Odd == {<<"", "data", "..", "k", "f">>, <<"", "data", "new", "f">>, <<"", "data", ".", "f">>,
        <<"", "data", "f", "">>, <<"", "f">>, <<"", "", "f">>, <<"", "">>,
        <<"", "one">>, <<"", "one", "f">>}
AllPaths == Data \cup Odd

Dirs == {<<"h">>, <<"h", "ro">>, <<"k">>}
Files == [file \in {<<"h", "f">>, <<"h", "ro", "g">>, <<"k", "f">>} |-> <<"old">>]
Long == {<<"x">>, <<"y", "y">>}
Names3 == {"own", "fetch_json", "describe_tool", "no-name"}
Bad == {"no-name"}

Symmetry == Permutations(Callers) \cup Permutations(HttpHosts)

================================================================================
