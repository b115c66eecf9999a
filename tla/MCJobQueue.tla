----------------------------- MODULE MCJobQueue -----------------------------
(***************************************************************************)
(* A small instance of JobQueue: two servers, the address of one beginning *)
(* with that of the other; a url under the server, one that holds the      *)
(* address twice, and the address itself; a name that reads back as a      *)
(* number and one that breaks the YAML; jobs that lack a field.            *)
(***************************************************************************)
EXTENDS JobQueue

Ci == <<"ci">>
CiPort == <<"ci", "8080">>
Compile == <<"build">>
Number == <<"12">>

Open == <<"{x">>
Missing == <<"undefined">>

TheNames == {Compile, Number, Open}
TheUrls == {<<"ci", "8080", "job">>, <<"ci", "8080", "ci", "8080">>, CiPort}
TheForeign == {[host |-> Ci, name |-> Compile, url |-> <<"ci", "8080", "job">>],
               [host |-> Ci, name |-> Number, url |-> None],
               [host |-> None, name |-> None, url |-> CiPort]}
TheNumbered == [seven |-> 7, lastBuild |-> None]
TheAltered == {<<>>, Number}
TheBreaking == {Open}

=============================================================================
