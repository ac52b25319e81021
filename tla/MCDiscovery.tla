----------------------------- MODULE MCDiscovery -----------------------------
(* A directory of signatures with a hidden part, a dotted part and a file   *)
(* that is no signature; lists of specs that overlap.                       *)
EXTENDS Discovery

F1 == <<"sig", "_p-q.rbs">>
F2 == <<"sig", "_p", "a.rbs">>
F3 == <<"sig", "b.rbs">>
F4 == <<"sig", ".git", "c.rbs">>
F5 == <<"sig", "b.txt">>

MCFiles == {F1, F2, F3, F4, F5}

\* "sig/_p-q.rbs" comes before "sig/_p/a.rbs": "-" is less than "/".
MCRank == [f \in MCFiles |-> CASE f = F4 -> 1 [] f = F1 -> 2 [] f = F2 -> 3
                              [] f = F3 -> 4 [] f = F5 -> 5]

Dir(path, skip) == [path |-> path, skip_hidden |-> skip]

MCSpecLists ==
  {<<Dir(<<"sig">>, TRUE), Dir(<<"sig">>, FALSE)>>,
   <<Dir(<<"sig", "_p">>, TRUE), Dir(<<"sig">>, FALSE)>>,
   <<Dir(F3, FALSE), Dir(<<"lib">>, TRUE), Dir(<<"sig">>, TRUE)>>}

MCDisks == {{F1, F2, F3}, {F2, F4, F5}, {}}

MCMayBeBad    == {F2, F3}
MCMayBeDenied == {<<"sig", "_p">>}

=============================================================================
