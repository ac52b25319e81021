------------------------- MODULE MCEnvironmentLoader -------------------------
(* Two libraries that depend on each other, one version of one not found.  *)
EXTENDS EnvironmentLoader

MCDependsOn == [n \in LibNames |-> IF n = "csv" THEN <<"stringio">> ELSE <<"csv">>]
\* add(library: "csv"), the same without dependencies, and a version locked by
\* a collection.
MCAdds ==
  {[lib |-> [name |-> "csv", version |-> None], deps |-> TRUE],
   [lib |-> [name |-> "csv", version |-> None], deps |-> FALSE],
   [lib |-> [name |-> "csv", version |-> "1"], deps |-> FALSE]}

MCKnown     == Libs \ {[name |-> "csv", version |-> "1"]}

=============================================================================
