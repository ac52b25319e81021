----------------------------- MODULE MCInterner -----------------------------
(* Interner over two strings, paths of up to two segments and one clone.   *)
EXTENDS Interner

MCKind == [s \in Strings |-> IF s = "A" THEN "Class" ELSE "TypeAlias"]
=============================================================================
