-------------------------- MODULE MCLazyEnvironment --------------------------
(* Three environments, one of them loaded from two sources, and two        *)
(* threads; the second one has only the loaded environment to work with.    *)
EXTENDS LazyEnvironment

MCUses == [t \in Threads |-> IF t = "main" THEN Envs ELSE {Loaded}]

=============================================================================
