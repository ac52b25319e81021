------------------------------ MODULE NameLookup ------------------------------
(***************************************************************************)
(* What the rest of librbs relies on when it calls resolve: one query at a *)
(* time, each answered from the declarations alone.  TypeNameResolver      *)
(* implements it.                                                          *)
(***************************************************************************)
EXTENDS Scoping

CONSTANT Queries    \* the (name, context) pairs asked for

VARIABLES
  all, aliases,     \* the declarations, as in Scoping
  asked,            \* the query being answered, or None
  question, result  \* the last query answered and its answer, None before

vars == <<all, aliases, asked, question, result>>

\* A qualified interface or alias name may be given up.
Answers(q) ==
  {Referent(all, aliases, q.tn, q.ctx)}
    \cup {n \in {None} : KindOf(q.tn) # "Class" /\ q.tn.ns.path # <<>>}

Reply(q) ==
  /\ asked' = None
  /\ question' = q
  /\ result' \in Answers(q)
  /\ UNCHANGED <<all, aliases>>

Ask(q) ==
  /\ asked = None
  /\ asked' = q
  /\ UNCHANGED <<all, aliases, question, result>>

Init == asked = None /\ question = None /\ result = None

Next ==
  \/ asked # None /\ Reply(asked)
  \/ \E q \in Queries : asked = None /\ (Ask(q) \/ Reply(q))

Answered == (asked # None) ~> (asked = None)

SafeSpec == Init /\ [][Next]_vars

Spec == SafeSpec /\ Answered

=============================================================================
