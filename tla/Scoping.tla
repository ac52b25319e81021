------------------------------- MODULE Scoping -------------------------------
(***************************************************************************)
(* What a name refers to, said without caches, visited sets or interner    *)
(* tables: the reference the resolver is checked against.                  *)
(*                                                                         *)
(* `all` is the set of declared classes, modules, interfaces and type      *)
(* aliases, `aliases` maps each class alias to what it was declared to     *)
(* stand for and the context it was declared in.                           *)
(***************************************************************************)
EXTENDS Names, FiniteSets

\* The scopes a context searches, innermost first, the root last.
ScopesOf(ctx) ==
  [i \in 1 .. Len(ctx) + 1 |-> Scope(SubSeq(ctx, 1, Len(ctx) + 1 - i))]

\* The name s as the innermost scope that has it in `known` knows it.
Innermost(s, ctx, known) ==
  LET scopes == ScopesOf(ctx)
      hits   == {i \in DOMAIN scopes : Tn(scopes[i], s) \in known}
  IN  IF hits = {} THEN None
      ELSE Tn(scopes[CHOOSE i \in hits : \A j \in hits : i <= j], s)

\* The first segment of a path is searched for, in the root if the path is
\* absolute.
FirstOf(known, tn, ctx) ==
  Innermost(Head(Segments(tn)), IF tn.ns.abs THEN <<>> ELSE ctx, known)

\* The declaration a name leads to, given what each alias stands for.
Through(all, target, n) ==
  IF n \in DOMAIN target THEN target[n] ELSE IF n \in all THEN n ELSE None

\* What the first i + 1 segments of a class path lead to.
Reached(all, target, tn, ctx) ==
  LET reached[i \in 0 .. Len(tn.ns.path)] ==
        IF i = 0 THEN Through(all, target, FirstOf(all \cup DOMAIN target, tn, ctx))
        ELSE IF reached[i - 1] = None THEN None
        ELSE Through(all, target, Tn(ToNamespace(reached[i - 1]), Segments(tn)[i + 1]))
  IN  reached

Follow(all, target, tn, ctx) == Reached(all, target, tn, ctx)[Len(tn.ns.path)]

\* What aliases stand for: the least solution of "an alias stands for what
\* its right-hand side refers to", reached after one round per alias.  An
\* alias that is defined through itself stands for nothing.
Better(all, aliases, target) ==
  [a \in DOMAIN aliases |-> Follow(all, target, aliases[a].old, aliases[a].ctx)]

Rounds(all, aliases) ==
  LET round[k \in 0 .. Cardinality(DOMAIN aliases)] ==
        IF k = 0 THEN [a \in DOMAIN aliases |-> None] ELSE Better(all, aliases, round[k - 1])
  IN  round

Targets(all, aliases) == Rounds(all, aliases)[Cardinality(DOMAIN aliases)]

\* The declaration a name refers to in a context, or None.  A declared
\* absolute name refers to itself.  An undeclared `::_Each` is searched for
\* like `_Each`, as upstream RBS does: both only ask whether the path is
\* empty.
Referent(all, aliases, tn, ctx) ==
  LET class(n) == Follow(all, Targets(all, aliases), n, ctx)
      member(outer) ==
        IF outer = None THEN None
        ELSE LET full == Tn(ToNamespace(outer), tn.name)
             IN  IF full \in all THEN full ELSE None
  IN  IF tn.ns.abs /\ tn \in all THEN tn
      ELSE IF KindOf(tn) = "Class" THEN class(tn)
      ELSE IF tn.ns.path = <<>> THEN Innermost(tn.name, ctx, all)
      ELSE member(class(ToTypeName(tn.ns)))

=============================================================================
