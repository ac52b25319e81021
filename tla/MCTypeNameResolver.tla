------------------------- MODULE MCTypeNameResolver -------------------------
(***************************************************************************)
(* Small environments for the resolver, as the insert phase builds them    *)
(* from declarations placed in a context: the names it interns are the     *)
(* names as written, the full names, the namespaces of both and the        *)
(* namespace inside each class.                                            *)
(***************************************************************************)
EXTENDS TypeNameResolver, FiniteSets

MCKind == [s \in Symbols |-> IF s = "_E" THEN "Interface" ELSE "Class"]

Rel(path, name) == Tn(Ns(path, FALSE), name)
Abs(path, name) == Tn(Ns(path, TRUE), name)

Decl(ctx, tn) == [ctx |-> ctx, tn |-> tn]
FullName(d)   == WithPrefix(Scope(d.ctx), d.tn)

InA  == <<Abs(<<>>, "A")>>
InAB == <<Abs(<<>>, "A"), Abs(<<"A">>, "B")>>

\* olds: partial function from alias declarations to right-hand sides; refs:
\* names referred to; used: names in use directives.
EnvOf(decls, olds, refs, used) ==
  LET places == decls \cup DOMAIN olds
      names  == {FullName(d) : d \in places} \cup {d.tn : d \in places}
                \cup {olds[d] : d \in DOMAIN olds} \cup refs
      inside == {ToNamespace(FullName(d)) : d \in {x \in decls : KindOf(x.tn) = "Class"}}
  IN  [all     |-> {FullName(d) : d \in decls},
       aliases |-> [n \in {FullName(d) : d \in DOMAIN olds} |->
                      LET d == CHOOSE d \in DOMAIN olds : FullName(d) = n
                      IN  [old |-> olds[d], ctx |-> d.ctx]],
       nss     |-> {EmptyRelative, RootAbsolute} \cup inside \cup {n.ns : n \in names},
       tns     |-> names,
       uses    |-> used \ names]

-----------------------------------------------------------------------------
(* Aliases: three places for an alias, each absent or one of six           *)
(* right-hand sides, so that chains, cycles and detours all occur.         *)

AliasPlaces == {Decl(<<>>, Rel(<<>>, "C")), Decl(<<>>, Rel(<<>>, "D")),
                Decl(InA, Rel(<<>>, "C"))}

RightHandSides == {Rel(<<>>, "A"), Rel(<<>>, "C"), Rel(<<>>, "D"),
                   Rel(<<"A">>, "C"), Rel(<<"D">>, "C"), Abs(<<"D">>, "B")}

AliasQueries == {Query(Rel(<<>>, "C"), InA), Query(Rel(<<"D", "C">>, "B"), <<>>),
                 Query(Abs(<<"A">>, "C"), InAB)}

ClassDecls == {Decl(<<>>, Rel(<<>>, "A")), Decl(InA, Rel(<<>>, "B"))}

AliasEnvironments ==
  {EnvOf(ClassDecls, olds, {q.tn : q \in AliasQueries}, {}) :
     olds \in UNION {[P -> RightHandSides] : P \in SUBSET AliasPlaces}}

-----------------------------------------------------------------------------
(* Qualified names: classes and interfaces declared nested or with a       *)
(* qualified name, and one or two references.                              *)

QualifiedQueries ==
  {Query(Rel(<<"A", "B">>, "_E"), <<>>), Query(Rel(<<"B">>, "_E"), InA),
   Query(Rel(<<>>, "_E"), InAB), Query(Abs(<<"A", "B">>, "_E"), InA),
   Query(Rel(<<"A">>, "B"), InAB)}

NestedDecls ==
  {Decl(<<>>, Rel(<<>>, "A")), Decl(InA, Rel(<<>>, "B")), Decl(<<>>, Rel(<<"A">>, "B")),
   Decl(InAB, Rel(<<>>, "_E")), Decl(InA, Rel(<<>>, "_E")), Decl(<<>>, Rel(<<>>, "_E")),
   Decl(<<>>, Rel(<<"A", "B">>, "_E"))}

\* A context exists only where its classes are declared.
WellPlaced(decls) ==
  \A d \in decls : \A i \in DOMAIN d.ctx : d.ctx[i] \in {FullName(x) : x \in decls}

NoAliases == [d \in {} |-> None]

UsedNames == {Rel(<<"A">>, "B"), Rel(<<"B">>, "_E")}

QualifiedEnvironments ==
  {EnvOf(decls, NoAliases, refs, UsedNames) :
     decls \in {D \in SUBSET NestedDecls : WellPlaced(D)},
     refs \in {R \in SUBSET {q.tn : q \in QualifiedQueries} : Cardinality(R) \in {1, 2}}}

-----------------------------------------------------------------------------
MCEnvironments == AliasEnvironments \cup QualifiedEnvironments

\* Of these an environment is asked those whose names it has interned.
MCQueries == AliasQueries \cup QualifiedQueries

=============================================================================
