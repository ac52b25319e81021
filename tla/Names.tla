-------------------------------- MODULE Names --------------------------------
(***************************************************************************)
(* Type names as values.  Interner shows that the ids the program computes *)
(* with are in bijection with names, so the modules about declarations and *)
(* resolution use the names themselves: a name is interned when it is a    *)
(* member of a set.  The kind of a name follows from its last symbol.      *)
(***************************************************************************)
EXTENDS Naturals, Sequences

CONSTANTS
  Symbols,      \* the name segments that occur
  Kind,         \* Kind[s]: TypeNameKind::detect of symbol s
  None          \* Rust's Option::None

ASSUME KindsAssumption ==
  Kind \in [Symbols -> {"Class", "Interface", "TypeAlias"}]

Namespaces == [path : Seq(Symbols), abs : BOOLEAN]
TypeNames  == [ns : Namespaces, name : Symbols]

Ns(path, abs)  == [path |-> path, abs |-> abs]
Tn(ns, name)   == [ns |-> ns, name |-> name]

EmptyRelative == Ns(<<>>, FALSE)
RootAbsolute  == Ns(<<>>, TRUE)

KindOf(tn) == Kind[tn.name]

\* namespace.append(name)
ToNamespace(tn) == Ns(Append(tn.ns.path, tn.name), tn.ns.abs)

\* An absolute right-hand side replaces the left one.
Join(l, r) == IF r.abs THEN r ELSE Ns(l.path \o r.path, l.abs)

WithPrefix(prefix, tn) == Tn(Join(prefix, tn.ns), tn.name)

\* The namespace of a nested name taken as the name of a class.
Parent(ns)      == Ns(SubSeq(ns.path, 1, Len(ns.path) - 1), ns.abs)
ToTypeName(ns)  == Tn(Parent(ns), ns.path[Len(ns.path)])

Segments(tn) == Append(tn.ns.path, tn.name)

\* A context lists the enclosing classes and modules, outermost first.
Contexts == Seq(TypeNames)

\* The namespace declarations directly inside a context are put under.
Scope(ctx) == IF ctx = <<>> THEN RootAbsolute ELSE ToNamespace(ctx[Len(ctx)])

=============================================================================
