------------------------------- MODULE Pipeline -------------------------------
(***************************************************************************)
(* Load, resolve, materialize: the three walks over the same sources.      *)
(* Each is sequential; what they must agree on is the point.               *)
(***************************************************************************)
EXTENDS Materializer

Init == InsertInit /\ DriverInit /\ MaterializerInit

Next ==
  \/ InsertNext /\ UNCHANGED <<driverVars, materializerVars>>
  \/ DriverNext /\ UNCHANGED materializerVars
  \/ MaterializerNext /\ UNCHANGED driverVars

Spec == Init /\ [][Next]_vars

-----------------------------------------------------------------------------
(* What the walks must agree on.                                           *)

Phases == {"insert", "failed", "loaded", "resolve", "resolved", "materialize",
           "done", "panicked"}

\* The declaration index an item at the front of a walk has reached is at
\* most the number of nodes; cursor and counters never leave their slices.
TypeOK ==
  /\ phase \in Phases
  /\ source \in 0 .. Len(program)
  /\ nss \subseteq Namespaces /\ tns \subseteq TypeNames
  /\ DOMAIN decls \subseteq tns
  /\ \A n \in DOMAIN decls : n.ns.abs
  /\ slice # None => slice \in DOMAIN table /\ cursor \in 0 .. Len(table[slice])
  /\ current # None => current \in (1 .. Len(program)) \X (0 .. counter)

\* Whenever the materializer takes an entry, the driver recorded it for that
\* very occurrence of a name: same source, same node.  The walks agree on
\* the numbering of declarations (nested ones, skipped ones and disabled
\* sources included), on the save and restore around nested declarations and
\* on the order within a declaration.
Lockstep ==
  made # None => (made.entry # NoEntry => made.entry.at = made.at)

\* A declaration that was walked by the driver is left with every entry of
\* its slice taken; one entry too few would shift nothing and show nowhere.
SlicesUsedUp ==
  Building /\ IsLeave(Head(work)) /\ slice # None => cursor = Len(table[slice])

\* No lookup of the later walks fails: the `expect`s of the driver and of
\* the materializer hold ("After insert_rbs_source has run on a signature,
\* every TypeNameNode reachable from one of its declarations is guaranteed
\* to be findable via this function", insert.rs).
EverythingInterned == phase # "panicked"

\* The top-level declaration a position is in.
TopDecl(at) == program[at[1]].decls[at[2]]

\* The directives of the source being materialized turn resolution off.
TurnedOff ==
  [k |-> "resolve_type_names", value |-> FALSE] \in Range(directives)

Skipped(at) ==
  \/ TurnedOff
  \/ only # None /\ LET d == TopDecl(at)
                    IN  d.k = "global" \/ WithPrefix(RootAbsolute, d.name) \notin only

\* A name is left as written exactly where the user of the objects can see
\* why: the source's directives say so (they are matched from the text a
\* second time, after the driver did), or the filter leaves its top-level
\* declaration out.  Elsewhere no entry is missing.
RawOnlyWhereSkipped ==
  made # None =>
    (~made.own /\ attached => (made.entry = NoEntry <=> Skipped(made.at)))

\* The items of the tree under x, x itself included: level k + 1 holds the
\* children of level k.
InTree(x) ==
  LET level[k \in 0 .. Depth[x.node]] ==
        IF k = 0 THEN {x} ELSE UNION {Range(Children(y, InsertOrder)) : y \in level[k - 1]}
  IN  UNION {level[k] : k \in DOMAIN level}

Tops == UNION {Range(TopItems(i, program[i].decls)) : i \in DOMAIN program}

\* All items of the program and its declarations, with their contexts.
Occurrences  == UNION {InTree(x) : x \in Tops}
Declarations == {x \in Occurrences : IsDecl(x.node)}

\* Two declarations that cannot stand together, in whatever order.
Clash ==
  LET named == {d \in Declarations : d.node.k # "global"}
  IN  \/ \E d, e \in named :
           /\ d.at # e.at /\ FullName(d) = FullName(e)
           /\ d.node.k # e.node.k \/ d.node.k \notin Scopes
      \/ \E d, e \in Declarations \ named : d.at # e.at /\ d.node.var = e.node.var

\* Loading fails exactly when two declarations of one name cannot stand
\* together, whatever the order they come in, and a name cannot become an
\* entry of another kind later.
DuplicatesAreErrors == (phase = "failed" => Clash) /\ (phase = "loaded" => ~Clash)

\* Only a qualified interface or alias name may be given up while it has a
\* referent: its namespace need not be interned as a class name.
Qualified(tn) == KindOf(tn) # "Class" /\ tn.ns.path # <<>>

\* The names that a use clause brings into its source.  What they stand for is
\* absolute, however the clause writes it ("`type_name` should already be
\* resolved to an absolute name", use_map.rs; `use Object as OB` means
\* ::Object, environment_test.rb).
Brought(all, clause) ==
  IF clause.k = "single"
  THEN [s \in {IF clause.as = None THEN clause.name.name ELSE clause.as} |->
          WithPrefix(RootAbsolute, clause.name)]
  ELSE LET ns == Join(RootAbsolute, clause.ns)
       IN  [s \in {r \in Symbols : ns.path # <<>> /\ Tn(ns, r) \in all} |-> Tn(ns, s)]

\* A name as it is meant under these clauses: the last one that brings in its
\* first segment decides, and the other segments follow.
Meant(all, clauses, tn) ==
  LET first    == Head(Segments(tn))
      bringing == {i \in DOMAIN clauses : first \in DOMAIN Brought(all, clauses[i])}
      used     == Brought(all, clauses[Max(bringing)])[first]
  IN  IF tn.ns.abs \/ bringing = {} THEN tn
      ELSE IF tn.ns.path = <<>> THEN used
      ELSE WithPrefix(ToNamespace(used), Tn(Ns(Tail(tn.ns.path), FALSE), tn.name))

\* The name at an occurrence means what scoping says it means: the use
\* clauses of the very source it is in and the declarations it is nested in
\* decide, and not what was bound, asked, cached or walked before.
Means(x, resolved, name) ==
  LET tn  == Meant(AllNames, program[x.at[1]].uses, x.node.name)
      ref == Scoped!Referent(AllNames, Aliases, tn, x.ctx)
  IN  IF resolved THEN ref # None /\ name = ref
      ELSE name = tn /\ (ref = None \/ Qualified(tn))

NamesMeanReferents ==
  made # None =>
    (made.entry # NoEntry =>
       \E x \in Occurrences : x.at = made.at /\ Means(x, made.entry.resolved, made.name))

\* What driver.rs says of only: ("downstream materialization falls back to
\* the AST's original names (matching upstream's decl is returned as-is
\* semantics)"): the own name of a declaration that was skipped is as
\* written, too.
SkippedDeclsKeepTheirNames ==
  made # None =>
    (made.own /\ attached /\ made.name # None /\ Len(made.at) = 2 /\ Skipped(made.at)
       => made.name = TopDecl(made.at).name)

=============================================================================
