------------------------------ MODULE Interner ------------------------------
(***************************************************************************)
(* The three hash-consing tables of crates/librbs-core/src/interner.rs.    *)
(*                                                                         *)
(* A symbol is a string, a namespace is a path of symbol ids with an       *)
(* absolute flag, a type name is a namespace id, a symbol id and a kind.   *)
(* Each table maps a value to its id (`map`) and an id back to its value   *)
(* (`rev`); an id is the position of the value in `rev`, counted from 0    *)
(* and cast to u32.  An environment owns one interner, and                 *)
(* resolve_type_names works on a clone of it, so the model has a set of    *)
(* interners of which some are clones of others.                           *)
(***************************************************************************)
EXTENDS Naturals, Sequences

CONSTANTS
  Handles,      \* the interners: one per environment
  Original,     \* the interner that exists from the start
  Strings,      \* the strings that occur in sources
  Kind,         \* Kind[s]: TypeNameKind::detect of the string s
  IdLimit,      \* number of ids that fit the id type (2^32 in the code)
  MaxSymbols, MaxNamespaces, MaxTypeNames,  \* bounds: entries per table
  MaxPath,      \* bound: segments of a namespace path
  None          \* Rust's Option::None

ASSUME HandleAssumption == Original \in Handles
ASSUME NoneAssumption   == None \notin Nat
ASSUME WidthAssumption  == /\ IdLimit \in Nat \ {0, 1}
                           /\ {MaxSymbols, MaxNamespaces, MaxTypeNames} \subseteq 0..IdLimit

TypeNameKinds == {"Class", "Interface", "TypeAlias"}

ASSUME KindAssumption == Kind \in [Strings -> TypeNameKinds]

VARIABLES
  live,         \* the interners created so far
  shared,       \* those of environments already wrapped in an Arc
  symbols,      \* SymbolInterner of each interner
  namespaces,   \* NamespaceInterner of each interner
  typeNames,    \* map and rev of TypeNameInterner of each interner
  origin        \* origin[h]: the interner h is a clone of, or None

tables == <<symbols, namespaces, typeNames>>
vars   == <<live, shared, tables, origin>>

-----------------------------------------------------------------------------
(* One table.                                                              *)

IsTable(t, Values) ==
  /\ t = [rev |-> t.rev, map |-> t.map]
  /\ t.rev \in Seq(Values)
  /\ t.map \in [DOMAIN t.map -> Nat]

Empty == [rev |-> <<>>, map |-> [v \in {} |-> 0]]

\* rev[id as usize]; ids count from 0.
Lookup(t, id) == t.rev[id + 1]

\* The ids a table has handed out.
Ids(t) == 0 .. Len(t.rev) - 1

\* map.get(v).copied()
Find(t, v) == IF v \in DOMAIN t.map THEN t.map[v] ELSE None

NextId(t) == Len(t.rev) % IdLimit

\* Mutant of Add: the miss path without its hit check.
AddAgain(t, v) ==
  [rev |-> Append(t.rev, v),
   map |-> [x \in DOMAIN t.map \cup {v} |->
              IF x = v THEN NextId(t) ELSE t.map[x]]]

\* Mutant of Add: the fresh entry goes to the front of rev.
AddFront(t, v) ==
  IF v \in DOMAIN t.map
  THEN t
  ELSE [rev |-> <<v>> \o t.rev,
        map |-> [x \in DOMAIN t.map \cup {v} |->
                   IF x = v THEN NextId(t) ELSE t.map[x]]]

\* A hit leaves the table alone, a miss appends the value under a fresh id.
Add(t, v) ==
  IF v \in DOMAIN t.map
  THEN t
  ELSE [rev |-> Append(t.rev, v),
        map |-> [x \in DOMAIN t.map \cup {v} |->
                   IF x = v THEN NextId(t) ELSE t.map[x]]]

\* Bounds, below the width of an id.
SymbolRoom(h)    == Len(symbols[h].rev) < MaxSymbols
NamespaceRoom(h) == Len(namespaces[h].rev) < MaxNamespaces
TypeNameRoom(h)  == Len(typeNames[h].rev) < MaxTypeNames

-----------------------------------------------------------------------------
(* Namespaces: values are [path, abs].                                     *)

Namespace(path, abs) == [path |-> path, abs |-> abs]

\* NamespaceInterner::new interns the empty relative namespace as 0 and the
\* absolute root as 1.
NewNamespaces == Add(Add(Empty, Namespace(<<>>, FALSE)), Namespace(<<>>, TRUE))

EmptyRelative == 0
RootAbsolute  == 1

AppendValue(n, seg) == Namespace(Append(n.path, seg), n.abs)

JoinValue(l, r) == IF r.abs THEN r ELSE Namespace(l.path \o r.path, l.abs)

\* Mutant of ParentValue: the wrong end of the path is cut off.
WithoutFirst(n) == Namespace(Tail(n.path), n.abs)

ParentValue(n) == Namespace(SubSeq(n.path, 1, Len(n.path) - 1), n.abs)

\* The read-only views answer with an id only when nothing has to be added.
FrozenAppend(h, ns, seg) ==
  Find(namespaces[h], AppendValue(Lookup(namespaces[h], ns), seg))

FrozenJoin(h, l, r) ==
  Find(namespaces[h],
       JoinValue(Lookup(namespaces[h], l), Lookup(namespaces[h], r)))

FrozenParent(h, ns) ==
  LET n == Lookup(namespaces[h], ns)
  IN  IF n.path = <<>> THEN None ELSE Find(namespaces[h], ParentValue(n))

-----------------------------------------------------------------------------
Init ==
  /\ live       = {Original}
  /\ symbols    = [h \in Handles |-> Empty]
  /\ namespaces = [h \in Handles |-> NewNamespaces]
  /\ typeNames  = [h \in Handles |-> Empty]
  /\ shared     = {}
  /\ origin     = [h \in Handles |-> None]

AddSymbol(h, s)    == symbols'    = [symbols EXCEPT ![h] = Add(@, s)]
AddNamespace(h, n) == namespaces' = [namespaces EXCEPT ![h] = Add(@, n)]
AddTypeName(h, t)  == typeNames'  = [typeNames EXCEPT ![h] = Add(@, t)]

SymbolIntern(h, s) ==
  /\ SymbolRoom(h)
  /\ AddSymbol(h, s)
  /\ UNCHANGED <<live, shared, namespaces, typeNames, origin>>

NamespaceIntern(h, path, abs) ==
  /\ NamespaceRoom(h)
  /\ AddNamespace(h, Namespace(path, abs))
  /\ UNCHANGED <<live, shared, symbols, typeNames, origin>>

NamespaceAppend(h, ns, seg) ==
  /\ NamespaceRoom(h)
  /\ Len(Lookup(namespaces[h], ns).path) < MaxPath
  /\ AddNamespace(h, AppendValue(Lookup(namespaces[h], ns), seg))
  /\ UNCHANGED <<live, shared, symbols, typeNames, origin>>

NamespaceJoin(h, l, r) ==
  LET v == JoinValue(Lookup(namespaces[h], l), Lookup(namespaces[h], r))
  IN  /\ NamespaceRoom(h)
      /\ Len(v.path) <= MaxPath
      /\ AddNamespace(h, v)
      /\ UNCHANGED <<live, shared, symbols, typeNames, origin>>

\* parent and to_type_name both intern the parent; neither does anything on
\* an empty path.
NamespaceParent(h, ns) ==
  /\ NamespaceRoom(h)
  /\ Lookup(namespaces[h], ns).path # <<>>
  /\ AddNamespace(h, ParentValue(Lookup(namespaces[h], ns)))
  /\ UNCHANGED <<live, shared, symbols, typeNames, origin>>

TypeName(ns, name, kind) == [ns |-> ns, name |-> name, kind |-> kind]

TypeNameIntern(h, ns, name) ==
  /\ TypeNameRoom(h)
  /\ AddTypeName(h, TypeName(ns, name, Kind[Lookup(symbols[h], name)]))
  /\ UNCHANGED <<live, shared, symbols, namespaces, origin>>

\* Mutant of TypeNameWithPrefix: the joined namespace is looked up only.
PrefixByLookup(h, prefix, inner) ==
  LET t == Lookup(typeNames[h], inner)
      v == JoinValue(Lookup(namespaces[h], prefix), Lookup(namespaces[h], t.ns))
  IN  /\ TypeNameRoom(h)
      /\ Len(v.path) <= MaxPath
      /\ AddTypeName(h, TypeName(Find(namespaces[h], v), t.name, t.kind))
      /\ UNCHANGED <<live, shared, symbols, namespaces, origin>>

\* with_prefix joins the namespaces, then interns the name under the result.
TypeNameWithPrefix(h, prefix, inner) ==
  LET t == Lookup(typeNames[h], inner)
      v == JoinValue(Lookup(namespaces[h], prefix), Lookup(namespaces[h], t.ns))
      joined == Add(namespaces[h], v)
  IN  /\ NamespaceRoom(h)
      /\ TypeNameRoom(h)
      /\ Len(v.path) <= MaxPath
      /\ namespaces' = [namespaces EXCEPT ![h] = joined]
      /\ AddTypeName(h, TypeName(Find(joined, v), t.name, t.kind))
      /\ UNCHANGED <<live, shared, symbols, origin>>

TypeNameToNamespace(h, tn) ==
  LET t == Lookup(typeNames[h], tn) IN NamespaceAppend(h, t.ns, t.name)

\* WrappedEnvironment(Arc::new(env)): from here on only reads.
Share(h) ==
  /\ shared' = shared \cup {h}
  /\ UNCHANGED <<live, tables, origin>>

\* Mutant of Clone: the namespaces start anew.
CloneWithoutNamespaces(h, g) ==
  /\ g \notin live
  /\ live'       = live \cup {g}
  /\ symbols'    = [symbols EXCEPT ![g] = symbols[h]]
  /\ typeNames'  = [typeNames EXCEPT ![g] = typeNames[h]]
  /\ origin'     = [origin EXCEPT ![g] = h]
  /\ UNCHANGED <<shared, namespaces>>

\* Environment::clone copies the interner with the rest of the environment.
Clone(h, g) ==
  /\ g \notin live
  /\ live'       = live \cup {g}
  /\ symbols'    = [symbols EXCEPT ![g] = symbols[h]]
  /\ namespaces' = [namespaces EXCEPT ![g] = namespaces[h]]
  /\ typeNames'  = [typeNames EXCEPT ![g] = typeNames[h]]
  /\ origin'     = [origin EXCEPT ![g] = h]
  /\ UNCHANGED shared

Paths(h) == UNION {[1..n -> Ids(symbols[h])] : n \in 0..MaxPath}

Mutate(h) ==
  \/ \E s \in Strings : SymbolIntern(h, s)
  \/ \E path \in Paths(h), abs \in BOOLEAN : NamespaceIntern(h, path, abs)
  \/ \E ns \in Ids(namespaces[h]), seg \in Ids(symbols[h]) :
       \/ NamespaceAppend(h, ns, seg)
       \/ TypeNameIntern(h, ns, seg)
  \/ \E l, r \in Ids(namespaces[h]) : NamespaceJoin(h, l, r)
  \/ \E ns \in Ids(namespaces[h]) : NamespaceParent(h, ns)
  \/ \E ns \in Ids(namespaces[h]), tn \in Ids(typeNames[h]) :
       TypeNameWithPrefix(h, ns, tn)
  \/ \E tn \in Ids(typeNames[h]) : TypeNameToNamespace(h, tn)

Next ==
  \/ \E h \in live \ shared : Mutate(h) \/ Share(h)
  \/ \E h \in shared, g \in Handles : Clone(h, g)

Spec == Init /\ [][Next]_vars

-----------------------------------------------------------------------------
(* Properties.                                                             *)

TypeOK ==
  /\ live \subseteq Handles
  /\ shared \subseteq live
  /\ {DOMAIN symbols, DOMAIN namespaces, DOMAIN typeNames} = {Handles}
  /\ \A h \in Handles :
       /\ IsTable(symbols[h], Strings)
       /\ IsTable(namespaces[h], [path : Seq(Nat), abs : BOOLEAN])
       /\ IsTable(typeNames[h], [ns : Nat, name : Nat, kind : TypeNameKinds])
  /\ origin \in [Handles -> Handles \cup {None}]

\* map and rev are inverse to each other: an id names one value, a value has
\* one id.
Bijective(t) ==
  /\ DOMAIN t.map = {t.rev[i] : i \in 1..Len(t.rev)}
  /\ \A i \in 1..Len(t.rev) : t.map[t.rev[i]] = i - 1

\* Every table of every interner is a bijection (interner.rs: intern and
\* intern_owned push to rev and insert into map together), so comparing ids
\* is comparing values, on which env, resolver and driver rely throughout.
HashConsed ==
  \A h \in Handles :
    Bijective(symbols[h]) /\ Bijective(namespaces[h]) /\ Bijective(typeNames[h])

\* Ids stored inside entries were handed out by the same interner, so
\* `&self.rev[id as usize]` never indexes out of bounds, also after a clone
\* (lookup, to_string).
NoDanglingId ==
  \A h \in Handles :
    /\ \A i \in 1..Len(namespaces[h].rev) :
         LET p == namespaces[h].rev[i].path
         IN  \A k \in 1..Len(p) : p[k] \in Ids(symbols[h])
    /\ \A i \in 1..Len(typeNames[h].rev) :
         /\ typeNames[h].rev[i].ns \in Ids(namespaces[h])
         /\ typeNames[h].rev[i].name \in Ids(symbols[h])

Text(h, tn) ==
  LET t == Lookup(typeNames[h], tn)
      n == Lookup(namespaces[h], t.ns)
  IN  <<n.abs, [k \in 1..Len(n.path) |-> Lookup(symbols[h], n.path[k])],
        Lookup(symbols[h], t.name)>>

\* Two type names that print alike are the same id, across all three tables:
\* TypeNameInterner::to_string is injective because kind follows from name.
OneIdPerText ==
  \A h \in live : \A a, b \in Ids(typeNames[h]) :
    Text(h, a) = Text(h, b) => a = b

\* Splitting a namespace and appending the segment again gives the namespace
\* back, and prefixing it with the empty namespace changes nothing; the
\* resolver re-attaches names this way (FrozenNamespaces::to_type_name,
\* append and join).
SplitRejoins ==
  \A h \in live : \A ns \in Ids(namespaces[h]) :
    LET path   == Lookup(namespaces[h], ns).path
        parent == FrozenParent(h, ns)
    IN  /\ FrozenJoin(h, EmptyRelative, ns) = ns
        /\ parent # None => FrozenAppend(h, parent, path[Len(path)]) = ns

\* A clone agrees with the interner it was cloned from on every id the
\* latter ever issued: env.decls of the clone holds such ids, and the driver
\* looks them up in the clone (ext/librbs/src/lib.rs resolve_type_names).
Extends(t, u) ==
  /\ Len(t.rev) <= Len(u.rev)
  /\ \A i \in 1..Len(t.rev) : u.rev[i] = t.rev[i]

CloneAgrees ==
  \A g \in Handles : origin[g] # None =>
    /\ Extends(symbols[origin[g]], symbols[g])
    /\ Extends(namespaces[origin[g]], namespaces[g])
    /\ Extends(typeNames[origin[g]], typeNames[g])

\* No step changes the meaning of an id of a live interner, and none touches
\* a shared one ("the source env's Arc<Environment> is never mutated").
IdsStable ==
  [][\A h \in live :
       /\ Extends(symbols[h], symbols'[h])
       /\ Extends(namespaces[h], namespaces'[h])
       /\ Extends(typeNames[h], typeNames'[h])
       /\ h \in shared => UNCHANGED <<symbols[h], namespaces[h], typeNames[h]>>]_vars

=============================================================================
