-------------------------------- MODULE Driver --------------------------------
(***************************************************************************)
(* crates/librbs-core/src/resolver/driver.rs with env/use_map.rs and       *)
(* env/resolution.rs: resolve_type_names walks every source again and      *)
(* records, per declaration, what each name in it refers to.  The walk     *)
(* runs on a clone of the environment (see Interner), the state here is    *)
(* the clone's.  What a name refers to is taken from Scoping;              *)
(* TypeNameResolver shows where the resolver gives that answer.            *)
(***************************************************************************)
EXTENDS Insert, MagicComment

CONSTANT Filters    \* values of `only:`, None or sets of names

ASSUME FiltersAssumption == Filters \subseteq {None} \cup SUBSET TypeNames

\* None is no DeclRef.
ASSUME NoneAssumption == None \notin Nat \X Nat

VARIABLES
  only,         \* the filter of this resolution
  useMap,       \* the source's use map: symbol to type name
  cache,        \* the resolver's cache
  counter,      \* the source's declaration counter
  current,      \* the declaration being walked, None outside
  table         \* Resolution: DeclRef to the recorded entries

driverVars == <<only, useMap, cache, counter, current, table>>

Scoped == INSTANCE Scoping

DeclRef(i) == <<source, i>>

\* The order in which the driver visits the fields of a node.
WalkDeclOrder ==
  [class      |-> <<"params", "super", "members">>,
   module     |-> <<"params", "selfs", "members">>,
   interface  |-> <<"params", "members">>,
   typealias  |-> <<"params", "type">>,
   constant   |-> <<"type">>,
   global     |-> <<"type">>,
   classalias |-> <<"old">>]

WalkMemberOrder ==
  [method    |-> <<"overloads">>,
   attribute |-> <<"type">>,
   plain     |-> <<>>]

WalkMethodTypeOrder ==
  [overload |-> <<"params", "type", "block">>,
   block    |-> <<"type", "self">>,
   param    |-> <<"upper", "lower", "default">>]

WalkTypeOrder ==
  [ref       |-> <<"args">>,
   singleton |-> <<>>,
   group     |-> <<"types">>,
   proc      |-> <<"type", "block", "self">>,
   function  |-> <<"required", "optional", "rest", "trailing", "keywords",
                   "optkeywords", "restkeywords", "returns">>,
   leaf      |-> <<>>]

DriverOrder ==
  OrElse(OrElse(WalkDeclOrder, WalkMemberOrder), OrElse(WalkMethodTypeOrder, WalkTypeOrder))

Resolvable  == {"class", "module", "interface", "typealias"}
AllNames    == {n \in DOMAIN decls : decls[n].kind \in Resolvable}
Aliases     == [n \in {a \in DOMAIN decls : decls[a].kind = "classalias"} |->
                  [old |-> decls[n].old, ctx |-> decls[n].ctx]]

-----------------------------------------------------------------------------
(* The use map of a source, where the names in `all` are declared.         *)

ChildrenOf(all, ns) == {n \in all : n.ns = ns /\ n.ns.path # <<>>}

AddSingle(map, clause) ==
  LET key == IF clause.as = None THEN clause.name.name ELSE clause.as
  IN  Put(map, key, clause.name)

AddWildcard(all, map, clause) ==
  LET bound == ChildrenOf(all, clause.ns)
  IN  OrElse([s \in {n.name : n \in bound} |-> CHOOSE n \in bound : n.name = s], map)

AddClause(all, map, clause) ==
  IF clause.k = "single" THEN AddSingle(map, clause) ELSE AddWildcard(all, map, clause)

NoUses == [s \in {} |-> None]

UseMapOf(all, clauses) ==
  LET Add(map, clause) == AddClause(all, map, clause)
  IN  FoldLeft(Add, NoUses, clauses)

\* The head of a relative name is rewritten; a rewritten path is absolute.
Mapped(map, tn) ==
  LET head == Head(Segments(tn))
  IN  IF tn.ns.abs \/ head \notin DOMAIN map THEN tn
      ELSE IF tn.ns.path = <<>> THEN map[head]
      ELSE Tn(Ns(Segments(map[head]) \o Tail(tn.ns.path), TRUE), tn.name)

-----------------------------------------------------------------------------
(* One name.                                                               *)

\* The resolver answers None when the namespace of a qualified interface or
\* alias name is not interned as a class name.
ScopeInterned(tn) ==
  KindOf(tn) = "Class" \/ tn.ns.path = <<>>
    \/ (Parent(tn.ns) \in nss /\ ToTypeName(tn.ns) \in tns)

AskedByName(tn, ctx) == \* mutant: the cache forgets the context
  IF \E q \in DOMAIN cache : q[1] = tn
  THEN cache[CHOOSE q \in DOMAIN cache : q[1] = tn]
  ELSE IF ScopeInterned(tn) THEN Scoped!Referent(AllNames, Aliases, tn, ctx) ELSE None

Asked(tn, ctx) ==
  LET q == <<tn, ctx>>
  IN  IF q \in DOMAIN cache THEN cache[q]
      ELSE IF ScopeInterned(tn) THEN Scoped!Referent(AllNames, Aliases, tn, ctx)
      ELSE None

Found(item) == NamesOf(item) \subseteq tns /\ NamespacesOf(item) \subseteq nss

Record(ref, entry) ==
  table' = IF ref \in DOMAIN table THEN [table EXCEPT ![ref] = Append(@, entry)]
           ELSE Put(table, ref, <<entry>>)

\* record_type_name: the use map's name is interned, the answer cached (an
\* absolute declared name before the cache), the entry recorded.
RecordName(item) ==
  LET mapped == Mapped(useMap, item.node.name)
      answer == Asked(mapped, item.ctx)
      known  == mapped.ns.abs /\ mapped \in AllNames
  IN  /\ nss'   = nss \cup {mapped.ns}
      /\ tns'   = tns \cup {mapped}
      /\ cache' = IF known THEN cache ELSE Put(cache, <<mapped, item.ctx>>, answer)
      /\ Record(current, [at |-> item.at, resolved |-> answer # None,
                          name |-> IF answer # None THEN answer ELSE mapped])

\* Marks on the stack of work: where a declaration is left, and items that
\* are only counted.
Leave(saved) == [leave |-> saved]
Counted(item) == [count |-> item]
IsLeave(w)   == "leave" \in DOMAIN w
IsCounted(w) == "count" \in DOMAIN w
IsWalked(w)  == "node" \in DOMAIN w

Resolving  == phase = "resolve" /\ work # <<>>
IsTop(item) == item.ctx = <<>> /\ Len(item.at) = 2
Selected(item) ==
  only # None => item.node.k # "global" /\ Found(item) /\ FullName(item) \in only

-----------------------------------------------------------------------------
\* resolve_type_names: convert_only interns the names of the filter.
StartResolve(filter) ==
  /\ phase = "loaded"
  /\ phase' = "resolve"
  /\ only' = filter
  /\ nss' = nss \cup (IF filter = None THEN {} ELSE {n.ns : n \in filter})
  /\ tns' = tns \cup (IF filter = None THEN {} ELSE filter)
  /\ source' = 0 /\ work' = <<>>
  /\ UNCHANGED <<program, decls, globals, useMap, cache, counter, current, table>>

NextSource == phase = "resolve" /\ work = <<>> /\ source < Len(program)

\* The magic comment `# resolve-type-names: false` skips a source.
SkipSource ==
  /\ NextSource
  /\ Disabled(program[source + 1].head)
  /\ source' = source + 1
  /\ UNCHANGED <<phase, work, envVars, driverVars>>

ResolveSource ==
  /\ NextSource
  /\ LET src == program[source + 1]
     IN  /\ ~Disabled(src.head)
         /\ useMap' = UseMapOf(AllNames, src.uses)
         /\ LET singles == {src.uses[i].name : i \in {j \in DOMAIN src.uses :
                                                        src.uses[j].k = "single"}}
                wilds   == {src.uses[i].ns : i \in {j \in DOMAIN src.uses :
                                                      src.uses[j].k = "wildcard"}}
            IN  /\ nss' = nss \cup {n.ns : n \in singles} \cup wilds
                /\ tns' = tns \cup singles
  /\ Enter(source + 1)
  /\ counter' = 0
  /\ current' = None
  /\ UNCHANGED <<phase, program, decls, globals, only, cache, table>>

\* only: skips a top-level declaration, but still counts what is in it.
SkipDecl ==
  /\ Resolving /\ IsWalked(Head(work))
  /\ IsTop(Head(work)) /\ ~Selected(Head(work))
  /\ work' = <<Counted(Head(work))>> \o Tail(work)
  /\ UNCHANGED <<phase, source, envVars, driverVars>>

ConsumeTopOnly == \* mutant: the nested declarations are not counted
  /\ Resolving /\ IsCounted(Head(work))
  /\ counter' = counter + 1
  /\ work' = Tail(work)
  /\ UNCHANGED <<phase, source, envVars, only, useMap, cache, current, table>>

\* The declarations among the members of a class or module.
CountedBelow(item) ==
  LET members == IF item.node.k \in Scopes THEN Under(item, "members") ELSE <<>>
  IN  FlattenSeq([i \in DOMAIN members |->
                    IF IsDecl(members[i].node) THEN <<Counted(members[i])>> ELSE <<>>])

ConsumeDeclRef ==
  /\ Resolving /\ IsCounted(Head(work))
  /\ counter' = counter + 1
  /\ work' = CountedBelow(Head(work).count) \o Tail(work)
  /\ UNCHANGED <<phase, source, envVars, only, useMap, cache, current, table>>

WalkDeclaration ==
  /\ Resolving /\ IsWalked(Head(work))
  /\ LET item == Head(work)
     IN  /\ IsDecl(item.node)
         /\ IsTop(item) => Selected(item)
         /\ Expect(item.node.k \in Scopes => Found(item))
         /\ work' = Children(item, DriverOrder) \o <<Leave(current)>> \o Tail(work)
  /\ counter' = counter + 1
  /\ current' = DeclRef(counter)
  /\ UNCHANGED <<source, envVars, only, useMap, cache, table>>

LeaveInChild == \* mutant: the enclosing declaration is not restored
  /\ Resolving /\ IsLeave(Head(work))
  /\ work' = Tail(work)
  /\ UNCHANGED <<phase, source, envVars, driverVars>>

LeaveDeclaration ==
  /\ Resolving /\ IsLeave(Head(work))
  /\ current' = Head(work).leave
  /\ work' = Tail(work)
  /\ UNCHANGED <<phase, source, envVars, only, useMap, cache, counter, table>>

WalkName ==
  /\ Resolving /\ IsWalked(Head(work)) /\ Head(work).node.k \in NameKinds
  /\ Expect(Found(Head(work)))
  /\ RecordName(Head(work))
  /\ Descend(DriverOrder)
  /\ UNCHANGED <<source, program, decls, globals, only, useMap, counter, current>>

WalkNode ==
  /\ Resolving /\ IsWalked(Head(work))
  /\ ~IsDecl(Head(work).node) /\ Head(work).node.k \notin NameKinds
  /\ Descend(DriverOrder)
  /\ UNCHANGED <<phase, source, envVars, driverVars>>

ResolveEnd ==
  /\ phase = "resolve" /\ work = <<>> /\ source = Len(program)
  /\ phase' = "resolved"
  /\ UNCHANGED <<source, work, envVars, driverVars>>

DriverInit ==
  /\ only    = None
  /\ useMap  = NoUses
  /\ cache   = [q \in {} |-> None]
  /\ counter = 0
  /\ current = None
  /\ table   = [r \in {} |-> <<>>]

DriverNext ==
  \/ \E f \in Filters : StartResolve(f)
  \/ SkipSource \/ ResolveSource \/ SkipDecl \/ ConsumeDeclRef
  \/ WalkDeclaration \/ LeaveDeclaration \/ WalkName \/ WalkNode
  \/ ResolveEnd

=============================================================================
