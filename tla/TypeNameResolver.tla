--------------------------- MODULE TypeNameResolver ---------------------------
(***************************************************************************)
(* crates/librbs-core/src/resolver/type_name.rs as a state machine.        *)
(*                                                                         *)
(* The resolver is used by one thread, one query after another.  A query   *)
(* is a call of resolve; the recursion of resolve_namespace0 and           *)
(* normalize_namespace is a stack of frames, one step per segment, so      *)
(* that cycles of aliases and the visited set show.  Between two queries   *)
(* the driver may intern further names (use directives, and use_map's      *)
(* rewriting), which changes what the frozen lookups find.                 *)
(***************************************************************************)
EXTENDS Scoping

CONSTANTS
  Environments, \* the environments to start from: records with the fields
                \* all, aliases, nss, tns, uses
  Queries       \* the (name, context) pairs asked for

ASSUME EnvironmentsAssumption ==
  \A e \in Environments :
    /\ e.all \subseteq TypeNames /\ e.nss \subseteq Namespaces /\ e.tns \subseteq TypeNames
    /\ DOMAIN e.aliases \subseteq TypeNames
    /\ \A a \in DOMAIN e.aliases : e.aliases[a] \in [old : TypeNames, ctx : Contexts]
    /\ e.uses \subseteq TypeNames

\* One table holds all declarations, and insert has interned their names,
\* with the namespace of each.
ASSUME DeclarationsAssumption ==
  \A e \in Environments :
    /\ IsFiniteSet(DOMAIN e.aliases)
    /\ e.all \cap DOMAIN e.aliases = {}
    /\ e.all \cup DOMAIN e.aliases \subseteq e.tns
    /\ \A n \in e.tns : n.ns \in e.nss

ASSUME QueriesAssumption == Queries \subseteq [tn : TypeNames, ctx : Contexts]

\* What a query came to: its result, whether it was cached, and ScopeInterned
\* then.
Answers == [query : Queries, result : TypeNames \cup {None}, cached : BOOLEAN, found : BOOLEAN]

ASSUME NoneAssumption ==
  /\ None \notin TypeNames /\ None \notin Namespaces
  /\ None \notin Queries /\ None \notin Answers

VARIABLES
  all,          \* all_names: declared classes, modules, interfaces, aliases
  aliases,      \* class and module aliases: new name to [old, ctx]
  nss, tns,     \* the namespaces and type names interned so far
  uses,         \* names in the use directives of sources still to come
  cache,        \* partial function: query to result
  query,        \* the query being answered, or None
  stack,        \* frames of resolve_namespace0, innermost last
  visited,      \* aliases being normalised
  answer        \* the last answer, or None

env  == <<all, aliases, nss, tns, uses>>
vars == <<env, cache, query, stack, visited, answer>>

Query(tn, ctx) == [tn |-> tn, ctx |-> ctx]

-----------------------------------------------------------------------------
(* Lookups through the frozen interner: None when not in the table.        *)

FrozenNs(ns) == IF ns \in nss THEN ns ELSE None

FrozenTn(ns, name) ==
  IF ns # None /\ Tn(ns, name) \in tns THEN Tn(ns, name) ELSE None

FrozenToNamespace(tn) == FrozenNs(ToNamespace(tn))

\* The nested name's namespace, as the name of a class (FrozenNamespaces::
\* to_type_name, then intern).
FrozenNsName(ns) == FrozenTn(FrozenNs(Parent(ns)), ns.path[Len(ns.path)])

\* Innermost scope of ctx in which name is a member of `hit`; the scopes are
\* the namespaces of the context, innermost first, then the root.
ScopeAt(ctx, i) ==
  IF i = 0 THEN RootAbsolute ELSE FrozenToNamespace(ctx[i])

OutermostHit(name, ctx, hit) == \* mutant: searched from the wrong end
  LET found == {i \in 0..Len(ctx) : FrozenTn(ScopeAt(ctx, i), name) \in hit}
  IN  IF found = {} THEN None
      ELSE FrozenTn(ScopeAt(ctx, CHOOSE i \in found : \A j \in found : i <= j), name)

InnermostHit(name, ctx, hit) ==
  LET found == {i \in 0..Len(ctx) : FrozenTn(ScopeAt(ctx, i), name) \in hit}
  IN  IF found = {} THEN None
      ELSE FrozenTn(ScopeAt(ctx, CHOOSE i \in found : \A j \in found : j <= i), name)

Declared == all \cup DOMAIN aliases

Qualified(tn) == KindOf(tn) # "Class" /\ tn.ns.path # <<>>

\* The early None of resolve: the namespace of a qualified interface or alias
\* name has no class name in the tables.
ScopeInterned(tn) == Qualified(tn) => FrozenNsName(tn.ns) # None

\* resolve_type_name: plain scope lookup, aliases do not count.
ResolveTypeName(name, ctx) == InnermostHit(name, ctx, all)

\* resolve_head_namespace, or the absolute head looked up under the root.
ResolveHead(tn, ctx) ==
  LET head == Segments(tn)[1]
  IN  IF tn.ns.abs THEN InnermostHit(head, <<>>, Declared)
      ELSE InnermostHit(head, ctx, Declared)

-----------------------------------------------------------------------------
(* A frame walks a class path: `todo` are the segments not yet looked at,  *)
(* `acc` the class reached, None before the head; `alias` is the alias     *)
(* whose normalisation the frame is, None for the outermost.               *)

Frame(tn, ctx, alias) ==
  [tn |-> tn, ctx |-> ctx, alias |-> alias, todo |-> Segments(tn), acc |-> None]

Top == stack[Len(stack)]

Push(f)    == stack' = Append(stack, f)
SetTop(f)  == stack' = [stack EXCEPT ![Len(stack)] = f]

Answer(q, result, cached, found) ==
  answer' = [query |-> q, result |-> result, cached |-> cached, found |-> found]

FinishByName(q, result, found) == \* mutant: the context is left out of the key
  /\ cache' = [k \in DOMAIN cache \cup {q.tn} |-> IF k = q.tn THEN result ELSE cache[k]]
  /\ Answer(q, result, FALSE, found)
  /\ query' = None
  /\ stack' = <<>>
  /\ visited' = {}
  /\ UNCHANGED env

\* cache.insert(key, result); result
Finish(q, result, found) ==
  /\ cache' = [k \in DOMAIN cache \cup {q} |-> IF k = q THEN result ELSE cache[k]]
  /\ Answer(q, result, FALSE, found)
  /\ query' = None
  /\ stack' = <<>>
  /\ visited' = {}
  /\ UNCHANGED env

-----------------------------------------------------------------------------
(* Calls of resolve.                                                       *)

Idle == query = None

KnownAbsolute(tn) == tn.ns.abs /\ tn \in all

ResolveKnown(q) ==
  /\ Idle
  /\ KnownAbsolute(q.tn)
  /\ Answer(q, q.tn, FALSE, TRUE)
  /\ UNCHANGED <<env, cache, query, stack, visited>>

ResolveCached(q) ==
  /\ Idle
  /\ ~KnownAbsolute(q.tn)
  /\ q \in DOMAIN cache
  /\ Answer(q, cache[q], TRUE, ScopeInterned(q.tn))
  /\ UNCHANGED <<env, cache, query, stack, visited>>

Miss(q) == Idle /\ ~KnownAbsolute(q.tn) /\ q \notin DOMAIN cache

ResolveClass(q) ==
  /\ Miss(q)
  /\ KindOf(q.tn) = "Class"
  /\ query' = q
  /\ Push(Frame(q.tn, q.ctx, None))
  /\ UNCHANGED <<env, cache, visited, answer>>

ResolveUnqualified(q) ==
  /\ Miss(q)
  /\ KindOf(q.tn) # "Class"
  /\ q.tn.ns.path = <<>>
  /\ Finish(q, ResolveTypeName(q.tn.name, q.ctx), TRUE)

\* `Foo::Bar::_Each`: the namespace is resolved as a class first.
ResolveQualified(q) ==
  /\ Miss(q)
  /\ Qualified(q.tn)
  /\ \/ /\ ~ScopeInterned(q.tn)
        /\ Finish(q, None, FALSE)
     \/ /\ ScopeInterned(q.tn)
        /\ query' = q
        /\ Push(Frame(FrozenNsName(q.tn.ns), q.ctx, None))
        /\ UNCHANGED <<env, cache, visited, answer>>

-----------------------------------------------------------------------------
(* Steps of resolve_namespace0.                                            *)

\* Any None makes the walk, and with it every caller, return None;
\* normalize_namespace forgets its alias on the way out.
Fail == Finish(query, None, TRUE)

\* The class the next segment leads to, before alias normalisation.
Candidate(f) ==
  IF f.acc = None THEN ResolveHead(f.tn, f.ctx)
  ELSE FrozenTn(FrozenToNamespace(f.acc), Head(f.todo))

Walking == stack # <<>> /\ Top.todo # <<>>

\* At the head an alias is normalised whatever else it is; in the tail a
\* declaration comes first.
GoesToAlias(f, c) ==
  /\ c \in DOMAIN aliases
  /\ f.acc # None => c \notin all

StepDeclaredOrAlias == \* mutant: an alias at the head is not normalised
  /\ Walking
  /\ LET c == Candidate(Top)
     IN  c \in Declared /\ SetTop([Top EXCEPT !.acc = c, !.todo = Tail(@)])
  /\ UNCHANGED <<env, cache, query, visited, answer>>

StepDeclared ==
  /\ Walking
  /\ LET c == Candidate(Top)
     IN  /\ c \in all
         /\ ~GoesToAlias(Top, c)
         /\ SetTop([Top EXCEPT !.acc = c, !.todo = Tail(@)])
  /\ UNCHANGED <<env, cache, query, visited, answer>>

StepAliasHere == \* mutant: the right-hand side is read in the query's context
  /\ Walking
  /\ LET c == Candidate(Top)
     IN  /\ GoesToAlias(Top, c)
         /\ c \notin visited
         /\ visited' = visited \cup {c}
         /\ Push(Frame(aliases[c].old, Top.ctx, c))
  /\ UNCHANGED <<env, cache, query, answer>>

StepAlias ==
  /\ Walking
  /\ LET c == Candidate(Top)
     IN  /\ GoesToAlias(Top, c)
         /\ c \notin visited
         /\ visited' = visited \cup {c}
         /\ Push(Frame(aliases[c].old, aliases[c].ctx, c))
  /\ UNCHANGED <<env, cache, query, answer>>

StepCycleAgain == \* mutant: a cycle makes the frame start over
  /\ Walking
  /\ LET c == Candidate(Top) IN GoesToAlias(Top, c) /\ c \in visited
  /\ SetTop(Frame(Top.tn, Top.ctx, Top.alias))
  /\ UNCHANGED <<env, cache, query, visited, answer>>

StepCycle ==
  /\ Walking
  /\ LET c == Candidate(Top) IN GoesToAlias(Top, c) /\ c \in visited
  /\ Fail

StepUnknown ==
  /\ Walking
  /\ Candidate(Top) \notin Declared
  /\ Fail

ReturnAliasVisited == \* mutant: the alias stays in visited
  /\ Len(stack) > 1
  /\ Top.todo = <<>>
  /\ LET below == stack[Len(stack) - 1]
     IN  stack' = [SubSeq(stack, 1, Len(stack) - 1)
                     EXCEPT ![Len(stack) - 1] =
                       [below EXCEPT !.acc = Top.acc, !.todo = Tail(@)]]
  /\ UNCHANGED <<env, cache, query, visited, answer>>

\* A frame that reached the end of an alias's path hands the class to the
\* frame that met the alias.
ReturnAlias ==
  /\ Len(stack) > 1
  /\ Top.todo = <<>>
  /\ visited' = visited \ {Top.alias}
  /\ LET below == stack[Len(stack) - 1]
     IN  stack' = [SubSeq(stack, 1, Len(stack) - 1)
                     EXCEPT ![Len(stack) - 1] =
                       [below EXCEPT !.acc = Top.acc, !.todo = Tail(@)]]
  /\ UNCHANGED <<env, cache, query, answer>>

\* The outermost frame is done: a class is the answer itself, for a nested
\* name the last symbol is attached again.
ReturnClass ==
  /\ Len(stack) = 1
  /\ Top.todo = <<>>
  /\ KindOf(query.tn) = "Class"
  /\ Finish(query, Top.acc, TRUE)

InternedMember(outer, name) == \* mutant: interned is taken for declared
  FrozenTn(FrozenToNamespace(outer), name)

Member(outer, name) ==
  LET full == FrozenTn(FrozenToNamespace(outer), name)
  IN  IF full \in all THEN full ELSE None

ReturnQualified ==
  /\ Len(stack) = 1
  /\ Top.todo = <<>>
  /\ KindOf(query.tn) # "Class"
  /\ Finish(query, Member(Top.acc, query.tn.name), TRUE)

-----------------------------------------------------------------------------
\* A use directive interns the name as written, between two queries.
InternName(tn) ==
  /\ Idle
  /\ nss'  = nss \cup {tn.ns}
  /\ tns'  = tns \cup {tn}
  /\ uses' = uses \ {tn}
  /\ UNCHANGED <<all, aliases, cache, query, stack, visited, answer>>

Init ==
  /\ \E e \in Environments :
       /\ all = e.all /\ aliases = e.aliases
       /\ nss = e.nss /\ tns = e.tns /\ uses = e.uses
  /\ cache   = [q \in {} |-> None]
  /\ query   = None
  /\ stack   = <<>>
  /\ visited = {}
  /\ answer  = None

\* The driver asks for interned names, in contexts made of classes that were
\* declared.
Askable(q) == q.tn \in tns /\ \A i \in DOMAIN q.ctx : q.ctx[i] \in all

Resolve(q) ==
  \/ ResolveKnown(q) \/ ResolveCached(q)
  \/ ResolveClass(q) \/ ResolveUnqualified(q) \/ ResolveQualified(q)

Walk ==
  \/ StepDeclared \/ StepAlias \/ StepCycle \/ StepUnknown
  \/ ReturnAlias \/ ReturnClass \/ ReturnQualified

Next ==
  \/ \E q \in Queries : Askable(q) /\ Resolve(q)
  \/ Walk
  \/ \E tn \in uses : InternName(tn)

\* The walk is ordinary code of one thread: it runs on until it returns.
Spec == Init /\ [][Next]_vars /\ WF_vars(Walk)

-----------------------------------------------------------------------------
(* Properties.                                                             *)

Frames == [tn : TypeNames, ctx : Contexts, alias : TypeNames \cup {None},
           todo : Seq(Symbols), acc : TypeNames \cup {None}]

TypeOK ==
  /\ all \subseteq TypeNames /\ tns \subseteq TypeNames /\ nss \subseteq Namespaces
  /\ uses \subseteq TypeNames
  /\ DOMAIN aliases \subseteq TypeNames
  /\ \A a \in DOMAIN aliases : aliases[a] \in [old : TypeNames, ctx : Contexts]
  /\ DOMAIN cache \subseteq Queries
  /\ \A q \in DOMAIN cache : cache[q] \in TypeNames \cup {None}
  /\ query \in Queries \cup {None}
  /\ stack \in Seq(Frames)
  /\ visited \subseteq TypeNames
  /\ answer \in Answers \cup {None}

\* Whatever the aliases, a name only ever resolves to a declaration: never to
\* an alias, nor to a name that was merely interned (resolve and
\* resolve_namespace0 return members of all_names).
ResolvesToDeclarations ==
  /\ answer # None => answer.result \in all \cup {None}
  /\ \A q \in DOMAIN cache : cache[q] \in all \cup {None}

\* visited holds exactly the aliases of the pending normalisations, each of
\* them once, and nothing is left in it after a query: the recursion of
\* normalize_namespace is at most as deep as there are aliases, and meeting
\* an alias again after it was resolved is no cycle.
VisitedIsPending ==
  /\ visited = {stack[i].alias : i \in 2 .. Len(stack)}
  /\ \A i, j \in 2 .. Len(stack) : stack[i].alias = stack[j].alias => i = j
  /\ stack # <<>> => stack[1].alias = None
  /\ Idle => stack = <<>>

\* The resolver is a name lookup: caches, frames, aliases on the way and
\* the interner are details of how resolve finds its answer.
Lookup == INSTANCE NameLookup
            WITH asked    <- query,
                 question <- IF answer = None THEN None ELSE answer.query,
                 result   <- IF answer = None THEN None ELSE answer.result

\* A query is answered with what the name refers to or, for a qualified
\* interface or alias name, with None, and no step changes the declarations it
\* is answered from.
IsLookup == Lookup!SafeSpec

\* Every query is answered, cycles of aliases included.
IsAnswered == Lookup!Answered

Meaning(q) == Referent(all, aliases, q.tn, q.ctx)

\* An answer is what the name refers to.  The one exception the code makes:
\* a qualified interface or alias name is answered None when the frozen
\* tables lacked its namespace as a class name, now or when the cached
\* answer was computed.
AnswersAreReferents ==
  Idle /\ answer # None =>
    \/ answer.result = Meaning(answer.query)
    \/ /\ answer.result = None
       /\ Qualified(answer.query.tn)
       /\ answer.cached \/ ~answer.found

\* What the comment in resolve says of the exception ("If the parent path or
\* the namespace-as-class candidate has never been interned, no declaration
\* uses that namespace as a class scope, so resolution must fail"): a None
\* for want of the namespace is given only where nothing is referred to.
MissingNamespaceMeansUndeclared ==
  answer # None =>
    (~answer.found => Meaning(answer.query) = None)

=============================================================================
