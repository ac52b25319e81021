----------------------- MODULE TypeNameResolverProofs -----------------------
(***************************************************************************)
(* Safety of the resolver for all environments, queries and use directives.*)
(*                                                                         *)
(* IInv adds to the properties of TypeNameResolver that the class a frame  *)
(* has reached is a declaration, never an alias, and that a frame below    *)
(* another waits at a segment, the alias.                                  *)
(*                                                                         *)
(* WInv is about what is answered: every frame has come to what the        *)
(* segments it has walked lead to, according to what the aliases stand for *)
(* in Scoping, and a frame below another waits for the alias the next      *)
(* segment names.  A frame at its end then has what its path leads to, a   *)
(* dead end of the topmost is one of all frames below it, and an alias met *)
(* again while it is pending stands for nothing.                           *)
(***************************************************************************)
EXTENDS TypeNameResolver, SequenceProofs

ReachedIsDeclared == \A i \in DOMAIN stack : stack[i].acc \in all \cup {None}

BelowIsWaiting == \A i \in 1 .. Len(stack) - 1 : stack[i].todo # <<>>

IInv == TypeOK /\ ResolvesToDeclarations /\ VisitedIsPending
        /\ ReachedIsDeclared /\ BelowIsWaiting

-----------------------------------------------------------------------------
(* Lookups.                                                                *)

(* A scope search answers None or a member of what it searches. *)
LEMMA HitIsMember ==
  ASSUME NEW name, NEW ctx \in Contexts, NEW hit
  PROVE  InnermostHit(name, ctx, hit) \in hit \cup {None}
<1> DEFINE found == {i \in 0..Len(ctx) : FrozenTn(ScopeAt(ctx, i), name) \in hit}
<1>1. Len(ctx) \in Nat
  BY DEF Contexts
<1>2. CASE found = {}
  BY <1>2 DEF InnermostHit
<1>3. CASE found # {}
  <2>1. \E i \in found : \A j \in found : j <= i
    BY <1>1, <1>3, Greatest
  <2> DEFINE i == CHOOSE k \in found : \A j \in found : j <= k
  <2>2. i \in found
    BY <2>1
  <2>3. FrozenTn(ScopeAt(ctx, i), name) \in hit
    BY <2>2
  <2> QED BY <1>3, <2>3 DEF InnermostHit
<1> QED BY <1>2, <1>3

(* The lookup of a name yields a name of the table. *)
LEMMA FrozenIsInterned ==
  ASSUME tns \subseteq TypeNames, NEW ns, NEW name
  PROVE  FrozenTn(ns, name) \in TypeNames \cup {None}
BY DEF FrozenTn

(* A new frame is well formed: its path has a head. *)
LEMMA NewFrame ==
  ASSUME NEW tn \in TypeNames, NEW ctx \in Contexts, NEW alias \in TypeNames \cup {None}
  PROVE  Frame(tn, ctx, alias) \in Frames
<1>1. Segments(tn) \in Seq(Symbols)
  BY DEF Segments, TypeNames, Namespaces
<1> QED BY <1>1 DEF Frame, Frames

-----------------------------------------------------------------------------
(* Steps that end a query, start one, or change the topmost frame.         *)

(* An answer is a record of what was asked and what came of it. *)
LEMMA AnswerIs ==
  ASSUME NEW q \in Queries, NEW result \in TypeNames \cup {None},
         NEW cached \in BOOLEAN, NEW found \in BOOLEAN, Answer(q, result, cached, found)
  PROVE  answer' \in Answers
BY DEF Answer, Answers

(* An answer that is a declaration or None may be cached. *)
LEMMA FinishStep ==
  ASSUME IInv, NEW q \in Queries, NEW result \in all \cup {None}, NEW found \in BOOLEAN,
         Finish(q, result, found)
  PROVE  IInv'
<1>0. answer' \in Answers
  BY AnswerIs DEF Finish, IInv, TypeOK
<1> USE DEF Finish, Answer, env, IInv
<1>1. TypeOK'
  BY <1>0 DEF TypeOK
<1>2. ResolvesToDeclarations'
  BY DEF ResolvesToDeclarations
<1>3. VisitedIsPending'
  BY DEF VisitedIsPending, Idle
<1>4. ReachedIsDeclared'
  BY DEF ReachedIsDeclared
<1>5. BelowIsWaiting'
  BY DEF BelowIsWaiting
<1> QED BY <1>1, <1>2, <1>3, <1>4, <1>5

(* A query starts with one frame, which normalises no alias. *)
LEMMA StartStep ==
  ASSUME IInv, Idle, NEW q \in Queries, NEW tn \in TypeNames,
         query' = q, Push(Frame(tn, q.ctx, None)),
         UNCHANGED <<env, cache, visited, answer>>
  PROVE  IInv'
<1> DEFINE f == Frame(tn, q.ctx, None)
<1>1. f \in Frames
  BY QueriesAssumption, NewFrame
<1>2. stack = <<>> /\ stack' = <<f>>
  BY DEF IInv, VisitedIsPending, Push
<1>3. f.alias = None /\ f.acc = None
  BY DEF Frame
<1>4. q # None
  BY NoneAssumption
<1> HIDE DEF f
<1>5. TypeOK'
  BY <1>1, <1>2 DEF IInv, TypeOK, env
<1>6. ResolvesToDeclarations'
  BY DEF IInv, ResolvesToDeclarations, env
<1>7. VisitedIsPending'
  BY <1>2, <1>3, <1>4 DEF IInv, VisitedIsPending, Idle
<1>8. ReachedIsDeclared'
  BY <1>2, <1>3 DEF ReachedIsDeclared
<1>9. BelowIsWaiting'
  BY <1>2 DEF BelowIsWaiting
<1> QED BY <1>5, <1>6, <1>7, <1>8, <1>9 DEF IInv

(* While there is a frame there is a query, and the top frame is a frame. *)
LEMMA TopFrame ==
  ASSUME IInv, stack # <<>>
  PROVE  /\ query \in Queries /\ query # None
         /\ Len(stack) \in DOMAIN stack /\ Len(stack) \in Nat \ {0}
         /\ Top \in Frames /\ Top.acc \in all \cup {None}
<1>1. query \in Queries /\ query # None
  BY DEF IInv, TypeOK, VisitedIsPending, Idle
<1>2. stack \in Seq(Frames)
  BY DEF IInv, TypeOK
<1>3. Len(stack) \in DOMAIN stack /\ Len(stack) \in Nat \ {0}
  BY <1>2
<1>4. Top \in Frames /\ Top.acc \in all \cup {None}
  BY <1>2, <1>3 DEF Top, IInv, ReachedIsDeclared
<1> QED BY <1>1, <1>3, <1>4

(* Replacing the last frame of a stack. *)
LEMMA LastReplaced ==
  ASSUME NEW s \in Seq(Frames), s # <<>>, NEW f \in Frames,
         NEW t, t = [s EXCEPT ![Len(s)] = f]
  PROVE  /\ t \in Seq(Frames) /\ Len(t) = Len(s) /\ DOMAIN t = 1 .. Len(s)
         /\ \A i \in 1 .. Len(s) : t[i] = IF i = Len(s) THEN f ELSE s[i]
<1>1. Len(s) \in 1 .. Len(s)
  OBVIOUS
<1> QED BY <1>1, ExceptSeq

(* A segment that leads to a declaration moves the top frame on. *)
LEMMA DeclaredStep == IInv /\ StepDeclared => IInv'
<1> SUFFICES ASSUME IInv, StepDeclared PROVE IInv'
  OBVIOUS
<1> DEFINE c == Candidate(Top)
           f == [Top EXCEPT !.acc = c, !.todo = Tail(@)]
<1>1. stack # <<>> /\ Top.todo # <<>> /\ c \in all /\ SetTop(f)
  BY DEF StepDeclared, Walking
<1>2. UNCHANGED <<env, cache, query, visited, answer>>
  BY DEF StepDeclared
<1>3. stack \in Seq(Frames) /\ all \subseteq TypeNames
  BY DEF IInv, TypeOK
<1>4. Len(stack) \in DOMAIN stack /\ Top \in Frames
  BY <1>1, TopFrame
<1>5. f \in Frames /\ f.acc = c /\ f.alias = Top.alias
  <2>1. Tail(Top.todo) \in Seq(Symbols)
    BY <1>1, <1>4 DEF Frames
  <2> HIDE DEF c
  <2> QED BY <1>1, <1>3, <1>4, <2>1 DEF Frames
<1> HIDE DEF f
<1>6. stack' = [stack EXCEPT ![Len(stack)] = f]
  BY <1>1 DEF SetTop
<1>7. stack' \in Seq(Frames) /\ DOMAIN stack' = DOMAIN stack /\ Len(stack') = Len(stack)
  BY <1>1, <1>3, <1>5, <1>6, LastReplaced
<1>8. \A i \in DOMAIN stack :
        /\ stack'[i].alias = stack[i].alias
        /\ stack'[i].acc = IF i = Len(stack) THEN c ELSE stack[i].acc
        /\ i # Len(stack) => stack'[i] = stack[i]
  BY <1>3, <1>4, <1>5, <1>6 DEF Top
<1> HIDE DEF c
<1>9. TypeOK'
  BY <1>2, <1>7 DEF IInv, TypeOK, env
<1>10. ResolvesToDeclarations'
  BY <1>2 DEF IInv, ResolvesToDeclarations, env
<1>11. VisitedIsPending'
  <2>1. 2 .. Len(stack) \subseteq DOMAIN stack /\ (stack # <<>> => 1 \in DOMAIN stack)
    BY <1>3
  <2>2. Len(stack) \in Nat
    BY <1>3
  <2>3. {stack'[i].alias : i \in 2 .. Len(stack')} = {stack[i].alias : i \in 2 .. Len(stack)}
    BY <1>7, <1>8, <2>1
  <2>4. stack' # <<>> => stack'[1].alias = None
    BY <1>1, <1>8, <2>1 DEF IInv, VisitedIsPending
  <2>5. ~Idle'
    BY <1>1, <1>2, TopFrame DEF Idle
  <2>6. \A i, j \in 2 .. Len(stack') : stack'[i].alias = stack'[j].alias => i = j
    BY <1>7, <1>8, <2>1 DEF IInv, VisitedIsPending
  <2> QED BY <1>2, <2>3, <2>4, <2>5, <2>6 DEF IInv, VisitedIsPending
<1>12. ReachedIsDeclared'
  BY <1>1, <1>2, <1>7, <1>8 DEF IInv, ReachedIsDeclared, env
<1>13. BelowIsWaiting'
  BY <1>3, <1>7, <1>8 DEF IInv, BelowIsWaiting
<1> QED BY <1>9, <1>10, <1>11, <1>12, <1>13 DEF IInv

(* An alias met for the first time gets a frame of its own, on top. *)
LEMMA AliasStep == IInv /\ StepAlias => IInv'
<1> SUFFICES ASSUME IInv, StepAlias PROVE IInv'
  OBVIOUS
<1> DEFINE c == Candidate(Top)
           f == Frame(aliases[c].old, aliases[c].ctx, c)
           n == Len(stack)
<1>1. stack # <<>> /\ c \in DOMAIN aliases /\ c \notin visited
  BY DEF StepAlias, Walking, GoesToAlias
<1>2. visited' = visited \cup {c} /\ stack' = Append(stack, f)
  BY DEF StepAlias, Push
<1>3. UNCHANGED <<env, cache, query, answer>>
  BY DEF StepAlias
<1>4. c \in TypeNames /\ aliases[c] \in [old : TypeNames, ctx : Contexts]
  BY <1>1 DEF IInv, TypeOK
<1> HIDE DEF c
<1>5. f \in Frames /\ f.alias = c /\ f.acc = None
  <2>1. aliases[c].old \in TypeNames /\ aliases[c].ctx \in Contexts
    BY <1>4
  <2> QED BY <1>4, <2>1, NewFrame DEF Frame
<1> HIDE DEF f
<1>6. stack \in Seq(Frames) /\ n \in Nat \ {0} /\ DOMAIN stack = 1 .. n
  BY <1>1 DEF IInv, TypeOK
<1>7. /\ stack' \in Seq(Frames) /\ Len(stack') = n + 1 /\ DOMAIN stack' = 1 .. n + 1
      /\ \A i \in 1 .. n : stack'[i] = stack[i]
      /\ stack'[n + 1] = f
  BY <1>2, <1>5, <1>6, AppendProperties
<1> HIDE DEF n
<1>8. TypeOK'
  BY <1>2, <1>3, <1>4, <1>7 DEF IInv, TypeOK, env
<1>9. ResolvesToDeclarations'
  BY <1>3 DEF IInv, ResolvesToDeclarations, env
<1>10. VisitedIsPending'
  <2>1. visited = {stack[i].alias : i \in 2 .. n}
    BY DEF IInv, VisitedIsPending, n
  <2>2. 2 .. Len(stack') = (2 .. n) \cup {n + 1}
    BY <1>6, <1>7
  <2>3. visited' = {stack'[i].alias : i \in 2 .. Len(stack')}
    <3>1. \A i \in 2 .. n : stack'[i] = stack[i]
      BY <1>6, <1>7
    <3> QED BY <1>2, <1>5, <1>7, <2>1, <2>2, <3>1
  <2>4. \A i, j \in 2 .. Len(stack') : stack'[i].alias = stack'[j].alias => i = j
    <3>1. \A i, j \in 2 .. n : stack'[i].alias = stack'[j].alias => i = j
      BY <1>6, <1>7 DEF IInv, VisitedIsPending, n
    <3>2. \A i \in 2 .. n : stack'[i].alias # stack'[n + 1].alias
      BY <1>1, <1>5, <1>6, <1>7, <2>1
    <3> QED BY <2>2, <3>1, <3>2
  <2>5. stack'[1].alias = None
    BY <1>1, <1>6, <1>7 DEF IInv, VisitedIsPending
  <2>6. ~Idle'
    BY <1>1, <1>3, TopFrame DEF Idle
  <2> QED BY <2>3, <2>4, <2>5, <2>6 DEF VisitedIsPending
<1>11. ReachedIsDeclared'
  <2>1. \A i \in 1 .. n : stack'[i].acc \in all' \cup {None}
    BY <1>3, <1>6, <1>7 DEF IInv, ReachedIsDeclared, env
  <2> QED BY <1>5, <1>6, <1>7, <2>1 DEF ReachedIsDeclared
<1>12. BelowIsWaiting'
  <2>1. stack[n].todo # <<>>
    BY DEF StepAlias, Walking, Top, n
  <2>2. \A i \in 1 .. n - 1 : stack[i].todo # <<>>
    BY DEF IInv, BelowIsWaiting, n
  <2>3. \A i \in 1 .. n : stack'[i].todo # <<>>
    BY <1>6, <1>7, <2>1, <2>2
  <2> QED BY <1>6, <1>7, <2>3 DEF BelowIsWaiting
<1> QED BY <1>8, <1>9, <1>10, <1>11, <1>12 DEF IInv

(* A stack without its last frame. *)
LEMMA LastDropped ==
  ASSUME NEW s \in Seq(Frames), NEW n \in Nat, n = Len(s), n > 1
  PROVE  /\ SubSeq(s, 1, n - 1) \in Seq(Frames)
         /\ Len(SubSeq(s, 1, n - 1)) = n - 1 /\ SubSeq(s, 1, n - 1) # <<>>
         /\ \A i \in 1 .. n - 1 : SubSeq(s, 1, n - 1)[i] = s[i]
<1> DEFINE t == SubSeq(s, 1, n - 1)
<1>1. \A i \in 1 .. n - 1 : s[i] \in Frames
  OBVIOUS
<1>2. t \in Seq(Frames) /\ Len(t) = n - 1 /\ \A i \in 1 .. n - 1 : t[i] = s[i]
  BY <1>1, SubSeqProperties
<1> HIDE DEF t
<1>3. t # <<>>
  BY <1>2
<1> QED BY <1>2, <1>3 DEF t

(* An alias that is done leaves visited and hands its class down. *)
LEMMA ReturnStep == IInv /\ ReturnAlias => IInv'
<1> SUFFICES ASSUME IInv, ReturnAlias PROVE IInv'
  OBVIOUS
<1> DEFINE n     == Len(stack)
           below == stack[n - 1]
           s     == SubSeq(stack, 1, n - 1)
           f     == [below EXCEPT !.acc = Top.acc, !.todo = Tail(@)]
<1>1. n > 1 /\ visited' = visited \ {Top.alias} /\ stack' = [s EXCEPT ![n - 1] = f]
  BY DEF ReturnAlias
<1>2. UNCHANGED <<env, cache, query, answer>>
  BY DEF ReturnAlias
<1>3. stack \in Seq(Frames) /\ n \in Nat /\ DOMAIN stack = 1 .. n /\ stack # <<>>
  BY <1>1 DEF IInv, TypeOK
<1>4. Top \in Frames /\ Top.acc \in all \cup {None} /\ Top = stack[n]
  BY <1>3, TopFrame DEF Top
<1>5. below \in Frames
  BY <1>1, <1>3
<1>6. f \in Frames /\ f.acc = Top.acc /\ f.alias = below.alias
  <2>1. below.todo # <<>>
    BY <1>1, <1>3 DEF IInv, BelowIsWaiting
  <2>2. Tail(below.todo) \in Seq(Symbols)
    BY <1>5, <2>1 DEF Frames
  <2> HIDE DEF below
  <2> QED BY <1>4, <1>5, <2>2 DEF Frames
<1>7. s \in Seq(Frames) /\ Len(s) = n - 1 /\ s # <<>> /\ \A i \in 1 .. n - 1 : s[i] = stack[i]
  BY <1>1, <1>3, LastDropped
<1> HIDE DEF f, s
<1>8. /\ stack' \in Seq(Frames) /\ Len(stack') = n - 1 /\ DOMAIN stack' = 1 .. n - 1
      /\ \A i \in 1 .. n - 1 : stack'[i] = IF i = n - 1 THEN f ELSE stack[i]
  BY <1>1, <1>6, <1>7, LastReplaced
<1>9. \A i \in 1 .. n - 1 : stack'[i].alias = stack[i].alias
  BY <1>6, <1>8
<1> HIDE DEF n, below
<1>10. TypeOK'
  BY <1>1, <1>2, <1>8 DEF IInv, TypeOK, env
<1>11. ResolvesToDeclarations'
  BY <1>2 DEF IInv, ResolvesToDeclarations, env
<1>12. VisitedIsPending'
  <2>1. visited = {stack[i].alias : i \in 2 .. n}
    BY DEF IInv, VisitedIsPending, n
  <2>2. \A i, j \in 2 .. n : stack[i].alias = stack[j].alias => i = j
    BY DEF IInv, VisitedIsPending, n
  <2>3. visited' = {stack[i].alias : i \in 2 .. n - 1}
    <3>1. n \in 2 .. n /\ 2 .. n = (2 .. n - 1) \cup {n} /\ n \notin 2 .. n - 1
      BY <1>1, <1>3
    <3> QED BY <1>1, <1>4, <2>1, <2>2, <3>1
  <2>4. 2 .. Len(stack') = 2 .. n - 1 /\ 2 .. n - 1 \subseteq 2 .. n
    BY <1>3, <1>8
  <2>5. \A i \in 2 .. n - 1 : stack'[i].alias = stack[i].alias
    BY <1>3, <1>9
  <2>6. visited' = {stack'[i].alias : i \in 2 .. Len(stack')}
    BY <2>3, <2>4, <2>5
  <2>7. \A i, j \in 2 .. Len(stack') : stack'[i].alias = stack'[j].alias => i = j
    BY <2>2, <2>4, <2>5
  <2>8. stack'[1].alias = None
    BY <1>1, <1>3, <1>9 DEF IInv, VisitedIsPending
  <2>9. ~Idle'
    BY <1>2, <1>3, TopFrame DEF Idle
  <2> QED BY <2>6, <2>7, <2>8, <2>9 DEF VisitedIsPending
<1>13. ReachedIsDeclared'
  <2>1. \A i \in 1 .. n - 1 : stack[i].acc \in all \cup {None}
    BY <1>3 DEF IInv, ReachedIsDeclared
  <2> QED BY <1>2, <1>4, <1>6, <1>8, <2>1 DEF ReachedIsDeclared, env
<1>14. BelowIsWaiting'
  <2>1. \A i \in 1 .. n - 2 : stack'[i] = stack[i] /\ stack[i].todo # <<>>
    <3>1. \A i \in 1 .. n - 1 : stack[i].todo # <<>>
      BY DEF IInv, BelowIsWaiting, n
    <3>2. \A i \in 1 .. n - 2 : i \in 1 .. n - 1 /\ i # n - 1
      BY <1>3
    <3> QED BY <1>8, <3>1, <3>2
  <2> QED BY <1>3, <1>8, <2>1 DEF BelowIsWaiting
<1> QED BY <1>10, <1>11, <1>12, <1>13, <1>14 DEF IInv

-----------------------------------------------------------------------------
(* The invariant is inductive.                                             *)

(* An environment as the insert phase leaves it, and nothing asked yet. *)
LEMMA InitIInv == Init => IInv
<1> SUFFICES ASSUME Init PROVE IInv
  OBVIOUS
<1>1. TypeOK
  BY EnvironmentsAssumption DEF Init, TypeOK
<1>2. ResolvesToDeclarations /\ VisitedIsPending /\ ReachedIsDeclared /\ BelowIsWaiting
  BY DEF Init, ResolvesToDeclarations, VisitedIsPending, ReachedIsDeclared,
         BelowIsWaiting, Idle
<1> QED BY <1>1, <1>2 DEF IInv

(* A call of resolve keeps the invariant. *)
LEMMA ResolveStep ==
  ASSUME IInv, NEW q \in Queries, Resolve(q)
  PROVE  IInv'
<1>1. q.tn \in TypeNames /\ q.ctx \in Contexts
  BY QueriesAssumption
<1>2. CASE ResolveKnown(q)
  <2>1. answer' \in Answers
    BY <1>1, <1>2, AnswerIs DEF ResolveKnown
  <2> QED BY <1>2, <2>1 DEF ResolveKnown, KnownAbsolute, Answer, IInv, TypeOK,
         ResolvesToDeclarations, VisitedIsPending, ReachedIsDeclared, BelowIsWaiting, Idle, env
<1>3. CASE ResolveCached(q)
  <2>1. ScopeInterned(q.tn) \in BOOLEAN
    BY DEF ScopeInterned
  <2>2. answer' \in Answers
    BY <1>3, <2>1, AnswerIs DEF ResolveCached, IInv, TypeOK
  <2> QED BY <1>3, <2>2 DEF ResolveCached, Answer, IInv, TypeOK,
         ResolvesToDeclarations, VisitedIsPending, ReachedIsDeclared, BelowIsWaiting, Idle, env
<1>4. CASE ResolveClass(q)
  BY <1>1, <1>4, StartStep DEF ResolveClass, Miss
<1>5. CASE ResolveUnqualified(q)
  <2>1. ResolveTypeName(q.tn.name, q.ctx) \in all \cup {None}
    BY <1>1, HitIsMember DEF ResolveTypeName
  <2> QED BY <1>5, <2>1, FinishStep DEF ResolveUnqualified
<1>6. CASE ResolveQualified(q)
  <2>1. CASE Finish(q, None, FALSE)
    BY <2>1, FinishStep
  <2>2. CASE ~Finish(q, None, FALSE)
    <3>1. FrozenNsName(q.tn.ns) # None
      BY <1>6, <2>2 DEF ResolveQualified, ScopeInterned
    <3>2. FrozenNsName(q.tn.ns) \in TypeNames
      BY <3>1, FrozenIsInterned DEF FrozenNsName, IInv, TypeOK
    <3> QED BY <1>6, <2>2, <3>2, StartStep DEF ResolveQualified, Miss
  <2> QED BY <2>1, <2>2
<1> QED BY <1>2, <1>3, <1>4, <1>5, <1>6 DEF Resolve

(* Giving up, at a cycle or an unknown segment, answers None. *)
LEMMA FailStep == IInv /\ Walking /\ Fail => IInv'
<1> SUFFICES ASSUME IInv, Walking, Fail PROVE IInv'
  OBVIOUS
<1>1. query \in Queries
  BY TopFrame DEF Walking
<1> QED BY <1>1, FinishStep DEF Fail

(* The outermost frame's class, or the member it has, is a declaration. *)
LEMMA ReturnOutermost == IInv /\ (ReturnClass \/ ReturnQualified) => IInv'
<1> SUFFICES ASSUME IInv, ReturnClass \/ ReturnQualified PROVE IInv'
  OBVIOUS
<1>1. stack # <<>>
  <2>1. Len(stack) = 1
    BY DEF ReturnClass, ReturnQualified
  <2> QED BY <2>1
<1>2. query \in Queries /\ Top.acc \in all \cup {None}
  BY <1>1, TopFrame
<1>3. Member(Top.acc, query.tn.name) \in all \cup {None}
  BY DEF Member
<1> QED BY <1>2, <1>3, FinishStep DEF ReturnClass, ReturnQualified

(* A step of the walk keeps the invariant. *)
LEMMA WalkStep == IInv /\ Walk => IInv'
<1>1. StepCycle \/ StepUnknown => Walking /\ Fail
  BY DEF StepCycle, StepUnknown
<1> QED BY <1>1, DeclaredStep, AliasStep, ReturnStep, FailStep, ReturnOutermost DEF Walk

(* Interning a further name changes no declaration and no answer. *)
LEMMA InternStep ==
  ASSUME IInv, NEW tn \in uses, InternName(tn)
  PROVE  IInv'
<1>1. tn \in TypeNames /\ tn.ns \in Namespaces
  BY DEF IInv, TypeOK, TypeNames
<1>2. TypeOK'
  BY <1>1 DEF InternName, IInv, TypeOK
<1> QED BY <1>2 DEF InternName, IInv, ResolvesToDeclarations, VisitedIsPending,
               ReachedIsDeclared, BelowIsWaiting, Idle

(* Every step keeps the invariant. *)
LEMMA IInvStep == IInv /\ [Next]_vars => IInv'
<1> SUFFICES ASSUME IInv, [Next]_vars PROVE IInv'
  OBVIOUS
<1>1. ASSUME NEW q \in Queries, Resolve(q) PROVE IInv'
  BY <1>1, ResolveStep
<1>2. ASSUME NEW tn \in uses, InternName(tn) PROVE IInv'
  BY <1>2, InternStep
<1>3. CASE Walk
  BY <1>3, WalkStep
<1>4. CASE UNCHANGED vars
  BY <1>4 DEF vars, env, IInv, TypeOK, ResolvesToDeclarations, VisitedIsPending,
         ReachedIsDeclared, BelowIsWaiting, Idle
<1> QED BY <1>1, <1>2, <1>3, <1>4 DEF Next

(* The inductive invariant holds throughout. *)
THEOREM Invariance == Spec => []IInv
BY InitIInv, IInvStep, PTL DEF Spec

(* TypeOK: caches, frames and interner tables hold names of their kinds. *)
THEOREM TypeCorrect == Spec => []TypeOK
<1>1. IInv => TypeOK
  BY DEF IInv
<1> QED BY <1>1, Invariance, PTL

(* ResolvesToDeclarations: no answer, cached or not, is an alias or a name
   that was merely interned. *)
THEOREM AnswersAreDeclared == Spec => []ResolvesToDeclarations
<1>1. IInv => ResolvesToDeclarations
  BY DEF IInv
<1> QED BY <1>1, Invariance, PTL

(* VisitedIsPending: visited holds each alias being normalised once, and
   nothing between queries. *)
THEOREM VisitedIsExact == Spec => []VisitedIsPending
<1>1. IInv => VisitedIsPending
  BY DEF IInv
<1> QED BY <1>1, Invariance, PTL

-----------------------------------------------------------------------------
(* What aliases stand for.                                                 *)

\* The declarations, and what of them is interned.
WellFormed ==
  /\ all \subseteq TypeNames /\ DOMAIN aliases \subseteq TypeNames
  /\ \A a \in DOMAIN aliases : aliases[a] \in [old : TypeNames, ctx : Contexts]
  /\ IsFiniteSet(DOMAIN aliases) /\ all \cap DOMAIN aliases = {}
  /\ Declared \subseteq tns /\ tns \subseteq TypeNames
  /\ \A n \in tns : n.ns \in nss

\* What a name may lead to, and what aliases may be taken to stand for.
Meant     == all \cup {None}
Solutions == [DOMAIN aliases -> Meant]

\* Where t has an answer, u has the same.
Less(t, u) == \A a \in DOMAIN aliases : t[a] # None => u[a] = t[a]

Way(t, tn, ctx) == Reached(all, t, tn, ctx)

(* A path has a first segment. *)
LEMMA SegmentsAre ==
  ASSUME NEW tn \in TypeNames
  PROVE  /\ Segments(tn) \in Seq(Symbols) /\ Len(tn.ns.path) \in Nat
         /\ Len(Segments(tn)) = Len(tn.ns.path) + 1 /\ Head(Segments(tn)) = Segments(tn)[1]
<1>1. tn.ns.path \in Seq(Symbols) /\ tn.name \in Symbols
  BY DEF TypeNames, Namespaces
<1>2. PICK path \in Seq(Symbols) : path = tn.ns.path
  BY <1>1
<1>3. PICK x \in Symbols : x = tn.name
  BY <1>1
<1> DEFINE s == Append(path, x)
<1>4. s \in Seq(Symbols) /\ Len(s) = Len(path) + 1 /\ Len(path) \in Nat
  BY AppendProperties
<1>5. Head(s) = s[1]
  <2> HIDE DEF s
  <2> QED BY <1>4
<1> QED BY <1>2, <1>3, <1>4, <1>5 DEF Segments

(* A name leads to a declaration or to nothing. *)
LEMMA ThroughIsMeant ==
  ASSUME NEW t \in Solutions, NEW n
  PROVE  Through(all, t, n) \in Meant
BY DEF Through, Solutions, Meant

(* The recursive function in Reached exists. *)
LEMMA WayIs ==
  ASSUME NEW t \in Solutions, NEW tn \in TypeNames, NEW ctx
  PROVE  /\ Way(t, tn, ctx) \in [0 .. Len(tn.ns.path) -> Meant]
         /\ Way(t, tn, ctx)[0] = Through(all, t, FirstOf(Declared, tn, ctx))
         /\ \A i \in 1 .. Len(tn.ns.path) :
              Way(t, tn, ctx)[i] =
                IF Way(t, tn, ctx)[i - 1] = None THEN None
                ELSE Through(all, t, Tn(ToNamespace(Way(t, tn, ctx)[i - 1]), Segments(tn)[i + 1]))
<1>1. PICK n \in Nat : n = Len(tn.ns.path)
  BY SegmentsAre
<1> DEFINE base == Through(all, t, FirstOf(all \cup DOMAIN t, tn, ctx))
           On(m, i) == IF m = None THEN None ELSE Through(all, t, Tn(ToNamespace(m), Segments(tn)[i + 1]))
           Val(f, i) == IF i = 0 THEN base ELSE On(f[i - 1], i)
           way == CHOOSE f : f = [i \in 0 .. n |-> Val(f, i)]
           Op == [p \in Meant \X (1 .. n) |-> On(p[1], p[2])]
<1>2. base \in Meant /\ \A m, i : On(m, i) \in Meant
  BY ThroughIsMeant DEF Meant
<1>3. Way(t, tn, ctx) = way
  BY <1>1 DEF Way, Reached
<1>4. Op \in Operations(Meant, n)
  <2> HIDE DEF On
  <2> QED BY <1>2 DEF Operations
<1>5. PICK g : Iteration(Meant, base, n, Op, g)
  <2> HIDE DEF base, Op
  <2> QED BY <1>2, <1>4, Iterates
<1>6. ASSUME NEW i \in 1 .. n PROVE g[i] = On(g[i - 1], i)
  <2>1. i - 1 \in 0 .. n
    BY <1>1
  <2>2. <<g[i - 1], i>> \in Meant \X (1 .. n)
    BY <1>5, <2>1 DEF Iteration
  <2> HIDE DEF On
  <2> QED BY <1>5, <2>2 DEF Iteration
<1>7. g = [i \in 0 .. n |-> Val(g, i)]
  <2>1. \A i \in 0 .. n : g[i] = Val(g, i)
    <3> HIDE DEF On, base
    <3>1. \A i \in 0 .. n : i = 0 \/ i \in 1 .. n
      BY <1>1
    <3> QED BY <1>5, <1>6, <3>1 DEF Iteration
  <2>2. g \in [0 .. n -> Meant]
    BY <1>5 DEF Iteration
  <2> HIDE DEF Val
  <2> QED BY <2>1, <2>2
<1>8. way = [i \in 0 .. n |-> Val(way, i)]
  <2> HIDE DEF Val
  <2> QED BY <1>7
<1> HIDE DEF way
<1>9. /\ \A i \in 0 .. n : way[i] \in Meant
      /\ way[0] = base /\ \A i \in 1 .. n : way[i] = On(way[i - 1], i)
  <2>1. \A i \in 0 .. n : way[i] = Val(way, i)
    <3> HIDE DEF Val
    <3> QED BY <1>8
  <2> HIDE DEF On, base
  <2>2. 0 \in 0 .. n /\ \A i \in 1 .. n : i \in 0 .. n /\ i # 0
    BY <1>1
  <2> QED BY <1>2, <2>1, <2>2
<1>10. way \in [0 .. n -> Meant]
  <2> HIDE DEF Val
  <2> QED BY <1>8, <1>9
<1>11. base = Through(all, t, FirstOf(Declared, tn, ctx))
  BY DEF Declared, Solutions
<1> HIDE DEF base
<1> QED BY <1>1, <1>3, <1>9, <1>10, <1>11

(* A path that leads somewhere leads somewhere with every segment. *)
LEMMA WayOn ==
  ASSUME NEW t \in Solutions, NEW tn \in TypeNames, NEW ctx, Follow(all, t, tn, ctx) # None
  PROVE  \A i \in 0 .. Len(tn.ns.path) : Way(t, tn, ctx)[i] # None
<1>1. PICK n \in Nat : n = Len(tn.ns.path)
  BY SegmentsAre
<1> DEFINE w == Way(t, tn, ctx)
           F == {i \in 0 .. n : w[i] = None}
<1>2. w[n] # None
  BY <1>1 DEF Follow, Way
<1>3. \A i \in 1 .. n : w[i - 1] = None => w[i] = None
  BY <1>1, WayIs
<1> HIDE DEF w
<1>4. ASSUME F # {} PROVE FALSE
  <2>1. F \in SUBSET (0 .. n)
    OBVIOUS
  <2>2. PICK i \in F : \A j \in F : j <= i
    <3> HIDE DEF F
    <3> QED BY <1>4, <2>1, Greatest
  <2>3. i \in 0 .. n /\ i # n /\ w[i] = None
    BY <1>2, <2>2
  <2>4. i + 1 \in 1 .. n /\ i + 1 - 1 = i
    BY <2>3
  <2>5. w[i + 1] = None
    BY <1>3, <2>3, <2>4
  <2>6. i + 1 \in F /\ ~(i + 1 <= i)
    BY <2>3, <2>4, <2>5
  <2> QED BY <2>2, <2>6
<1> QED BY <1>1, <1>4 DEF w

(* With more aliases known a path leads further, and nowhere else. *)
LEMMA WayGrows ==
  ASSUME NEW t \in Solutions, NEW u \in Solutions, Less(t, u), NEW tn \in TypeNames, NEW ctx
  PROVE  \A i \in 0 .. Len(tn.ns.path) :
           Way(t, tn, ctx)[i] # None => Way(u, tn, ctx)[i] = Way(t, tn, ctx)[i]
<1>1. PICK n \in Nat : n = Len(tn.ns.path)
  BY SegmentsAre
<1>2. \A m : Through(all, t, m) # None => Through(all, u, m) = Through(all, t, m)
  BY DEF Through, Less, Solutions
<1> DEFINE v == Way(t, tn, ctx)
           w == Way(u, tn, ctx)
           Ahead(m, i) == Tn(ToNamespace(m), Segments(tn)[i + 1])
           A == {i \in 0 .. n : v[i] # None => w[i] = v[i]}
<1>3. /\ v[0] = Through(all, t, FirstOf(Declared, tn, ctx))
      /\ \A i \in 1 .. n : v[i] = IF v[i - 1] = None THEN None ELSE Through(all, t, Ahead(v[i - 1], i))
  BY <1>1, WayIs
<1>4. /\ w[0] = Through(all, u, FirstOf(Declared, tn, ctx))
      /\ \A i \in 1 .. n : w[i] = IF w[i - 1] = None THEN None ELSE Through(all, u, Ahead(w[i - 1], i))
  BY <1>1, WayIs
<1> HIDE DEF v, w, Ahead
<1>5. 0 \in A
  BY <1>2, <1>3, <1>4
<1>6. ASSUME NEW i \in 0 .. n, i # n, i \in A PROVE i + 1 \in A
  <2>1. i + 1 \in 1 .. n /\ i + 1 - 1 = i
    BY <1>6
  <2>2. v[i + 1] = IF v[i] = None THEN None ELSE Through(all, t, Ahead(v[i], i + 1))
    BY <1>3, <2>1
  <2>3. w[i + 1] = IF w[i] = None THEN None ELSE Through(all, u, Ahead(w[i], i + 1))
    BY <1>4, <2>1
  <2>4. v[i + 1] # None => w[i + 1] = v[i + 1]
    BY <1>2, <1>6, <2>2, <2>3
  <2> QED BY <2>1, <2>4
<1>7. 0 .. n \subseteq A
  <2> HIDE DEF A
  <2> QED BY <1>5, <1>6, UpTo
<1> QED BY <1>1, <1>7 DEF v, w

(* What the whole of a path leads to. *)
LEMMA FollowIs ==
  ASSUME NEW t \in Solutions, NEW tn \in TypeNames, NEW ctx
  PROVE  /\ Follow(all, t, tn, ctx) = Way(t, tn, ctx)[Len(tn.ns.path)]
         /\ Follow(all, t, tn, ctx) \in Meant
<1>1. PICK n \in Nat : n = Len(tn.ns.path)
  BY SegmentsAre
<1>2. Way(t, tn, ctx) \in [0 .. n -> Meant] /\ n \in 0 .. n
  BY <1>1, WayIs
<1>3. Follow(all, t, tn, ctx) = Way(t, tn, ctx)[n]
  BY <1>1 DEF Follow, Way
<1> QED BY <1>1, <1>2, <1>3

(* With more aliases known a whole path leads further, and nowhere else. *)
LEMMA FollowGrows ==
  ASSUME NEW t \in Solutions, NEW u \in Solutions, Less(t, u), NEW tn \in TypeNames, NEW ctx,
         Follow(all, t, tn, ctx) # None
  PROVE  Follow(all, u, tn, ctx) = Follow(all, t, tn, ctx)
<1>1. Len(tn.ns.path) \in 0 .. Len(tn.ns.path)
  BY SegmentsAre
<1> QED BY <1>1, FollowIs, WayGrows

-----------------------------------------------------------------------------
(* The rounds that find what the aliases stand for.                        *)

Raised(t) == Better(all, aliases, t)
Round     == Rounds(all, aliases)
Final     == Cardinality(DOMAIN aliases)
Stands    == Targets(all, aliases)

(* A round gives each alias what its right-hand side leads to. *)
LEMMA RaisedIs ==
  ASSUME WellFormed, NEW t \in Solutions
  PROVE  /\ Raised(t) \in Solutions
         /\ \A a \in DOMAIN aliases :
              Raised(t)[a] = Follow(all, t, aliases[a].old, aliases[a].ctx)
<1>1. \A a \in DOMAIN aliases : aliases[a].old \in TypeNames
  BY DEF WellFormed
<1>2. \A a \in DOMAIN aliases : Follow(all, t, aliases[a].old, aliases[a].ctx) \in Meant
  BY <1>1, FollowIs
<1> QED BY <1>2 DEF Raised, Better, Solutions

(* A round that knows more finds more. *)
LEMMA RaisedGrows ==
  ASSUME WellFormed, NEW t \in Solutions, NEW u \in Solutions, Less(t, u)
  PROVE  Less(Raised(t), Raised(u))
<1> SUFFICES ASSUME NEW a \in DOMAIN aliases, Raised(t)[a] # None
             PROVE  Raised(u)[a] = Raised(t)[a]
  BY DEF Less
<1>1. aliases[a].old \in TypeNames
  BY DEF WellFormed
<1> QED BY <1>1, RaisedIs, FollowGrows

(* The recursive function in Rounds exists. *)
LEMMA RoundIs ==
  ASSUME WellFormed
  PROVE  /\ Final \in Nat /\ Round \in [0 .. Final -> Solutions]
         /\ \A a \in DOMAIN aliases : Round[0][a] = None
         /\ \A k \in 1 .. Final : Round[k] = Raised(Round[k - 1])
<1>1. PICK n \in Nat : n = Final
  BY FS_CardinalityType DEF WellFormed, Final
<1> DEFINE base == [a \in DOMAIN aliases |-> None]
           Val(f, k) == IF k = 0 THEN base ELSE Raised(f[k - 1])
           round == CHOOSE f : f = [k \in 0 .. n |-> Val(f, k)]
           Op == [p \in Solutions \X (1 .. n) |-> Raised(p[1])]
<1>2. base \in Solutions /\ \A t \in Solutions : Raised(t) \in Solutions
  BY RaisedIs DEF Solutions, Meant
<1>3. Round = round
  BY <1>1 DEF Round, Rounds, Final, Raised
<1>4. Op \in Operations(Solutions, n)
  BY <1>2 DEF Operations
<1>5. PICK g : Iteration(Solutions, base, n, Op, g)
  <2> HIDE DEF base, Op
  <2> QED BY <1>2, <1>4, Iterates
<1>6. ASSUME NEW k \in 1 .. n PROVE g[k] = Raised(g[k - 1])
  <2>1. k - 1 \in 0 .. n
    BY <1>1
  <2>2. <<g[k - 1], k>> \in Solutions \X (1 .. n)
    BY <1>5, <2>1 DEF Iteration
  <2> QED BY <1>5, <2>2 DEF Iteration
<1> HIDE DEF base
<1>7. g = [k \in 0 .. n |-> Val(g, k)]
  <2>1. \A k \in 0 .. n : k = 0 \/ k \in 1 .. n
    BY <1>1
  <2>2. \A k \in 0 .. n : g[k] = Val(g, k)
    BY <1>5, <1>6, <2>1 DEF Iteration
  <2>3. g \in [0 .. n -> Solutions]
    BY <1>5 DEF Iteration
  <2> HIDE DEF Val
  <2> QED BY <2>2, <2>3
<1>8. round = [k \in 0 .. n |-> Val(round, k)]
  <2> HIDE DEF Val
  <2> QED BY <1>7
<1> HIDE DEF round
<1>9. \A k \in 0 .. n : round[k] = Val(round, k)
  <2> HIDE DEF Val
  <2> QED BY <1>8
<1>10. round[0] = base /\ \A k \in 1 .. n : round[k] = Raised(round[k - 1])
  <2>1. 0 \in 0 .. n /\ \A k \in 1 .. n : k \in 0 .. n /\ k # 0
    BY <1>1
  <2> QED BY <1>9, <2>1
<1>11. ASSUME NEW k \in 0 .. n PROVE round[k] \in Solutions
  <2> DEFINE A == {i \in 0 .. n : round[i] \in Solutions}
  <2>1. 0 \in A
    BY <1>2, <1>10
  <2>2. ASSUME NEW i \in 0 .. n, i # n, i \in A PROVE i + 1 \in A
    <3>1. i + 1 \in 1 .. n /\ i + 1 \in 0 .. n /\ i + 1 - 1 = i
      BY <2>2
    <3> QED BY <1>2, <1>10, <2>2, <3>1
  <2>3. 0 .. n \subseteq A
    <3> HIDE DEF A
    <3> QED BY <2>1, <2>2, UpTo
  <2> QED BY <2>3
<1>12. round \in [0 .. n -> Solutions]
  <2> HIDE DEF Val
  <2> QED BY <1>8, <1>11
<1> QED BY <1>1, <1>3, <1>10, <1>12 DEF base

(* No round takes an answer back. *)
LEMMA RoundGrows ==
  ASSUME WellFormed
  PROVE  \A k \in 0 .. Final : Less(Round[k], Raised(Round[k]))
<1>1. PICK n \in Nat : n = Final
  BY RoundIs
<1> DEFINE A == {k \in 0 .. n : Less(Round[k], Raised(Round[k]))}
<1>2. 0 \in A
  BY <1>1, RoundIs DEF Less
<1>3. ASSUME NEW k \in 0 .. n, k # n, k \in A PROVE k + 1 \in A
  <2>1. k + 1 \in 1 .. n /\ k + 1 \in 0 .. n /\ k + 1 - 1 = k
    BY <1>3
  <2>2. Round[k] \in Solutions /\ Round[k + 1] \in Solutions /\ Round[k + 1] = Raised(Round[k])
    BY <1>1, <2>1, RoundIs
  <2>3. Less(Round[k + 1], Raised(Round[k + 1]))
    BY <1>3, <2>2, RaisedGrows
  <2> QED BY <2>1, <2>3
<1>4. 0 .. n \subseteq A
  <2> HIDE DEF A
  <2> QED BY <1>2, <1>3, UpTo
<1> QED BY <1>1, <1>4

(* The last round is what Scoping takes aliases to stand for. *)
LEMMA StandsIs ==
  ASSUME WellFormed
  PROVE  Stands = Round[Final] /\ Stands \in Solutions /\ Less(Stands, Raised(Stands))
<1>1. Final \in 0 .. Final /\ Stands = Round[Final]
  BY RoundIs DEF Stands, Targets, Round, Final
<1> QED BY <1>1, RoundIs, RoundGrows

(* A round either changes nothing, and then no later one does, or finds what
   one more alias stands for: after a round per alias nothing is left to find. *)
LEMMA Settles ==
  ASSUME WellFormed
  PROVE  Raised(Stands) = Stands
<1>1. PICK n \in Nat : n = Final
  BY RoundIs
<1> DEFINE Known(k) == {a \in DOMAIN aliases : Round[k][a] # None}
           A == {k \in 0 .. n : Raised(Round[k]) = Round[k] \/ Cardinality(Known(k)) >= k}
<1>2. ASSUME NEW k \in 0 .. n PROVE /\ IsFiniteSet(Known(k)) /\ Cardinality(Known(k)) \in Nat
                                    /\ Cardinality(Known(k)) <= n
                                    /\ Cardinality(Known(k)) = n => Known(k) = DOMAIN aliases
  <2>1. Known(k) \subseteq DOMAIN aliases
    OBVIOUS
  <2> HIDE DEF Known
  <2> QED BY <1>1, <2>1, FS_Subset, FS_CardinalityType DEF WellFormed, Final
<1>3. ASSUME NEW k \in 0 .. n, Raised(Round[k]) # Round[k]
      PROVE  \E a \in DOMAIN aliases : Round[k][a] = None /\ Raised(Round[k])[a] # None
  <2>1. Round[k] \in Solutions /\ Raised(Round[k]) \in Solutions /\ Less(Round[k], Raised(Round[k]))
    BY <1>1, RoundIs, RaisedIs, RoundGrows
  <2>2. PICK a \in DOMAIN aliases : Raised(Round[k])[a] # Round[k][a]
    BY <1>3, <2>1 DEF Solutions
  <2> QED BY <2>1, <2>2 DEF Less
<1>4. 0 \in A
  <2>1. 0 \in 0 .. n
    OBVIOUS
  <2>2. Cardinality(Known(0)) >= 0
    <3> HIDE DEF Known
    <3> QED BY <1>2, <2>1
  <2> QED BY <2>1, <2>2
<1>5. ASSUME NEW k \in 0 .. n, k # n, k \in A PROVE k + 1 \in A
  <2>1. k + 1 \in 1 .. n /\ k + 1 \in 0 .. n /\ k + 1 - 1 = k
    BY <1>5
  <2>2. Round[k + 1] = Raised(Round[k])
    BY <1>1, <2>1, RoundIs
  <2>3. CASE Raised(Round[k]) = Round[k]
    BY <2>1, <2>2, <2>3
  <2>4. CASE Raised(Round[k]) # Round[k]
    <3>1. PICK a \in DOMAIN aliases : Round[k][a] = None /\ Raised(Round[k])[a] # None
      BY <1>3, <2>4
    <3>2. Known(k) \subseteq Known(k + 1)
      BY <1>1, <2>2, RoundGrows DEF Less
    <3>3. a \in Known(k + 1) /\ a \notin Known(k)
      BY <2>2, <3>1
    <3>4. Cardinality(Known(k)) >= k
      BY <1>5, <2>4
    <3> HIDE DEF Known
    <3>5. Cardinality(Known(k) \cup {a}) = Cardinality(Known(k)) + 1
      BY <1>2, <3>3, FS_AddElement
    <3>6. Cardinality(Known(k) \cup {a}) <= Cardinality(Known(k + 1))
      <4>1. Known(k) \cup {a} \subseteq Known(k + 1)
        BY <3>2, <3>3
      <4> QED BY <1>2, <2>1, <4>1, FS_Subset
    <3>7. Cardinality(Known(k + 1)) \in Nat /\ Cardinality(Known(k)) \in Nat
      BY <1>2, <2>1
    <3> QED BY <2>1, <3>4, <3>5, <3>6, <3>7
  <2> QED BY <2>3, <2>4
<1>6. n \in A
  <2>1. 0 .. n \subseteq A
    <3> HIDE DEF A
    <3> QED BY <1>4, <1>5, UpTo
  <2> QED BY <2>1
<1>7. ASSUME Raised(Round[n]) # Round[n] PROVE FALSE
  <2>1. Cardinality(Known(n)) >= n /\ n \in 0 .. n
    BY <1>6, <1>7
  <2>2. Known(n) = DOMAIN aliases
    <3> HIDE DEF Known
    <3>1. Cardinality(Known(n)) <= n /\ Cardinality(Known(n)) \in Nat
      BY <1>2, <2>1
    <3> QED BY <1>2, <2>1, <3>1
  <2> QED BY <1>3, <1>7, <2>1, <2>2
<1> QED BY <1>1, <1>7, StandsIs

(* What an alias stands for is what its right-hand side leads to. *)
LEMMA StandsFor ==
  ASSUME WellFormed, NEW a \in DOMAIN aliases
  PROVE  Stands[a] = Follow(all, Stands, aliases[a].old, aliases[a].ctx)
BY Settles, StandsIs, RaisedIs

(* Every round answers what the last one does, or nothing. *)
LEMMA RoundBelowStands ==
  ASSUME WellFormed
  PROVE  \A k \in 0 .. Final : Round[k] \in Solutions /\ Less(Round[k], Stands)
<1>1. PICK n \in Nat : n = Final
  BY RoundIs
<1>2. \A k \in 0 .. n : Round[k] \in Solutions
  BY <1>1, RoundIs
<1> DEFINE F == {k \in 0 .. n : ~Less(Round[k], Stands)}
<1>3. ASSUME F # {} PROVE FALSE
  <2>1. F \in SUBSET (0 .. n)
    OBVIOUS
  <2>2. PICK k \in F : \A j \in F : j <= k
    <3> HIDE DEF F
    <3> QED BY <1>3, <2>1, Greatest
  <2>3. k \in 0 .. n /\ ~Less(Round[k], Stands)
    BY <2>2
  <2>4. k # n
    BY <1>1, <2>3, StandsIs DEF Less
  <2>5. k + 1 \in 1 .. n /\ k + 1 \in 0 .. n /\ k + 1 - 1 = k
    BY <2>3, <2>4
  <2>6. Less(Round[k + 1], Stands)
    BY <2>2, <2>5
  <2>7. Round[k + 1] = Raised(Round[k]) /\ Less(Round[k], Raised(Round[k]))
    BY <1>1, <2>3, <2>5, RoundIs, RoundGrows
  <2> QED BY <2>3, <2>6, <2>7 DEF Less
<1> QED BY <1>1, <1>2, <1>3

-----------------------------------------------------------------------------
(* The lookups through the frozen tables find what is declared.            *)

(* The namespace of a name's members is one. *)
LEMMA ToNamespaceIs ==
  ASSUME NEW tn \in TypeNames
  PROVE  ToNamespace(tn) \in Namespaces
<1>1. tn.ns.path \in Seq(Symbols) /\ tn.name \in Symbols /\ tn.ns.abs \in BOOLEAN
  BY DEF TypeNames, Namespaces
<1>2. Append(tn.ns.path, tn.name) \in Seq(Symbols)
  BY <1>1, AppendProperties
<1> HIDE DEF Namespaces
<1> QED BY <1>1, <1>2 DEF ToNamespace, Ns, Namespaces

\* The namespace a name in the scope of the j outermost elements of ctx has.
Under(ctx, j) == IF j = 0 THEN RootAbsolute ELSE ToNamespace(ctx[j])

(* Scopes are namespaces. *)
LEMMA UnderIs ==
  ASSUME NEW ctx \in Contexts, NEW j \in 0 .. Len(ctx)
  PROVE  Under(ctx, j) \in Namespaces
<1>1. RootAbsolute \in Namespaces
  BY DEF RootAbsolute, Ns, Namespaces
<1>2. j # 0 => ctx[j] \in TypeNames
  BY DEF Contexts
<1> QED BY <1>1, <1>2, ToNamespaceIs DEF Under

(* The i-th scope searched is the one of all but i - 1 elements of the context. *)
LEMMA ScopesAre ==
  ASSUME NEW ctx \in Contexts
  PROVE  /\ Len(ctx) \in Nat /\ DOMAIN ScopesOf(ctx) = 1 .. Len(ctx) + 1
         /\ \A i \in 1 .. Len(ctx) + 1 : ScopesOf(ctx)[i] = Under(ctx, Len(ctx) + 1 - i)
<1>1. PICK n \in Nat : n = Len(ctx)
  BY DEF Contexts
<1>2. ASSUME NEW i \in 1 .. n + 1 PROVE Scope(SubSeq(ctx, 1, n + 1 - i)) = Under(ctx, n + 1 - i)
  <2>1. n + 1 - i \in 0 .. n
    BY <1>2
  <2> DEFINE s == SubSeq(ctx, 1, n + 1 - i)
  <2>2. s \in Seq(TypeNames) /\ Len(s) = n + 1 - i /\ \A j \in 1 .. n + 1 - i : s[j] = ctx[j]
    <3>1. ctx \in Seq(TypeNames) /\ \A j \in 1 .. n + 1 - i : ctx[j] \in TypeNames
      BY <1>1, <2>1 DEF Contexts
    <3> QED BY <1>1, <2>1, <3>1, SubSeqProperties
  <2> HIDE DEF s
  <2>3. s = <<>> <=> n + 1 - i = 0
    BY <2>2
  <2>4. n + 1 - i # 0 => s[Len(s)] = ctx[n + 1 - i]
    BY <2>1, <2>2
  <2>5. Scope(s) = Under(ctx, n + 1 - i)
    BY <2>3, <2>4 DEF Scope, Under
  <2> QED BY <2>5 DEF s
<1> QED BY <1>1, <1>2 DEF ScopesOf

(* Names are looked up in the frozen tables as if all were interned. *)
LEMMA FrozenFinds ==
  ASSUME WellFormed, NEW ns \in Namespaces, NEW name, NEW hit, hit \subseteq tns,
         NEW found, found = ns \/ found = FrozenNs(ns)
  PROVE  /\ FrozenTn(found, name) \in hit <=> Tn(ns, name) \in hit
         /\ FrozenTn(found, name) \in hit => FrozenTn(found, name) = Tn(ns, name)
<1>1. None \notin hit /\ ns # None
  BY NoneAssumption DEF WellFormed
<1>2. ASSUME Tn(ns, name) \in hit PROVE FrozenTn(found, name) = Tn(ns, name)
  <2>1. Tn(ns, name) \in tns /\ Tn(ns, name).ns = ns
    BY <1>2 DEF Tn
  <2>2. ns \in nss
    BY <2>1 DEF WellFormed
  <2> QED BY <1>1, <2>1, <2>2 DEF FrozenTn, FrozenNs
<1>3. ASSUME FrozenTn(found, name) \in hit PROVE FrozenTn(found, name) = Tn(ns, name)
  BY <1>1, <1>3 DEF FrozenTn, FrozenNs
<1> QED BY <1>2, <1>3

(* The scope search is the reference's, from the other end. *)
LEMMA HitIsInnermost ==
  ASSUME WellFormed, NEW name, NEW ctx \in Contexts, NEW hit, hit \subseteq tns
  PROVE  InnermostHit(name, ctx, hit) = Innermost(name, ctx, hit)
<1>1. PICK n \in Nat : n = Len(ctx)
  BY ScopesAre
<1> DEFINE frozen(j) == FrozenTn(ScopeAt(ctx, j), name)
           found == {j \in 0 .. n : frozen(j) \in hit}
           scopes == ScopesOf(ctx)
           hits == {i \in DOMAIN scopes : Tn(scopes[i], name) \in hit}
           named(j) == Tn(Under(ctx, j), name)
           last == CHOOSE j \in found : \A k \in found : k <= j
           first == CHOOSE i \in hits : \A k \in hits : i <= k
<1>2. ASSUME NEW j \in 0 .. n
      PROVE  /\ frozen(j) \in hit <=> named(j) \in hit
             /\ frozen(j) \in hit => frozen(j) = named(j)
  <2>1. Under(ctx, j) \in Namespaces
    BY <1>1, UnderIs
  <2>2. ScopeAt(ctx, j) = Under(ctx, j) \/ ScopeAt(ctx, j) = FrozenNs(Under(ctx, j))
    BY DEF ScopeAt, Under, FrozenToNamespace
  <2> QED BY <2>1, <2>2, FrozenFinds
<1>3. DOMAIN scopes = 1 .. n + 1 /\ \A i \in 1 .. n + 1 : Tn(scopes[i], name) = named(n + 1 - i)
  BY <1>1, ScopesAre
<1>4. InnermostHit(name, ctx, hit) = IF found = {} THEN None ELSE frozen(last)
  BY <1>1 DEF InnermostHit
<1>5. Innermost(name, ctx, hit) = IF hits = {} THEN None ELSE Tn(scopes[first], name)
  BY DEF Innermost
<1> HIDE DEF frozen, named, scopes
<1>6. /\ \A j \in found : n + 1 - j \in hits /\ j \in 0 .. n
      /\ \A i \in hits : n + 1 - i \in found /\ i \in 1 .. n + 1
  <2>1. \A j \in 0 .. n : n + 1 - j \in 1 .. n + 1 /\ n + 1 - (n + 1 - j) = j
    OBVIOUS
  <2>2. \A i \in 1 .. n + 1 : n + 1 - i \in 0 .. n
    OBVIOUS
  <2> QED BY <1>2, <1>3, <2>1, <2>2
<1>7. CASE found = {}
  BY <1>4, <1>5, <1>6, <1>7
<1>8. CASE found # {}
  <2>1. \E j \in found : \A k \in found : k <= j
    <3>1. found \in SUBSET (0 .. n)
      OBVIOUS
    <3> HIDE DEF found
    <3> QED BY <1>8, <3>1, Greatest
  <2>2. last \in found /\ \A k \in found : k <= last
    <3> HIDE DEF found
    <3> QED BY <2>1
  <2>3. n + 1 - last \in hits /\ \A k \in hits : n + 1 - last <= k
    <3>1. \A k \in hits : n + 1 - k <= last /\ k \in 1 .. n + 1 /\ last \in 0 .. n
      <4> HIDE DEF found, hits, last
      <4> QED BY <1>6, <2>2
    <3>2. \A k \in hits : n + 1 - last <= k
      <4> HIDE DEF found, hits, last
      <4> QED BY <3>1
    <3> HIDE DEF found, hits, last
    <3> QED BY <1>6, <2>2, <3>2
  <2> HIDE DEF found, hits, last
  <2>4. first \in hits /\ \A k \in hits : first <= k
    BY <2>3
  <2> HIDE DEF first
  <2>5. last \in 0 .. n /\ first \in 1 .. n + 1
    BY <1>6, <2>2, <2>4
  <2>6. first = n + 1 - last
    <3>1. first <= n + 1 - last /\ n + 1 - last <= first
      BY <2>3, <2>4
    <3> QED BY <2>5, <3>1
  <2>7. n + 1 - first = last
    BY <2>5, <2>6
  <2>8. Tn(scopes[first], name) = named(last)
    BY <1>3, <2>5, <2>7
  <2>9. frozen(last) = named(last)
    BY <1>2, <2>2, <2>5 DEF found
  <2> QED BY <1>4, <1>5, <1>8, <2>3, <2>8, <2>9
<1> QED BY <1>7, <1>8

\* What the segment a frame has come to names.
Ahead(f) ==
  IF f.acc = None THEN FirstOf(Declared, f.tn, f.ctx)
  ELSE Tn(ToNamespace(f.acc), Head(f.todo))

(* Where the code or Scoping finds a declaration, they find the same. *)
LEMMA CandidateIs ==
  ASSUME WellFormed, NEW f \in Frames
  PROVE  Candidate(f) \in Declared \/ Ahead(f) \in Declared => Candidate(f) = Ahead(f)
<1>1. f.tn \in TypeNames /\ f.ctx \in Contexts /\ f.acc \in TypeNames \cup {None}
  BY DEF Frames
<1>2. CASE f.acc = None
  <2>1. Head(Segments(f.tn)) = Segments(f.tn)[1]
    BY <1>1, SegmentsAre
  <2>2. <<>> \in Contexts
    BY DEF Contexts
  <2>3. Declared \subseteq tns
    BY DEF WellFormed
  <2>4. ResolveHead(f.tn, f.ctx) = FirstOf(Declared, f.tn, f.ctx)
    BY <1>1, <2>1, <2>2, <2>3, HitIsInnermost DEF ResolveHead, FirstOf
  <2> QED BY <1>2, <2>4 DEF Candidate, Ahead
<1>3. CASE f.acc # None
  <2>1. ToNamespace(f.acc) \in Namespaces
    BY <1>1, <1>3, ToNamespaceIs
  <2>2. Declared \subseteq tns
    BY DEF WellFormed
  <2> QED BY <1>3, <2>1, <2>2, FrozenFinds DEF Candidate, Ahead, FrozenToNamespace
<1> QED BY <1>2, <1>3

-----------------------------------------------------------------------------
(* What the frames stand for.                                              *)

\* The number of segments a frame has walked.
Done(f) == Len(Segments(f.tn)) - Len(f.todo)

\* A frame has come to what the segments before todo lead to.
OnTheWay(f) ==
  /\ Done(f) \in Nat
  /\ \A i \in 1 .. Len(f.todo) : f.todo[i] = Segments(f.tn)[Done(f) + i]
  /\ IF Done(f) = 0 THEN f.acc = None
     ELSE f.acc # None /\ f.acc = Way(Stands, f.tn, f.ctx)[Done(f) - 1]

\* The frame g normalises the alias that f has come to.
Awaits(f, g) ==
  /\ g.alias = Ahead(f) /\ g.alias \in DOMAIN aliases
  /\ g.tn = aliases[g.alias].old /\ g.ctx = aliases[g.alias].ctx

\* The outermost frame walks the class path of its query.
Starts(q, f) ==
  /\ ~KnownAbsolute(q.tn) /\ f.ctx = q.ctx
  /\ IF KindOf(q.tn) = "Class" THEN f.tn = q.tn
     ELSE q.tn.ns.path # <<>> /\ f.tn = ToTypeName(q.tn.ns)

FramesLead ==
  /\ \A i \in DOMAIN stack : OnTheWay(stack[i])
  /\ \A i \in 1 .. Len(stack) - 1 : Awaits(stack[i], stack[i + 1])
  /\ stack # <<>> => Starts(query, stack[1])

\* What may be answered, and what may be answered again.
Right(q, result)     == result = Meaning(q)
Forgivable(q, result) == Right(q, result) \/ (result = None /\ Qualified(q.tn))

AnswersRight ==
  /\ \A q \in DOMAIN cache : Forgivable(q, cache[q])
  /\ answer # None =>
       \/ Right(answer.query, answer.result)
       \/ /\ answer.result = None /\ Qualified(answer.query.tn)
          /\ answer.cached \/ ~answer.found

WInv == IInv /\ WellFormed /\ FramesLead /\ AnswersRight

-----------------------------------------------------------------------------
(* A frame leads where its class path leads.                               *)

(* What of a frame the lemmas below need. *)
LEMMA FrameIs ==
  ASSUME NEW f \in Frames, OnTheWay(f)
  PROVE  /\ f.tn \in TypeNames /\ Segments(f.tn) \in Seq(Symbols)
         /\ Len(f.tn.ns.path) \in Nat /\ Len(Segments(f.tn)) = Len(f.tn.ns.path) + 1
         /\ f.todo \in Seq(Symbols) /\ Len(f.todo) \in Nat /\ Done(f) \in Nat
         /\ Len(f.todo) + Done(f) = Len(f.tn.ns.path) + 1
         /\ f.todo # <<>> => /\ Head(f.todo) = Segments(f.tn)[Done(f) + 1]
                             /\ Done(f) \in 0 .. Len(f.tn.ns.path)
<1>1. f.tn \in TypeNames /\ f.todo \in Seq(Symbols)
  BY DEF Frames
<1>2. PICK s \in Seq(Symbols) : s = Segments(f.tn)
  BY <1>1, SegmentsAre
<1>3. PICK todo \in Seq(Symbols) : todo = f.todo
  BY <1>1
<1>4. PICK n \in Nat : n = Len(f.tn.ns.path) /\ Len(s) = n + 1
  BY <1>1, <1>2, SegmentsAre
<1>5. Len(todo) \in Nat /\ Done(f) = Len(s) - Len(todo) /\ Done(f) \in Nat
  BY <1>2, <1>3 DEF OnTheWay, Done
<1>6. ASSUME todo # <<>>
      PROVE  Head(todo) = s[Done(f) + 1] /\ Done(f) \in 0 .. n
  <2>1. Len(todo) >= 1 /\ 1 \in 1 .. Len(todo) /\ Head(todo) = todo[1]
    BY <1>6
  <2>2. todo[1] = s[Done(f) + 1]
    BY <1>2, <1>3, <2>1 DEF OnTheWay
  <2> QED BY <1>4, <1>5, <2>1, <2>2
<1>7. Len(todo) + Done(f) = n + 1
  BY <1>4, <1>5
<1>8. f.todo # <<>> => Head(f.todo) = Segments(f.tn)[Done(f) + 1] /\ Done(f) \in 0 .. n
  BY <1>2, <1>3, <1>6
<1> HIDE DEF Done
<1> QED BY <1>1, <1>2, <1>3, <1>4, <1>5, <1>7, <1>8

(* The next segment leads to what Ahead stands for. *)
LEMMA NextOnTheWay ==
  ASSUME WellFormed, NEW f \in Frames, OnTheWay(f), f.todo # <<>>
  PROVE  Way(Stands, f.tn, f.ctx)[Done(f)] = Through(all, Stands, Ahead(f))
<1>1. f.tn \in TypeNames /\ Done(f) \in 0 .. Len(f.tn.ns.path)
  BY FrameIs
<1>2. Stands \in Solutions
  BY StandsIs
<1>3. CASE Done(f) = 0
  BY <1>1, <1>2, <1>3, WayIs DEF OnTheWay, Ahead
<1>4. CASE Done(f) # 0
  <2>1. Done(f) \in 1 .. Len(f.tn.ns.path)
    BY <1>1, <1>4
  <2>2. f.acc # None /\ f.acc = Way(Stands, f.tn, f.ctx)[Done(f) - 1]
    BY <1>4 DEF OnTheWay
  <2>3. Ahead(f) = Tn(ToNamespace(f.acc), Segments(f.tn)[Done(f) + 1])
    BY <2>2, FrameIs DEF Ahead
  <2>4. Way(Stands, f.tn, f.ctx)[Done(f)] =
          IF Way(Stands, f.tn, f.ctx)[Done(f) - 1] = None THEN None
          ELSE Through(all, Stands, Tn(ToNamespace(Way(Stands, f.tn, f.ctx)[Done(f) - 1]),
                                       Segments(f.tn)[Done(f) + 1]))
    BY <1>1, <1>2, <2>1, WayIs
  <2> QED BY <2>2, <2>3, <2>4
<1> QED BY <1>3, <1>4

(* Where what a frame has come to leads nowhere, its whole path does, also
   with what fewer rounds know. *)
LEMMA DeadEnd ==
  ASSUME WellFormed, NEW f \in Frames, OnTheWay(f), f.todo # <<>>,
         NEW t \in Solutions, Less(t, Stands), Through(all, t, Ahead(f)) = None
  PROVE  Follow(all, t, f.tn, f.ctx) = None
<1> SUFFICES ASSUME Follow(all, t, f.tn, f.ctx) # None PROVE FALSE
  OBVIOUS
<1>1. f.tn \in TypeNames /\ Done(f) \in 0 .. Len(f.tn.ns.path)
  BY FrameIs
<1>2. Stands \in Solutions
  BY StandsIs
<1>3. \A i \in 0 .. Len(f.tn.ns.path) : Way(t, f.tn, f.ctx)[i] # None
  BY <1>1, WayOn
<1>4. CASE Done(f) = 0
  BY <1>1, <1>3, <1>4, WayIs DEF OnTheWay, Ahead
<1>5. CASE Done(f) # 0
  <2>1. Done(f) \in 1 .. Len(f.tn.ns.path) /\ Done(f) - 1 \in 0 .. Len(f.tn.ns.path)
    BY <1>1, <1>5
  <2>2. f.acc # None /\ f.acc = Way(Stands, f.tn, f.ctx)[Done(f) - 1]
    BY <1>5 DEF OnTheWay
  <2>3. f.acc = Way(t, f.tn, f.ctx)[Done(f) - 1]
    BY <1>1, <1>2, <1>3, <2>1, <2>2, WayGrows
  <2>4. Ahead(f) = Tn(ToNamespace(f.acc), Segments(f.tn)[Done(f) + 1])
    BY <2>2, FrameIs DEF Ahead
  <2>5. Way(t, f.tn, f.ctx)[Done(f)] =
          IF Way(t, f.tn, f.ctx)[Done(f) - 1] = None THEN None
          ELSE Through(all, t, Tn(ToNamespace(Way(t, f.tn, f.ctx)[Done(f) - 1]),
                                  Segments(f.tn)[Done(f) + 1]))
    BY <1>1, <2>1, WayIs
  <2> QED BY <1>1, <1>3, <2>2, <2>3, <2>4, <2>5
<1> QED BY <1>4, <1>5

(* A frame at the end of its path has what the path leads to. *)
LEMMA AtTheEnd ==
  ASSUME WellFormed, NEW f \in Frames, OnTheWay(f), f.todo = <<>>
  PROVE  f.acc # None /\ f.acc = Follow(all, Stands, f.tn, f.ctx)
<1>1. f.tn \in TypeNames /\ Len(f.tn.ns.path) \in Nat /\ Done(f) = Len(f.tn.ns.path) + 1
  <2>1. Len(f.todo) = 0
    OBVIOUS
  <2> QED BY <2>1, FrameIs
<1>2. f.acc # None /\ f.acc = Way(Stands, f.tn, f.ctx)[Done(f) - 1]
  BY <1>1 DEF OnTheWay
<1>3. Done(f) - 1 = Len(f.tn.ns.path)
  BY <1>1
<1> QED BY <1>1, <1>2, <1>3, StandsIs, FollowIs

(* A new frame has walked nothing. *)
LEMMA NewOnTheWay ==
  ASSUME NEW tn \in TypeNames, NEW ctx, NEW alias
  PROVE  OnTheWay(Frame(tn, ctx, alias))
<1>1. Segments(tn) \in Seq(Symbols) /\ Len(Segments(tn)) \in Nat
  BY SegmentsAre
<1>2. Done(Frame(tn, ctx, alias)) = 0
  BY <1>1 DEF Done, Frame
<1> QED BY <1>1, <1>2 DEF OnTheWay, Frame

(* A frame that moves on by one segment, with what that segment stands for. *)
LEMMA MovedOn ==
  ASSUME WellFormed, NEW f \in Frames, OnTheWay(f), f.todo # <<>>,
         NEW c, c # None, c = Through(all, Stands, Ahead(f)),
         NEW g \in Frames, g.tn = f.tn, g.ctx = f.ctx, g.acc = c, g.todo = Tail(f.todo)
  PROVE  OnTheWay(g)
<1>1. PICK todo \in Seq(Symbols) : todo = f.todo /\ todo # <<>>
  BY FrameIs
<1>2. /\ Len(Tail(todo)) = Len(todo) - 1 /\ Len(todo) \in Nat \ {0}
      /\ \A i \in 1 .. Len(todo) - 1 : Tail(todo)[i] = todo[i + 1]
  BY <1>1
<1>3. PICK d \in Nat : d = Done(f) /\ Done(f) = Len(Segments(f.tn)) - Len(todo)
  BY <1>1, FrameIs DEF Done
<1>4. Len(Segments(f.tn)) \in Nat
  BY FrameIs
<1>5. Done(g) = d + 1
  <2>1. Segments(g.tn) = Segments(f.tn) /\ Len(g.todo) = Len(todo) - 1
    BY <1>1, <1>2
  <2>2. Done(g) = Len(Segments(f.tn)) - (Len(todo) - 1)
    BY <2>1 DEF Done
  <2> QED BY <1>2, <1>3, <1>4, <2>2
<1>6. ASSUME NEW i \in 1 .. Len(g.todo) PROVE g.todo[i] = Segments(g.tn)[Done(g) + i]
  <2>1. i \in 1 .. Len(todo) - 1 /\ i + 1 \in 1 .. Len(todo) /\ d + 1 + i = d + (i + 1)
    BY <1>1, <1>2
  <2>2. todo[i + 1] = Segments(f.tn)[d + (i + 1)]
    BY <1>1, <1>3, <2>1 DEF OnTheWay
  <2> QED BY <1>1, <1>2, <1>5, <2>1, <2>2
<1>7. g.acc = Way(Stands, g.tn, g.ctx)[Done(g) - 1]
  <2>1. Done(g) - 1 = Done(f)
    BY <1>3, <1>5
  <2> QED BY <2>1, NextOnTheWay
<1> QED BY <1>5, <1>6, <1>7 DEF OnTheWay

-----------------------------------------------------------------------------
(* Frames, and the query below them, that lead nowhere.                    *)

(* What the invariant says of the frames. *)
LEMMA StackIs ==
  ASSUME WInv, NEW n \in Nat, n = Len(stack)
  PROVE  /\ stack \in Seq(Frames) /\ DOMAIN stack = 1 .. n
         /\ \A i \in 1 .. n : stack[i] \in Frames /\ OnTheWay(stack[i])
         /\ \A i \in 1 .. n - 1 : /\ stack[i].todo # <<>>
                                  /\ Awaits(stack[i], stack[i + 1])
<1>1. stack \in Seq(Frames)
  BY DEF WInv, IInv, TypeOK
<1>2. DOMAIN stack = 1 .. n
  BY <1>1
<1> QED BY <1>1, <1>2 DEF WInv, IInv, FramesLead, BelowIsWaiting

(* A frame waiting for an alias that stands for nothing leads nowhere. *)
LEMMA AwaitsNothing ==
  ASSUME WInv, NEW i \in 1 .. Len(stack) - 1, NEW t \in Solutions, Less(t, Stands),
         t[stack[i + 1].alias] = None
  PROVE  Follow(all, t, stack[i].tn, stack[i].ctx) = None
<1>1. PICK n \in Nat : n = Len(stack)
  BY DEF WInv, IInv, TypeOK
<1>2. i \in 1 .. n - 1 /\ i \in 1 .. n
  BY <1>1
<1>3. /\ stack[i] \in Frames /\ OnTheWay(stack[i]) /\ stack[i].todo # <<>>
      /\ Awaits(stack[i], stack[i + 1])
  BY <1>1, <1>2, StackIs
<1>4. Through(all, t, Ahead(stack[i])) = None
  BY <1>3 DEF Awaits, Through, Solutions
<1> QED BY <1>3, <1>4, DeadEnd DEF WInv

(* Where the top frame leads nowhere, every frame below it does. *)
LEMMA LeadsNowhere ==
  ASSUME WInv, stack # <<>>, Follow(all, Stands, Top.tn, Top.ctx) = None
  PROVE  Follow(all, Stands, stack[1].tn, stack[1].ctx) = None
<1>1. PICK n \in Nat \ {0} : n = Len(stack)
  BY DEF WInv, IInv, TypeOK
<1>2. Stands \in Solutions /\ Less(Stands, Stands)
  BY StandsIs DEF WInv, Less
<1> DEFINE A == {j \in 0 .. n - 1 : Follow(all, Stands, stack[n - j].tn, stack[n - j].ctx) = None}
<1>3. 0 \in A
  BY <1>1 DEF Top
<1>4. ASSUME NEW j \in 0 .. n - 1, j # n - 1, j \in A PROVE j + 1 \in A
  <2>1. PICK i \in 1 .. n - 1 : i = n - (j + 1) /\ i + 1 = n - j
    BY <1>4
  <2>2. Awaits(stack[i], stack[i + 1])
    BY <1>1, StackIs
  <2>3. Stands[stack[i + 1].alias] = None
    BY <1>4, <2>1, <2>2, StandsFor DEF WInv, Awaits
  <2>4. Follow(all, Stands, stack[i].tn, stack[i].ctx) = None
    BY <1>1, <1>2, <2>3, AwaitsNothing
  <2> QED BY <1>4, <2>1, <2>4
<1>5. n - 1 \in A
  <2>1. n - 1 \in Nat
    OBVIOUS
  <2>2. 0 .. n - 1 \subseteq A
    <3> HIDE DEF A
    <3> QED BY <1>3, <1>4, <2>1, UpTo
  <2> QED BY <2>1, <2>2
<1>6. n - (n - 1) = 1
  OBVIOUS
<1> QED BY <1>5, <1>6

(* Aliases that wait for each other in a circle stand for nothing: no round
   finds what one stands for before it has found it for the next. *)
LEMMA CircleStandsForNothing ==
  ASSUME WInv, stack # <<>>, Top.todo # <<>>, Ahead(Top) \in DOMAIN aliases, Ahead(Top) \in visited
  PROVE  Stands[Ahead(Top)] = None
<1>1. PICK n \in Nat \ {0} : n = Len(stack)
  BY DEF WInv, IInv, TypeOK
<1>2. WellFormed
  BY DEF WInv
<1>3. PICK m \in 2 .. n : stack[m].alias = Ahead(Top)
  BY <1>1 DEF WInv, IInv, VisitedIsPending
<1>4. PICK l \in Nat : l = Final
  BY <1>2, RoundIs
<1>5. ASSUME NEW i \in m .. n
      PROVE  /\ stack[i] \in Frames /\ OnTheWay(stack[i])
             /\ stack[i].alias \in DOMAIN aliases
             /\ stack[i].tn = aliases[stack[i].alias].old
             /\ stack[i].ctx = aliases[stack[i].alias].ctx
  <2>1. i \in 1 .. n /\ i - 1 \in 1 .. n - 1 /\ i - 1 + 1 = i
    BY <1>1, <1>3, <1>5
  <2>2. Awaits(stack[i - 1], stack[i])
    BY <1>1, <2>1, StackIs
  <2> QED BY <1>1, <2>1, <2>2, StackIs DEF Awaits
<1> DEFINE A == {k \in 0 .. l : \A i \in m .. n : Round[k][stack[i].alias] = None}
<1>6. 0 \in A
  BY <1>2, <1>4, <1>5, RoundIs
<1>7. ASSUME NEW k \in 0 .. l, k # l, k \in A PROVE k + 1 \in A
  <2>1. k + 1 \in 1 .. l /\ k + 1 \in 0 .. l /\ k + 1 - 1 = k
    BY <1>7
  <2>2. Round[k] \in Solutions /\ Less(Round[k], Stands) /\ Round[k + 1] = Raised(Round[k])
    BY <1>2, <1>4, <2>1, RoundIs, RoundBelowStands
  <2>3. ASSUME NEW i \in m .. n PROVE Follow(all, Round[k], stack[i].tn, stack[i].ctx) = None
    <3>1. CASE i = n
      <4>1. m \in m .. n
        BY <1>3
      <4>2. Round[k][Ahead(Top)] = None
        BY <1>3, <1>7, <4>1
      <4>3. Through(all, Round[k], Ahead(Top)) = None
        BY <2>2, <4>2 DEF Through, Solutions
      <4>4. Top = stack[i]
        BY <1>1, <3>1 DEF Top
      <4> QED BY <1>2, <1>5, <2>2, <4>3, <4>4, DeadEnd
    <3>2. CASE i # n
      <4>1. i \in 1 .. n - 1 /\ i + 1 \in m .. n
        BY <1>3, <3>2
      <4>2. Round[k][stack[i + 1].alias] = None
        BY <1>7, <4>1
      <4> QED BY <1>1, <2>2, <4>1, <4>2, AwaitsNothing
    <3> QED BY <3>1, <3>2
  <2>4. \A i \in m .. n : Round[k + 1][stack[i].alias] = None
    BY <1>2, <1>5, <2>2, <2>3, RaisedIs
  <2> QED BY <2>1, <2>4
<1>8. l \in A
  <2>1. 0 .. l \subseteq A
    <3> HIDE DEF A
    <3> QED BY <1>6, <1>7, UpTo
  <2> QED BY <2>1
<1>9. m \in m .. n
  BY <1>3
<1> QED BY <1>2, <1>3, <1>4, <1>8, <1>9, StandsIs

(* What a query that has frames means. *)
LEMMA MeaningIs ==
  ASSUME WInv, stack # <<>>,
         NEW class, class = Follow(all, Stands, stack[1].tn, stack[1].ctx),
         NEW full, full = Tn(ToNamespace(class), query.tn.name)
  PROVE  Meaning(query) = IF KindOf(query.tn) = "Class" THEN class
                          ELSE IF class # None /\ full \in all THEN full ELSE None
<1>1. Starts(query, stack[1])
  BY DEF WInv, FramesLead
<1> QED BY <1>1 DEF Meaning, Referent, Starts, KnownAbsolute, Stands

(* A dead end of the top frame, a segment that is not declared or an alias in
   a circle, is one of the query. *)
LEMMA FailIsRight ==
  ASSUME WInv, StepCycle \/ StepUnknown
  PROVE  Meaning(query) = None
<1>1. stack # <<>> /\ Top.todo # <<>>
  BY DEF StepCycle, StepUnknown, Walking
<1>2. Top \in Frames /\ OnTheWay(Top)
  <2>1. Len(stack) \in DOMAIN stack /\ Top \in Frames
    BY <1>1, TopFrame DEF WInv
  <2> QED BY <2>1 DEF WInv, FramesLead, Top
<1>3. WellFormed /\ Stands \in Solutions /\ Less(Stands, Stands)
  BY StandsIs DEF WInv, Less
<1>4. Through(all, Stands, Ahead(Top)) = None
  <2>1. CASE StepCycle
    <3>1. Candidate(Top) \in DOMAIN aliases /\ Candidate(Top) \in visited
      BY <2>1 DEF StepCycle, GoesToAlias
    <3>2. Candidate(Top) = Ahead(Top)
      BY <1>2, <1>3, <3>1, CandidateIs DEF Declared
    <3>3. Stands[Ahead(Top)] = None
      BY <1>1, <3>1, <3>2, CircleStandsForNothing
    <3> QED BY <1>3, <3>1, <3>2, <3>3 DEF Through, Solutions
  <2>2. CASE StepUnknown
    <3>1. Candidate(Top) \notin Declared
      BY <2>2 DEF StepUnknown
    <3>2. Ahead(Top) \notin Declared
      BY <1>2, <1>3, <3>1, CandidateIs
    <3> QED BY <1>3, <3>2 DEF Through, Solutions, Declared
  <2> QED BY <2>1, <2>2
<1>5. Follow(all, Stands, Top.tn, Top.ctx) = None
  BY <1>1, <1>2, <1>3, <1>4, DeadEnd
<1>6. Follow(all, Stands, stack[1].tn, stack[1].ctx) = None
  BY <1>1, <1>5, LeadsNowhere
<1> QED BY <1>1, <1>6, MeaningIs

-----------------------------------------------------------------------------
(* Steps keep the frames on their way and the answers right.               *)

\* FramesLead of a given stack and query.
StackLeads(s, q) ==
  /\ \A i \in DOMAIN s : OnTheWay(s[i])
  /\ \A i \in 1 .. Len(s) - 1 : Awaits(s[i], s[i + 1])
  /\ s # <<>> => Starts(q, s[1])

(* What aliases stand for depends on the declarations alone. *)
LEMMA SameStands ==
  ASSUME UNCHANGED <<all, aliases>>
  PROVE  UNCHANGED <<Stands, Declared>>
BY DEF Stands, Declared

(* Frames lead where they did as long as the declarations stay. *)
LEMMA FramesLeadNext ==
  ASSUME UNCHANGED <<all, aliases>>, NEW s, s = stack', NEW q, q = query', StackLeads(s, q)
  PROVE  FramesLead'
<1>1. UNCHANGED <<Stands, Declared>>
  BY SameStands
<1>2. \A f : OnTheWay(f)' = OnTheWay(f)
  BY <1>1 DEF OnTheWay, Way, Done
<1>3. \A f, g : Awaits(f, g)' = Awaits(f, g)
  BY <1>1 DEF Awaits, Ahead
<1>4. \A r, f : Starts(r, f)' = Starts(r, f)
  BY DEF Starts, KnownAbsolute
<1> QED BY <1>2, <1>3, <1>4 DEF FramesLead, StackLeads

(* And so does what a name refers to. *)
LEMMA SameMeaning ==
  ASSUME UNCHANGED <<all, aliases>>, NEW q
  PROVE  Meaning(q)' = Meaning(q)
BY DEF Meaning

(* Answers stay right. *)
LEMMA AnswersRightNext ==
  ASSUME WInv, UNCHANGED <<all, aliases, cache, answer>>
  PROVE  AnswersRight'
BY SameMeaning DEF WInv, AnswersRight, Right, Forgivable

(* The declarations stay well formed. *)
LEMMA WellFormedNext ==
  ASSUME WInv, UNCHANGED env
  PROVE  WellFormed'
BY DEF WInv, WellFormed, env, Declared

(* A query that ends with what its name means, or with the None that is
   made an exception of. *)
LEMMA FinishLeads ==
  ASSUME WInv, NEW q \in Queries, NEW result, NEW found, Finish(q, result, found),
         Right(q, result) \/ (result = None /\ Qualified(q.tn) /\ ~found)
  PROVE  (WellFormed /\ FramesLead /\ AnswersRight)'
<1>1. WellFormed' /\ UNCHANGED <<all, aliases>>
  BY WellFormedNext DEF Finish, env
<1>2. FramesLead'
  <2>1. stack' = <<>>
    BY DEF Finish
  <2> QED BY <2>1 DEF FramesLead
<1>3. AnswersRight'
  <2>1. cache' = [k \in DOMAIN cache \cup {q} |-> IF k = q THEN result ELSE cache[k]]
    BY DEF Finish
  <2>2. \A k \in DOMAIN cache' : Forgivable(k, cache[k])' 
    BY <1>1, <2>1, SameMeaning DEF WInv, AnswersRight, Right, Forgivable
  <2>3. answer' = [query |-> q, result |-> result, cached |-> FALSE, found |-> found]
    BY DEF Finish, Answer
  <2> QED BY <1>1, <2>2, <2>3, SameMeaning DEF AnswersRight, Right, Forgivable
<1> QED BY <1>1, <1>2, <1>3

(* A query that starts with the frame its name asks for. *)
LEMMA StartLeads ==
  ASSUME WInv, Idle, NEW q \in Queries, NEW tn \in TypeNames, NEW f, f = Frame(tn, q.ctx, None),
         query' = q, Push(f), UNCHANGED <<env, cache, visited, answer>>, Starts(q, f)
  PROVE  (WellFormed /\ FramesLead /\ AnswersRight)'
<1>1. WellFormed' /\ UNCHANGED <<all, aliases>> /\ AnswersRight'
  BY WellFormedNext, AnswersRightNext DEF env
<1>2. stack = <<>>
  BY DEF WInv, IInv, VisitedIsPending
<1>3. OnTheWay(f)
  BY NewOnTheWay
<1>4. FramesLead'
  <2> DEFINE s == <<f>>
  <2>1. stack' = s
    BY <1>2 DEF Push
  <2>2. StackLeads(s, q)
    BY <1>3 DEF StackLeads
  <2> QED BY <1>1, <2>1, <2>2, FramesLeadNext
<1> QED BY <1>1, <1>4

(* A declared segment is what the path leads to. *)
LEMMA DeclaredLeads ==
  ASSUME WInv, StepDeclared
  PROVE  (WellFormed /\ FramesLead /\ AnswersRight)'
<1> DEFINE c == Candidate(Top)
           f == [Top EXCEPT !.acc = c, !.todo = Tail(@)]
           s == [stack EXCEPT ![Len(stack)] = f]
<1>1. stack # <<>> /\ Top.todo # <<>> /\ c \in all /\ stack' = s
  BY DEF StepDeclared, Walking, SetTop
<1>2. UNCHANGED <<env, cache, query, visited, answer>>
  BY DEF StepDeclared
<1>3. WellFormed' /\ UNCHANGED <<all, aliases>> /\ AnswersRight'
  BY <1>2, WellFormedNext, AnswersRightNext DEF env
<1>4. PICK n \in Nat \ {0} : n = Len(stack)
  BY <1>1 DEF WInv, IInv, TypeOK
<1>5. /\ stack \in Seq(Frames) /\ DOMAIN stack = 1 .. n
      /\ \A i \in 1 .. n : stack[i] \in Frames /\ OnTheWay(stack[i])
      /\ \A i \in 1 .. n - 1 : Awaits(stack[i], stack[i + 1])
  BY <1>4, StackIs
<1>6. Top = stack[n] /\ Top \in Frames /\ OnTheWay(Top)
  BY <1>4, <1>5 DEF Top
<1>7. /\ f \in Frames /\ f.acc = c /\ f.todo = Tail(Top.todo)
      /\ f.alias = Top.alias /\ f.tn = Top.tn /\ f.ctx = Top.ctx
  <2>1. Tail(Top.todo) \in Seq(Symbols) /\ c \in TypeNames
    BY <1>1, <1>6 DEF Frames, WInv, WellFormed
  <2> HIDE DEF c
  <2> QED BY <1>6, <2>1 DEF Frames
<1>8. c # None /\ c = Through(all, Stands, Ahead(Top))
  <2>1. c = Ahead(Top)
    BY <1>1, <1>6, CandidateIs DEF WInv, Declared
  <2>2. c \notin DOMAIN Stands
    BY <1>1, StandsIs DEF WInv, WellFormed, Solutions
  <2>3. c # None
    BY <1>1, NoneAssumption DEF WInv, WellFormed
  <2> QED BY <1>1, <2>1, <2>2, <2>3 DEF Through
<1> HIDE DEF c, f
<1>9. OnTheWay(f)
  BY <1>1, <1>6, <1>7, <1>8, MovedOn DEF WInv
<1>10. /\ DOMAIN s = 1 .. n /\ Len(s) = n
       /\ \A i \in 1 .. n : s[i] = IF i = n THEN f ELSE stack[i]
  BY <1>1, <1>4, <1>5, <1>7, LastReplaced
<1> HIDE DEF s
<1>11. StackLeads(s, query)
  <2>1. \A i \in DOMAIN s : OnTheWay(s[i])
    BY <1>5, <1>9, <1>10
  <2>2. ASSUME NEW i \in 1 .. n - 1 PROVE Awaits(s[i], s[i + 1])
    <3>1. i \in 1 .. n /\ i # n /\ i + 1 \in 1 .. n
      BY <1>4
    <3>2. s[i] = stack[i] /\ s[i + 1].alias = stack[i + 1].alias
          /\ s[i + 1].tn = stack[i + 1].tn /\ s[i + 1].ctx = stack[i + 1].ctx
      BY <1>6, <1>7, <1>10, <3>1
    <3> QED BY <1>5, <3>2 DEF Awaits
  <2>3. Starts(query, s[1])
    <3>1. Starts(query, stack[1])
      BY <1>1 DEF WInv, FramesLead
    <3>2. s[1].tn = stack[1].tn /\ s[1].ctx = stack[1].ctx
      BY <1>4, <1>6, <1>7, <1>10
    <3> QED BY <3>1, <3>2 DEF Starts
  <2> QED BY <1>10, <2>1, <2>2, <2>3 DEF StackLeads
<1>12. FramesLead'
  BY <1>1, <1>2, <1>3, <1>11, FramesLeadNext
<1> QED BY <1>3, <1>12

(* An alias gets a frame for the path it stands for. *)
LEMMA AliasLeads ==
  ASSUME WInv, StepAlias
  PROVE  (WellFormed /\ FramesLead /\ AnswersRight)'
<1> DEFINE c == Candidate(Top)
           f == Frame(aliases[c].old, aliases[c].ctx, c)
           s == Append(stack, f)
<1>1. stack # <<>> /\ c \in DOMAIN aliases /\ stack' = s
  BY DEF StepAlias, Walking, GoesToAlias, Push
<1>2. UNCHANGED <<env, cache, query, answer>>
  BY DEF StepAlias
<1>3. WellFormed' /\ UNCHANGED <<all, aliases>> /\ AnswersRight'
  BY <1>2, WellFormedNext, AnswersRightNext DEF env
<1>4. PICK n \in Nat \ {0} : n = Len(stack)
  BY <1>1 DEF WInv, IInv, TypeOK
<1>5. /\ stack \in Seq(Frames) /\ DOMAIN stack = 1 .. n
      /\ \A i \in 1 .. n : stack[i] \in Frames /\ OnTheWay(stack[i])
      /\ \A i \in 1 .. n - 1 : Awaits(stack[i], stack[i + 1])
  BY <1>4, StackIs
<1>6. Top = stack[n] /\ Top \in Frames
  BY <1>4, <1>5 DEF Top
<1>7. c = Ahead(Top)
  BY <1>1, <1>6, CandidateIs DEF WInv, Declared
<1>8. c \in TypeNames /\ aliases[c].old \in TypeNames /\ aliases[c].ctx \in Contexts
  BY <1>1 DEF WInv, WellFormed
<1> HIDE DEF c
<1>9. f \in Frames /\ OnTheWay(f) /\ Awaits(stack[n], f)
  <2>1. f.alias = c /\ f.tn = aliases[c].old /\ f.ctx = aliases[c].ctx
    BY DEF Frame
  <2>2. f \in Frames /\ OnTheWay(f)
    BY <1>8, NewFrame, NewOnTheWay
  <2> HIDE DEF f
  <2> QED BY <1>1, <1>6, <1>7, <2>1, <2>2 DEF Awaits
<1> HIDE DEF f
<1>10. /\ Len(s) = n + 1 /\ DOMAIN s = 1 .. n + 1
       /\ \A i \in 1 .. n : s[i] = stack[i]
       /\ s[n + 1] = f
  BY <1>4, <1>5, <1>9, AppendProperties
<1> HIDE DEF s
<1>11. StackLeads(s, query)
  <2>1. \A i \in DOMAIN s : OnTheWay(s[i])
    <3>1. \A i \in 1 .. n + 1 : i \in 1 .. n \/ i = n + 1
      OBVIOUS
    <3> QED BY <1>5, <1>9, <1>10, <3>1
  <2>2. ASSUME NEW i \in 1 .. n PROVE Awaits(s[i], s[i + 1])
    <3>1. i = n \/ (i \in 1 .. n - 1 /\ i + 1 \in 1 .. n)
      OBVIOUS
    <3> QED BY <1>5, <1>9, <1>10, <3>1
  <2>3. Starts(query, s[1])
    <3>1. s[1] = stack[1]
      BY <1>4, <1>10
    <3> QED BY <1>1, <3>1 DEF WInv, FramesLead
  <2>4. Len(s) - 1 = n
    BY <1>10
  <2> QED BY <2>1, <2>2, <2>3, <2>4 DEF StackLeads
<1>12. FramesLead'
  BY <1>1, <1>2, <1>3, <1>11, FramesLeadNext
<1> QED BY <1>3, <1>12

(* The end of an alias's path is what the alias stands for, and so where the
   frame that awaits it comes to. *)
LEMMA ReturnLeads ==
  ASSUME WInv, ReturnAlias
  PROVE  (WellFormed /\ FramesLead /\ AnswersRight)'
<1> DEFINE n == Len(stack)
           below == stack[n - 1]
           f == [below EXCEPT !.acc = Top.acc, !.todo = Tail(@)]
           r == SubSeq(stack, 1, n - 1)
           s == [r EXCEPT ![n - 1] = f]
<1>1. n > 1 /\ Top.todo = <<>> /\ stack' = s
  BY DEF ReturnAlias
<1>2. UNCHANGED <<env, cache, query, answer>>
  BY DEF ReturnAlias
<1>3. WellFormed' /\ UNCHANGED <<all, aliases>> /\ AnswersRight'
  BY <1>2, WellFormedNext, AnswersRightNext DEF env
<1>4. n \in Nat \ {0}
  BY <1>1 DEF WInv, IInv, TypeOK
<1>5. /\ stack \in Seq(Frames) /\ DOMAIN stack = 1 .. n
      /\ \A i \in 1 .. n : stack[i] \in Frames /\ OnTheWay(stack[i])
      /\ \A i \in 1 .. n - 1 : stack[i].todo # <<>> /\ Awaits(stack[i], stack[i + 1])
  BY <1>4, StackIs
<1>6. Top = stack[n] /\ Top \in Frames /\ OnTheWay(Top)
  BY <1>4, <1>5 DEF Top
<1>7. /\ below \in Frames /\ OnTheWay(below) /\ below.todo # <<>> /\ Awaits(below, Top)
  <2>1. n - 1 \in 1 .. n - 1 /\ n - 1 \in 1 .. n /\ n - 1 + 1 = n
    BY <1>1, <1>4
  <2> HIDE DEF n
  <2> QED BY <1>5, <1>6, <2>1
<1>8. /\ f \in Frames /\ f.acc = Top.acc /\ f.todo = Tail(below.todo)
      /\ f.alias = below.alias /\ f.tn = below.tn /\ f.ctx = below.ctx
  <2>1. Tail(below.todo) \in Seq(Symbols) /\ Top.acc \in TypeNames \cup {None}
    BY <1>6, <1>7 DEF Frames
  <2> HIDE DEF below
  <2> QED BY <1>7, <2>1 DEF Frames
<1>9. Top.acc # None /\ Top.acc = Through(all, Stands, Ahead(below))
  <2>1. Top.acc # None /\ Top.acc = Follow(all, Stands, Top.tn, Top.ctx)
    BY <1>1, <1>6, AtTheEnd DEF WInv
  <2>2. Stands[Ahead(below)] = Follow(all, Stands, Top.tn, Top.ctx)
    BY <1>7, StandsFor DEF Awaits, WInv
  <2>3. Ahead(below) \in DOMAIN Stands
    BY <1>7, StandsIs DEF Awaits, WInv, Solutions
  <2> QED BY <2>1, <2>2, <2>3 DEF Through
<1> HIDE DEF below, f
<1>10. OnTheWay(f)
  BY <1>7, <1>8, <1>9, MovedOn DEF WInv
<1>11. r \in Seq(Frames) /\ Len(r) = n - 1 /\ r # <<>> /\ \A i \in 1 .. n - 1 : r[i] = stack[i]
  <2>1. n \in Nat /\ stack \in Seq(Frames)
    BY <1>4, <1>5
  <2> QED BY <1>1, <2>1, LastDropped
<1> HIDE DEF r
<1>12. /\ DOMAIN s = 1 .. n - 1 /\ Len(s) = n - 1
       /\ \A i \in 1 .. n - 1 : s[i] = IF i = n - 1 THEN f ELSE stack[i]
  BY <1>1, <1>4, <1>8, <1>11, LastReplaced
<1> HIDE DEF s
<1>13. StackLeads(s, query)
  <2>1. \A i \in DOMAIN s : OnTheWay(s[i])
    <3>1. \A i \in 1 .. n - 1 : i \in 1 .. n
      BY <1>4
    <3> QED BY <1>5, <1>10, <1>12, <3>1
  <2>2. ASSUME NEW i \in 1 .. n - 2 PROVE Awaits(s[i], s[i + 1])
    <3>1. i \in 1 .. n - 1 /\ i # n - 1 /\ i + 1 \in 1 .. n - 1
      BY <1>4
    <3>2. s[i] = stack[i] /\ s[i + 1].alias = stack[i + 1].alias
          /\ s[i + 1].tn = stack[i + 1].tn /\ s[i + 1].ctx = stack[i + 1].ctx
      BY <1>8, <1>12, <3>1 DEF below
    <3> QED BY <1>5, <3>1, <3>2 DEF Awaits
  <2>3. Starts(query, s[1])
    <3>1. Starts(query, stack[1])
      BY <1>1, <1>4 DEF WInv, FramesLead
    <3>2. s[1].tn = stack[1].tn /\ s[1].ctx = stack[1].ctx
      BY <1>1, <1>4, <1>8, <1>12 DEF below
    <3> QED BY <3>1, <3>2 DEF Starts
  <2>4. Len(s) - 1 = n - 2
    BY <1>4, <1>12
  <2> QED BY <2>1, <2>2, <2>3, <2>4 DEF StackLeads
<1>14. FramesLead'
  BY <1>1, <1>2, <1>3, <1>13, FramesLeadNext
<1> QED BY <1>3, <1>14

(* The outermost frame at its end, and for a nested name the member it has. *)
LEMMA OutermostIsRight ==
  ASSUME WInv, ReturnClass \/ ReturnQualified
  PROVE  (WellFormed /\ FramesLead /\ AnswersRight)'
<1>1. stack # <<>> /\ Top.todo = <<>> /\ Top = stack[1]
  <2>1. Len(stack) = 1 /\ Top.todo = <<>>
    BY DEF ReturnClass, ReturnQualified
  <2> QED BY <2>1 DEF Top
<1>2. query \in Queries
  BY <1>1, TopFrame DEF WInv
<1>3. Top \in Frames /\ OnTheWay(Top)
  <2>1. 1 \in DOMAIN stack /\ Top \in Frames
    BY <1>1, TopFrame DEF WInv, IInv, TypeOK
  <2> QED BY <1>1, <2>1 DEF WInv, FramesLead
<1>4. Top.acc # None /\ Top.acc = Follow(all, Stands, Top.tn, Top.ctx)
  BY <1>1, <1>3, AtTheEnd DEF WInv
<1>5. Top.acc \in TypeNames
  BY <1>3, <1>4 DEF Frames
<1> DEFINE full == Tn(ToNamespace(Top.acc), query.tn.name)
<1>6. Meaning(query) = IF KindOf(query.tn) = "Class" THEN Top.acc
                       ELSE IF full \in all THEN full ELSE None
  <2> HIDE DEF full
  <2>1. Meaning(query) = IF KindOf(query.tn) = "Class" THEN Top.acc
                         ELSE IF Top.acc # None /\ full \in all THEN full ELSE None
    BY <1>1, <1>4, MeaningIs DEF full
  <2> QED BY <1>4, <2>1
<1>7. CASE ReturnClass
  BY <1>2, <1>6, <1>7, FinishLeads DEF ReturnClass, Right
<1>8. CASE ReturnQualified
  <2>1. ToNamespace(Top.acc) \in Namespaces /\ all \subseteq tns
    BY <1>5, ToNamespaceIs DEF WInv, WellFormed, Declared
  <2>2. Member(Top.acc, query.tn.name) = IF full \in all THEN full ELSE None
    BY <2>1, FrozenFinds DEF Member, FrozenToNamespace, WInv
  <2> QED BY <1>2, <1>6, <1>8, <2>2, FinishLeads DEF ReturnQualified, Right
<1> QED BY <1>7, <1>8

(* Calls of resolve. *)
LEMMA ResolveLeads ==
  ASSUME WInv, NEW q \in Queries, Resolve(q)
  PROVE  (WellFormed /\ FramesLead /\ AnswersRight)'
<1>1. q.tn \in TypeNames /\ q.ctx \in Contexts
  BY QueriesAssumption
<1>2. CASE ResolveKnown(q)
  <2>1. UNCHANGED <<env, cache, query, stack>> /\ UNCHANGED <<all, aliases>>
    BY <1>2 DEF ResolveKnown, env
  <2>2. answer' = [query |-> q, result |-> q.tn, cached |-> FALSE, found |-> TRUE]
    BY <1>2 DEF ResolveKnown, Answer
  <2>3. Right(q, q.tn)
    BY <1>2 DEF ResolveKnown, KnownAbsolute, Right, Meaning, Referent
  <2>4. FramesLead'
    BY <2>1, FramesLeadNext DEF WInv, FramesLead, StackLeads
  <2>5. AnswersRight'
    BY <2>1, <2>2, <2>3, SameMeaning DEF WInv, AnswersRight, Right, Forgivable
  <2> QED BY <2>1, <2>4, <2>5, WellFormedNext
<1>3. CASE ResolveCached(q)
  <2>1. UNCHANGED <<env, cache, query, stack>> /\ UNCHANGED <<all, aliases>> /\ q \in DOMAIN cache
    BY <1>3 DEF ResolveCached, env
  <2>2. PICK found : answer' = [query |-> q, result |-> cache[q], cached |-> TRUE, found |-> found]
    BY <1>3 DEF ResolveCached, Answer
  <2>3. Forgivable(q, cache[q])
    BY <2>1 DEF WInv, AnswersRight
  <2>4. FramesLead'
    BY <2>1, FramesLeadNext DEF WInv, FramesLead, StackLeads
  <2>5. AnswersRight'
    BY <2>1, <2>2, <2>3, SameMeaning DEF WInv, AnswersRight, Right, Forgivable
  <2> QED BY <2>1, <2>4, <2>5, WellFormedNext
<1>4. CASE ResolveClass(q)
  <2> DEFINE f == Frame(q.tn, q.ctx, None)
  <2>1. Starts(q, f)
    BY <1>4 DEF ResolveClass, Miss, Starts, Frame
  <2>2. Idle /\ query' = q /\ Push(f) /\ UNCHANGED <<env, cache, visited, answer>>
    BY <1>4 DEF ResolveClass, Miss
  <2> HIDE DEF f
  <2> QED BY <1>1, <2>1, <2>2, StartLeads DEF f
<1>5. CASE ResolveUnqualified(q)
  <2>1. ResolveTypeName(q.tn.name, q.ctx) = Innermost(q.tn.name, q.ctx, all)
    BY <1>1, HitIsInnermost DEF ResolveTypeName, WInv, WellFormed, Declared
  <2>2. Right(q, Innermost(q.tn.name, q.ctx, all))
    BY <1>5 DEF ResolveUnqualified, Miss, KnownAbsolute, Right, Meaning, Referent
  <2> QED BY <1>5, <2>1, <2>2, FinishLeads DEF ResolveUnqualified
<1>6. CASE ResolveQualified(q)
  <2>1. Miss(q) /\ Qualified(q.tn)
    BY <1>6 DEF ResolveQualified
  <2>2. CASE ~ScopeInterned(q.tn)
    BY <1>6, <2>1, <2>2, FinishLeads DEF ResolveQualified
  <2>3. CASE ScopeInterned(q.tn)
    <3> DEFINE tn == FrozenNsName(q.tn.ns)
               f == Frame(tn, q.ctx, None)
    <3>1. query' = q /\ Push(f) /\ UNCHANGED <<env, cache, visited, answer>>
      BY <1>6, <2>3 DEF ResolveQualified
    <3>2. tn # None
      BY <2>1, <2>3 DEF ScopeInterned
    <3>3. tn \in TypeNames
      BY <3>2, FrozenIsInterned DEF FrozenNsName, WInv, WellFormed
    <3>4. tn = ToTypeName(q.tn.ns)
      BY <3>2 DEF FrozenNsName, FrozenTn, FrozenNs, ToTypeName
    <3>5. Starts(q, f)
      <4>1. f.tn = tn /\ f.ctx = q.ctx
        BY DEF Frame
      <4> QED BY <2>1, <3>4, <4>1 DEF Miss, Qualified, Starts
    <3> HIDE DEF tn
    <3> QED BY <2>1, <3>1, <3>3, <3>5, StartLeads DEF Miss
  <2> QED BY <2>2, <2>3
<1> QED BY <1>2, <1>3, <1>4, <1>5, <1>6 DEF Resolve

(* A further name is interned with its namespace. *)
LEMMA InternLeads ==
  ASSUME WInv, NEW tn \in uses, InternName(tn)
  PROVE  (WellFormed /\ FramesLead /\ AnswersRight)'
<1>1. tn \in TypeNames
  BY DEF WInv, IInv, TypeOK
<1>2. UNCHANGED <<all, aliases, cache, query, stack, answer>>
  BY DEF InternName
<1>3. nss' = nss \cup {tn.ns} /\ tns' = tns \cup {tn}
  BY DEF InternName
<1>4. WellFormed'
  BY <1>1, <1>2, <1>3 DEF WInv, WellFormed, Declared
<1>5. FramesLead'
  BY <1>2, FramesLeadNext DEF WInv, FramesLead, StackLeads
<1> QED BY <1>2, <1>4, <1>5, AnswersRightNext

(* Steps of the walk. *)
LEMMA WalkLeads ==
  ASSUME WInv, Walk
  PROVE  (WellFormed /\ FramesLead /\ AnswersRight)'
<1>1. ASSUME StepCycle \/ StepUnknown
      PROVE  (WellFormed /\ FramesLead /\ AnswersRight)'
  <2>1. Fail /\ stack # <<>>
    BY <1>1 DEF StepCycle, StepUnknown, Walking
  <2>2. query \in Queries
    BY <2>1, TopFrame DEF WInv
  <2>3. Right(query, None)
    BY <1>1, FailIsRight DEF Right
  <2> QED BY <2>1, <2>2, <2>3, FinishLeads DEF Fail
<1> QED BY <1>1, DeclaredLeads, AliasLeads, ReturnLeads, OutermostIsRight DEF Walk

(* Declarations as the insert phase leaves them, and nothing asked yet. *)
LEMMA InitWInv == Init => WInv
<1> SUFFICES ASSUME Init PROVE WInv
  OBVIOUS
<1>1. WellFormed
  BY EnvironmentsAssumption, DeclarationsAssumption DEF Init, WellFormed, Declared
<1>2. FramesLead /\ AnswersRight
  BY DEF Init, FramesLead, AnswersRight
<1> QED BY <1>1, <1>2, InitIInv DEF WInv

(* The frames stay on their way and every answer is right. *)
THEOREM Leading == Spec => []WInv
<1>1. WInv /\ [Next]_vars => WInv'
  <2> SUFFICES ASSUME WInv, [Next]_vars PROVE WInv'
    OBVIOUS
  <2>1. IInv'
    BY IInvStep DEF WInv
  <2>2. ASSUME NEW q \in Queries, Resolve(q) PROVE WInv'
    BY <2>1, <2>2, ResolveLeads DEF WInv
  <2>3. ASSUME NEW tn \in uses, InternName(tn) PROVE WInv'
    BY <2>1, <2>3, InternLeads DEF WInv
  <2>4. CASE Walk
    BY <2>1, <2>4, WalkLeads DEF WInv
  <2>5. CASE UNCHANGED vars
    <3>1. UNCHANGED <<env, all, aliases, cache, query, stack, answer>>
      BY <2>5 DEF vars, env
    <3>2. FramesLead'
      BY <3>1, FramesLeadNext DEF WInv, FramesLead, StackLeads
    <3> QED BY <2>1, <3>1, <3>2, WellFormedNext, AnswersRightNext DEF WInv
  <2> QED BY <2>2, <2>3, <2>4, <2>5 DEF Next
<1> QED BY <1>1, InitWInv, PTL DEF Spec

(* AnswersAreReferents: an answer, cached or walked to through any aliases,
   is what the name refers to, but for the None of a qualified interface or
   alias name. *)
THEOREM AnswersAreRight == Spec => []AnswersAreReferents
<1>1. WInv => AnswersAreReferents
  BY DEF WInv, AnswersRight, AnswersAreReferents, Right
<1> QED BY <1>1, Leading, PTL

-----------------------------------------------------------------------------
(* The resolver implements the name lookup.                                *)

(* NameLookup's copies of the operators of Names and Scoping are the same
   operators: first those on names, *)
LEMMA SameNames ==
  /\ \A ns, name : Lookup!Tn(ns, name) = Tn(ns, name)
  /\ \A tn : Lookup!ToNamespace(tn) = ToNamespace(tn)
  /\ \A tn : Lookup!Segments(tn) = Segments(tn)
  /\ \A tn : Lookup!KindOf(tn) = KindOf(tn)
  /\ \A ns : Lookup!ToTypeName(ns) = ToTypeName(ns)
BY DEF Lookup!Tn, Lookup!Ns, Lookup!ToNamespace, Lookup!Segments, Lookup!KindOf, Lookup!ToTypeName, Lookup!Parent,
       Tn, Ns, ToNamespace, Segments, KindOf, ToTypeName, Parent

(* the scopes of a context, *)
LEMMA SameScopes ==
  ASSUME NEW ctx
  PROVE  Lookup!ScopesOf(ctx) = ScopesOf(ctx)
BY DEF Lookup!ScopesOf, Lookup!Scope, Lookup!RootAbsolute, Lookup!Ns, Lookup!ToNamespace,
       ScopesOf, Scope, RootAbsolute, Ns, ToNamespace

(* the search through them, *)
LEMMA SameInnermost ==
  ASSUME NEW s, NEW ctx, NEW known
  PROVE  Lookup!Innermost(s, ctx, known) = Innermost(s, ctx, known)
BY SameScopes DEF Lookup!Innermost, Innermost, Lookup!Tn, Tn

(* the first segment, *)
LEMMA SameFirst ==
  ASSUME NEW known, NEW tn, NEW ctx
  PROVE  Lookup!FirstOf(known, tn, ctx) = FirstOf(known, tn, ctx)
BY SameInnermost, SameNames DEF Lookup!FirstOf, FirstOf

(* the whole path, *)
LEMMA SameReached ==
  ASSUME NEW d, NEW t, NEW tn, NEW ctx
  PROVE  Lookup!Reached(d, t, tn, ctx) = Reached(d, t, tn, ctx)
<1> DEFINE L(f) == [i \in 0 .. Len(tn.ns.path) |->
                      IF i = 0 THEN Lookup!Through(d, t, Lookup!FirstOf(d \cup DOMAIN t, tn, ctx))
                      ELSE IF f[i - 1] = None THEN None
                      ELSE Lookup!Through(d, t, Lookup!Tn(Lookup!ToNamespace(f[i - 1]),
                                                          Lookup!Segments(tn)[i + 1]))]
           R(f) == [i \in 0 .. Len(tn.ns.path) |->
                      IF i = 0 THEN Through(d, t, FirstOf(d \cup DOMAIN t, tn, ctx))
                      ELSE IF f[i - 1] = None THEN None
                      ELSE Through(d, t, Tn(ToNamespace(f[i - 1]), Segments(tn)[i + 1]))]
<1>1. \A m : Lookup!Through(d, t, m) = Through(d, t, m)
  BY DEF Lookup!Through, Through
<1>2. \A f : L(f) = R(f)
  BY <1>1, SameFirst, SameNames
<1>3. /\ Lookup!Reached(d, t, tn, ctx) = CHOOSE f : f = L(f)
      /\ Reached(d, t, tn, ctx) = CHOOSE f : f = R(f)
  BY DEF Lookup!Reached, Reached
<1> HIDE DEF L, R
<1> QED BY <1>2, <1>3

(* one round, *)
LEMMA SameBetter ==
  ASSUME NEW d, NEW as, NEW t
  PROVE  Lookup!Better(d, as, t) = Better(d, as, t)
BY SameReached DEF Lookup!Better, Better, Lookup!Follow, Follow

(* the number of aliases, *)
LEMMA SameCount ==
  ASSUME NEW S
  PROVE  Lookup!Cardinality(S) = Cardinality(S)
BY DEF Lookup!Cardinality, Cardinality

(* all rounds, *)
LEMMA SameRounds ==
  ASSUME NEW d, NEW as
  PROVE  Lookup!Rounds(d, as) = Rounds(d, as)
<1> DEFINE L(f) == [k \in 0 .. Lookup!Cardinality(DOMAIN as) |->
                      IF k = 0 THEN [a \in DOMAIN as |-> None] ELSE Lookup!Better(d, as, f[k - 1])]
           R(f) == [k \in 0 .. Cardinality(DOMAIN as) |->
                      IF k = 0 THEN [a \in DOMAIN as |-> None] ELSE Better(d, as, f[k - 1])]
<1>1. \A f : L(f) = R(f)
  BY SameBetter, SameCount
<1>2. /\ Lookup!Rounds(d, as) = CHOOSE f : f = L(f)
      /\ Rounds(d, as) = CHOOSE f : f = R(f)
  BY DEF Lookup!Rounds, Rounds
<1> HIDE DEF L, R
<1> QED BY <1>1, <1>2

(* what the aliases stand for, *)
LEMMA SameTargets ==
  ASSUME NEW d, NEW as
  PROVE  Lookup!Targets(d, as) = Targets(d, as)
BY SameRounds, SameCount DEF Lookup!Targets, Targets

(* and so what a name refers to. *)
LEMMA SameReferent ==
  ASSUME NEW tn, NEW ctx
  PROVE  Lookup!Referent(all, aliases, tn, ctx) = Referent(all, aliases, tn, ctx)
BY SameTargets, SameReached, SameNames, SameInnermost DEF Lookup!Referent, Referent, Lookup!Follow, Follow

(* An answer that is given ends the query with what may be answered to it. *)
LEMMA ReplyStep ==
  ASSUME WInv, WInv', UNCHANGED <<all, aliases>>, query' = None,
         answer' \in Answers, NEW q, q = answer'.query
  PROVE  Lookup!Reply(q)
<1>1. answer' # None
  BY NoneAssumption
<1>2. Meaning(q)' = Meaning(q) /\ Lookup!Referent(all, aliases, q.tn, q.ctx) = Meaning(q)
  BY SameMeaning, SameReferent DEF Meaning
<1>3. \/ answer'.result = Meaning(q)
      \/ answer'.result = None /\ Qualified(q.tn)
  <2>1. \/ answer'.result = Meaning(answer.query)'
        \/ answer'.result = None /\ Qualified(q.tn)
    BY <1>1 DEF WInv, AnswersRight, Right, Qualified
  <2>2. Meaning(answer.query)' = Meaning(q)'
    BY DEF Meaning
  <2> QED BY <1>2, <2>1, <2>2
<1>4. answer'.result \in Lookup!Answers(q)
  BY <1>2, <1>3, SameNames DEF Lookup!Answers, Qualified
<1> QED BY <1>1, <1>4 DEF Lookup!Reply

(* A step that ends no query is none of the lookup's. *)
LEMMA Unseen ==
  ASSUME UNCHANGED <<all, aliases, query, answer>>
  PROVE  UNCHANGED Lookup!vars
BY DEF Lookup!vars

(* Finish is such an answer. *)
LEMMA FinishReplies ==
  ASSUME WInv, WInv', NEW q \in Queries, NEW result \in all \cup {None}, NEW found \in BOOLEAN,
         Finish(q, result, found)
  PROVE  Lookup!Reply(q)
<1>1. answer' \in Answers
  BY AnswerIs DEF Finish, WInv, WellFormed
<1>2. answer'.query = q
  BY DEF Finish, Answer
<1>3. UNCHANGED <<all, aliases>> /\ query' = None
  BY DEF Finish, env
<1> QED BY <1>1, <1>2, <1>3, ReplyStep

(* A call of resolve asks or replies. *)
LEMMA ResolveLooksUp ==
  ASSUME WInv, WInv', NEW q \in Queries, Resolve(q)
  PROVE  Lookup!Next
<1> SUFFICES query = None /\ (Lookup!Ask(q) \/ Lookup!Reply(q))
  BY DEF Lookup!Next
<1>1. q.tn \in TypeNames /\ q.ctx \in Contexts
  BY QueriesAssumption
<1>2. query = None
  BY DEF Resolve, ResolveKnown, ResolveCached, ResolveClass, ResolveUnqualified, ResolveQualified,
         Miss, Idle
<1>3. CASE ResolveKnown(q) \/ ResolveCached(q)
  <2>1. UNCHANGED <<all, aliases>> /\ query' = None
    BY <1>2, <1>3 DEF ResolveKnown, ResolveCached, env
  <2>2. answer' \in Answers
    <3>1. CASE ResolveKnown(q)
      BY <1>1, <3>1, AnswerIs DEF ResolveKnown
    <3>2. CASE ResolveCached(q)
      <4>1. ScopeInterned(q.tn) \in BOOLEAN
        BY DEF ScopeInterned
      <4> QED BY <3>2, <4>1, AnswerIs DEF ResolveCached, WInv, IInv, TypeOK
    <3> QED BY <1>3, <3>1, <3>2
  <2>3. answer'.query = q
    BY <1>3 DEF ResolveKnown, ResolveCached, Answer
  <2> QED BY <1>2, <2>1, <2>2, <2>3, ReplyStep
<1>4. CASE ResolveUnqualified(q)
  <2>1. ResolveTypeName(q.tn.name, q.ctx) \in all \cup {None}
    BY <1>1, HitIsMember DEF ResolveTypeName
  <2> QED BY <1>2, <1>4, <2>1, FinishReplies DEF ResolveUnqualified
<1>5. CASE Finish(q, None, FALSE)
  BY <1>2, <1>5, FinishReplies
<1>6. ASSUME NEW f, query' = q, Push(f), UNCHANGED <<env, cache, visited, answer>>
      PROVE  Lookup!Ask(q)
  BY <1>2, <1>6 DEF Lookup!Ask, env
<1>7. CASE ResolveClass(q)
  BY <1>2, <1>6, <1>7 DEF ResolveClass
<1>8. CASE ResolveQualified(q)
  BY <1>2, <1>5, <1>6, <1>8 DEF ResolveQualified
<1> QED BY <1>3, <1>4, <1>7, <1>8 DEF Resolve

(* A step of the walk replies, or nothing of it is seen. *)
LEMMA WalkLooksUp ==
  ASSUME WInv, WInv', Walk
  PROVE  Lookup!Next \/ UNCHANGED Lookup!vars
<1>1. CASE StepDeclared \/ StepAlias \/ ReturnAlias
  BY <1>1, Unseen DEF StepDeclared, StepAlias, ReturnAlias, env
<1>2. CASE StepCycle \/ StepUnknown \/ ReturnClass \/ ReturnQualified
  <2>1. stack # <<>>
    <3>1. Len(stack) = 1 => stack # <<>>
      OBVIOUS
    <3> QED BY <1>2, <3>1 DEF StepCycle, StepUnknown, ReturnClass, ReturnQualified, Walking
  <2>2. query \in Queries /\ query # None /\ Top.acc \in all \cup {None}
    BY <2>1, TopFrame DEF WInv
  <2>3. PICK result \in all \cup {None} : Finish(query, result, TRUE)
    BY <1>2, <2>2 DEF StepCycle, StepUnknown, ReturnClass, ReturnQualified, Fail, Member
  <2>4. Lookup!Reply(query)
    BY <2>2, <2>3, FinishReplies
  <2> QED BY <2>2, <2>4 DEF Lookup!Next
<1> QED BY <1>1, <1>2 DEF Walk

(* IsLookup: whatever the caches, the aliases on the way and the state of the
   interner, each query is answered as NameLookup says. *)
THEOREM LooksUp == Spec => IsLookup
<1>1. Init => Lookup!Init
  BY DEF Init, Lookup!Init
<1>2. WInv /\ WInv' /\ [Next]_vars => [Lookup!Next]_(Lookup!vars)
  <2> SUFFICES ASSUME WInv, WInv', [Next]_vars PROVE Lookup!Next \/ UNCHANGED Lookup!vars
    OBVIOUS
  <2>1. ASSUME NEW q \in Queries, Resolve(q) PROVE Lookup!Next
    BY <2>1, ResolveLooksUp
  <2>2. ASSUME NEW tn \in uses, InternName(tn) PROVE UNCHANGED Lookup!vars
    BY <2>2, Unseen DEF InternName
  <2>3. CASE Walk
    BY <2>3, WalkLooksUp
  <2>4. CASE UNCHANGED vars
    BY <2>4, Unseen DEF vars, env
  <2> QED BY <2>1, <2>2, <2>3, <2>4 DEF Next
<1> QED BY <1>1, <1>2, Leading, PTL DEF Spec, IsLookup, Lookup!SafeSpec

=============================================================================
