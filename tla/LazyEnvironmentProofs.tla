------------------------ MODULE LazyEnvironmentProofs ------------------------
(***************************************************************************)
(* Safety of the lazily filled environments for any number of objects,     *)
(* sources and threads.  An environment no two threads called at once is   *)
(* filled by one call at most, which counts what it has added; copies are  *)
(* made from what is complete or final, and belong to nobody before.       *)
(***************************************************************************)
EXTENDS LazyEnvironment, SequenceTheorems, TLAPS

Points   == {"ensure", "materialize", "classes", "add", "index", "return"}
Settling == {"ensure", "materialize", "return"}
Entries  == [index : 1 .. Sources, as : Handles]
Calls    == [env : Envs, copy : Envs \cup {None}, at : Points, next : 1 .. Sources + 1,
             as : Handles \cup {None}]

Typed ==
  /\ exists \subseteq Envs /\ Loaded \in exists
  /\ handle \in [Envs -> Handles \cup {None}] /\ handle[Loaded] = "plain"
  /\ flag \in [Envs -> BOOLEAN]
  /\ sources \in [Envs -> Seq(Entries)]
  /\ stack \in [Threads -> Seq(Calls)]
  /\ seen # None => seen.env \in exists

\* What holds of a call by itself.
CallOK(f) ==
  /\ f.env \in exists
  /\ f.copy # None => f.copy \notin exists /\ (f.env \in shared => f.copy \in shared)
  /\ f.at \in {"ensure", "materialize", "classes"} => f.next = 1
  /\ f.at \in {"materialize", "classes", "add", "index"} => handle[f.env] # None
  /\ f.at \in {"classes", "add", "index"} => f.as = handle[f.env]
  /\ f.at \in {"add", "index"} =>
       flag[f.env] /\ (f.env \notin shared => f.next = Len(sources[f.env]) + 1)
  /\ f.at = "index" => f.next <= Sources
  /\ f.at = "classes" /\ f.env \notin shared => ~flag[f.env]
  /\ f.at = "return" => flag[f.env] \/ handle[f.env] = None

\* A second call is the one add_source makes, and returns at once.
Shape(s) ==
  /\ Len(s) <= 2
  /\ Len(s) = 2 => /\ s[1].at = "index" /\ s[2].at \in {"ensure", "return"}
                   /\ s[2].env = s[1].env /\ s[2].copy = None

CallsOK == \A t \in Threads : Shape(stack[t]) /\ \A i \in 1 .. Len(stack[t]) : CallOK(stack[t][i])

\* Where two threads are in calls of an environment that is not shared, it
\* is settled.
Calm ==
  \A t, u \in Threads : \A i \in 1 .. Len(stack[t]) : \A j \in 1 .. Len(stack[u]) :
    t # u /\ stack[t][i].env = stack[u][j].env /\ stack[t][i].env \notin shared =>
      flag[stack[t][i].env] /\ stack[t][i].at \in Settling

\* An object belongs to one dup.
OwnCopies ==
  \A t, u \in Threads : \A i \in 1 .. Len(stack[t]) : \A j \in 1 .. Len(stack[u]) :
    stack[t][i].copy # None /\ stack[t][i].copy = stack[u][j].copy => t = u /\ i = j

Uniform(e) ==
  \A i \in 1 .. Len(sources[e]) :
    /\ sources[e][i].as = IF e = Loaded THEN "plain" ELSE sources[e][1].as
    /\ handle[e] # None => sources[e][i].as = handle[e]

InOrder(e) ==
  /\ \A i \in 1 .. Len(sources[e]) : sources[e][i].index = i
  /\ handle[e] # None /\ ~flag[e] => sources[e] = <<>>

EnvsOK ==
  /\ \A e \in exists : Uniform(e) /\ (e \notin shared => InOrder(e))
  /\ \A e \in Envs \ exists : sources[e] = <<>>

\* An environment that has answered is not filled any more.
Done(e) ==
  /\ flag[e] \/ handle[e] = None
  /\ \A t \in Threads : \A i \in 1 .. Len(stack[t]) :
       stack[t][i].env = e => stack[t][i].at \in Settling

Final ==
  seen # None /\ seen.env \notin shared => sources[seen.env] = seen.sources /\ Done(seen.env)

IInv == Typed /\ CallsOK /\ Calm /\ OwnCopies /\ EnvsOK /\ Final

-----------------------------------------------------------------------------
(* Stacks.                                                                 *)

(* The topmost call, and how deep it can be. *)
LEMMA TopFacts ==
  ASSUME IInv, NEW t \in Threads, stack[t] # <<>>
  PROVE  /\ stack[t] \in Seq(Calls) /\ Len(stack[t]) \in {1, 2} /\ Shape(stack[t])
         /\ Top(t) = stack[t][Len(stack[t])] /\ Top(t) \in Calls /\ CallOK(Top(t))
<1>1. stack[t] \in Seq(Calls) /\ Shape(stack[t])
  BY DEF IInv, Typed, CallsOK
<1>2. Len(stack[t]) \in {1, 2}
  <2>1. Len(stack[t]) \in Nat /\ Len(stack[t]) # 0
    BY <1>1, EmptySeq
  <2>2. Len(stack[t]) <= 2
    BY <1>1 DEF Shape
  <2>3. \A n \in Nat : n # 0 /\ n <= 2 => n \in {1, 2}
    OBVIOUS
  <2> QED BY <2>1, <2>2, <2>3
<1>3. Len(stack[t]) \in 1 .. Len(stack[t])
  BY <1>2
<1> QED BY <1>1, <1>2, <1>3, ElementOfSeq DEF Top, IInv, CallsOK

(* The topmost call goes on. *)
LEMMA GotoShape ==
  ASSUME IInv, NEW t \in Threads, stack[t] # <<>>, NEW f \in Calls, Goto(t, f)
  PROVE  /\ stack' \in [Threads -> Seq(Calls)] /\ Len(stack'[t]) = Len(stack[t])
         /\ stack'[t][Len(stack[t])] = f
         /\ \A i \in 1 .. Len(stack[t]) : i # Len(stack[t]) => stack'[t][i] = stack[t][i]
         /\ \A u \in Threads : u # t => stack'[u] = stack[u]
<1>1. stack[t] \in Seq(Calls) /\ Len(stack[t]) \in 1 .. Len(stack[t])
  BY TopFacts
<1> DEFINE r == [stack[t] EXCEPT ![Len(stack[t])] = f]
<1>2. /\ r \in Seq(Calls) /\ Len(r) = Len(stack[t])
      /\ \A j \in 1 .. Len(stack[t]) : r[j] = IF j = Len(stack[t]) THEN f ELSE stack[t][j]
  BY <1>1, ExceptSeq
<1>3. stack' = [stack EXCEPT ![t] = r] /\ stack \in [Threads -> Seq(Calls)]
  BY DEF Goto, IInv, Typed
<1> HIDE DEF r
<1> QED BY <1>1, <1>2, <1>3

(* The topmost call ends. *)
LEMMA PopShape ==
  ASSUME IInv, NEW t \in Threads, stack[t] # <<>>, Pop(t)
  PROVE  /\ stack' \in [Threads -> Seq(Calls)] /\ Len(stack'[t]) = Len(stack[t]) - 1
         /\ \A i \in 1 .. Len(stack[t]) - 1 : stack'[t][i] = stack[t][i]
         /\ \A u \in Threads : u # t => stack'[u] = stack[u]
<1> DEFINE s == stack[t]
           n == Len(s) - 1
           r == SubSeq(s, 1, n)
<1>1. s \in Seq(Calls) /\ Len(s) \in {1, 2}
  BY TopFacts
<1>2. stack' = [stack EXCEPT ![t] = r] /\ stack \in [Threads -> Seq(Calls)]
  BY DEF Pop, IInv, Typed
<1> HIDE DEF s
<1>3. n \in 0 .. 1 /\ \A i \in 1 .. n : s[i] \in Calls
  BY <1>1, ElementOfSeq
<1> HIDE DEF n
<1>4. /\ SubSeq(s, 1, n) \in Seq(Calls)
      /\ Len(SubSeq(s, 1, n)) = IF 1 <= n THEN n - 1 + 1 ELSE 0
      /\ \A i \in 1 .. n - 1 + 1 : SubSeq(s, 1, n)[i] = s[1 + i - 1]
  BY <1>3, SubSeqProperties
<1>5. r \in Seq(Calls) /\ Len(r) = n /\ \A i \in 1 .. n : r[i] = s[i]
  BY <1>3, <1>4
<1> HIDE DEF r
<1> QED BY <1>2, <1>5 DEF s, n

(* A call is made by a thread that is in none. *)
LEMMA PushShape ==
  ASSUME IInv, NEW t \in Threads, stack[t] = <<>>, NEW f \in Calls, Push(t, f)
  PROVE  /\ stack' \in [Threads -> Seq(Calls)] /\ Len(stack'[t]) = 1 /\ stack'[t][1] = f
         /\ \A u \in Threads : u # t => stack'[u] = stack[u]
<1>1. Append(<<>>, f) \in Seq(Calls) /\ Len(Append(<<>>, f)) = 1 /\ Append(<<>>, f)[1] = f
  BY EmptySeq, AppendProperties
<1>2. stack' = [stack EXCEPT ![t] = Append(<<>>, f)] /\ stack \in [Threads -> Seq(Calls)]
  BY DEF Push, IInv, Typed
<1> QED BY <1>1, <1>2

-----------------------------------------------------------------------------
(* Steps of a call.                                                        *)

(* A step that moves the topmost call and changes nothing else. *)
LEMMA MoveStep ==
  ASSUME IInv, NEW t \in Threads, stack[t] # <<>>, NEW f \in Calls, Goto(t, f),
         UNCHANGED <<exists, handle, flag, sources, seen, shared>>,
         f.env = Top(t).env, f.copy = Top(t).copy, CallOK(f),
         Len(stack[t]) = 2 => f.at \in {"ensure", "return"},
         (flag[f.env] \/ handle[f.env] = None) /\ Top(t).at \in Settling => f.at \in Settling
  PROVE  IInv'
<1> DEFINE n == Len(stack[t])
<1>1. /\ n \in {1, 2} /\ Shape(stack[t]) /\ Top(t) = stack[t][n] /\ n \in 1 .. n
      /\ stack[t] \in Seq(Calls)
  BY TopFacts
<1>2. /\ stack' \in [Threads -> Seq(Calls)] /\ Len(stack'[t]) = n /\ stack'[t][n] = f
      /\ \A i \in 1 .. n : i # n => stack'[t][i] = stack[t][i]
      /\ \A u \in Threads : u # t => stack'[u] = stack[u]
  BY GotoShape
<1> HIDE DEF n
<1>3. Typed'
  BY <1>2 DEF IInv, Typed
<1>4. \A c : CallOK(c)' <=> CallOK(c)
  BY DEF CallOK
<1>5. CallsOK'
  <2>1. ASSUME NEW u \in Threads PROVE Shape(stack'[u])
    <3>1. CASE u = t
      BY <1>1, <1>2, <3>1 DEF Shape, n
    <3>2. CASE u # t
      BY <1>2, <3>2 DEF IInv, CallsOK
    <3> QED BY <3>1, <3>2
  <2>2. ASSUME NEW u \in Threads, NEW i \in 1 .. Len(stack'[u]) PROVE CallOK(stack'[u][i])
    <3>1. CASE u = t /\ i = n
      BY <1>2, <3>1
    <3>2. CASE ~(u = t /\ i = n)
      <4>1. i \in 1 .. Len(stack[u]) /\ stack'[u][i] = stack[u][i]
        BY <1>2, <3>2 DEF n
      <4> QED BY <4>1 DEF IInv, CallsOK
    <3> QED BY <3>1, <3>2
  <2> QED BY <1>4, <2>1, <2>2 DEF CallsOK, Shape
\* What the calls had in common with others they still have.
<1>6. ASSUME NEW u \in Threads, NEW i \in 1 .. Len(stack'[u])
      PROVE  /\ i \in 1 .. Len(stack[u])
             /\ stack'[u][i].env = stack[u][i].env /\ stack'[u][i].copy = stack[u][i].copy
             /\ stack'[u][i].at = stack[u][i].at \/
                  (stack[u][i] = Top(t) /\ stack'[u][i] = f)
  <2>1. CASE u = t /\ i = n
    BY <1>1, <1>2, <2>1 DEF n
  <2>2. CASE ~(u = t /\ i = n)
    BY <1>2, <2>2 DEF n
  <2> QED BY <2>1, <2>2
<1>7. Calm'
  <2> SUFFICES ASSUME NEW u \in Threads, NEW v \in Threads, u # v,
                      NEW i \in 1 .. Len(stack'[u]), NEW j \in 1 .. Len(stack'[v]),
                      stack'[u][i].env = stack'[v][j].env, stack'[u][i].env \notin shared
               PROVE  flag[stack'[u][i].env] /\ stack'[u][i].at \in Settling
    BY DEF Calm
  <2>1. flag[stack[u][i].env] /\ stack[u][i].at \in Settling
    BY <1>6 DEF IInv, Calm
  <2> QED BY <1>6, <2>1
<1>8. OwnCopies'
  <2> SUFFICES ASSUME NEW u \in Threads, NEW v \in Threads,
                      NEW i \in 1 .. Len(stack'[u]), NEW j \in 1 .. Len(stack'[v]),
                      stack'[u][i].copy # None, stack'[u][i].copy = stack'[v][j].copy
               PROVE  u = v /\ i = j
    BY DEF OwnCopies
  <2>1. /\ i \in 1 .. Len(stack[u]) /\ j \in 1 .. Len(stack[v])
        /\ stack[u][i].copy # None /\ stack[u][i].copy = stack[v][j].copy
    BY <1>6
  <2> QED BY <2>1 DEF IInv, OwnCopies
<1>9. EnvsOK'
  BY DEF IInv, EnvsOK, Uniform, InOrder
<1>10. Final'
  <2>1. \A e : Done(e) => Done(e)'
    BY <1>6 DEF Done
  <2> QED BY <2>1 DEF IInv, Final
<1> QED BY <1>3, <1>5, <1>7, <1>8, <1>9, <1>10 DEF IInv

(* The steps that only move on. *)
LEMMA PlainSteps ==
  ASSUME IInv, NEW t \in Threads, EnsureMaterialized(t) \/ MaterializeAll(t) \/ MaterializeEnd(t)
  PROVE  IInv'
<1>1. stack[t] # <<>> /\ UNCHANGED <<exists, handle, flag, sources, seen, shared>>
  BY DEF EnsureMaterialized, MaterializeAll, MaterializeEnd, At
<1>2. /\ Top(t) \in Calls /\ CallOK(Top(t)) /\ Shape(stack[t]) /\ Len(stack[t]) \in {1, 2}
      /\ Top(t) = stack[t][Len(stack[t])] /\ stack[t] \in Seq(Calls)
  BY <1>1, TopFacts
<1>3. Len(stack[t]) = 2 => Top(t).at \in {"ensure", "return"} /\ flag[Top(t).env]
  <2>1. SUFFICES ASSUME Len(stack[t]) = 2 PROVE Top(t).at \in {"ensure", "return"} /\ flag[Top(t).env]
    OBVIOUS
  <2>2. 1 \in 1 .. Len(stack[t])
    BY <2>1
  <2>3. CallOK(stack[t][1])
    BY <2>2 DEF IInv, CallsOK
  <2> QED BY <1>2, <2>1, <2>3 DEF Shape, CallOK
<1>4. handle[Top(t).env] \in Handles \cup {None} /\ flag[Top(t).env] \in BOOLEAN
  BY <1>2 DEF IInv, Typed, Calls
<1>5. CASE EnsureMaterialized(t)
  <2> DEFINE f == [Top(t) EXCEPT !.at = IF flag[Top(t).env] \/ handle[Top(t).env] = None
                                        THEN "return" ELSE "materialize"]
  <2>1. Top(t).at = "ensure" /\ Goto(t, f)
    BY <1>5 DEF EnsureMaterialized, At
  <2>2. /\ f \in Calls /\ f.env = Top(t).env /\ f.copy = Top(t).copy /\ f.next = Top(t).next
        /\ f.at = IF flag[f.env] \/ handle[f.env] = None THEN "return" ELSE "materialize"
    BY <1>2 DEF Calls, Points
  <2> HIDE DEF f
  <2>3. CallOK(f)
    BY <1>2, <2>1, <2>2 DEF CallOK
  <2> QED BY <1>1, <1>3, <2>1, <2>2, <2>3, MoveStep DEF Settling
<1>6. CASE MaterializeAll(t)
  <2> DEFINE f == IF flag[Top(t).env] THEN [Top(t) EXCEPT !.at = "return"]
                  ELSE [Top(t) EXCEPT !.at = "classes", !.as = handle[Top(t).env]]
  <2>1. Top(t).at = "materialize" /\ Goto(t, f)
    BY <1>6 DEF MaterializeAll, At
  <2>2. /\ f \in Calls /\ f.env = Top(t).env /\ f.copy = Top(t).copy /\ f.next = Top(t).next
        /\ IF flag[f.env] THEN f.at = "return"
           ELSE f.at = "classes" /\ f.as = handle[f.env]
    BY <1>2, <1>4 DEF Calls, Points
  <2> HIDE DEF f
  <2>3. CallOK(f)
    BY <1>2, <2>1, <2>2 DEF CallOK
  <2>4. handle[f.env] # None
    BY <1>2, <2>1, <2>2 DEF CallOK
  <2> QED BY <1>1, <1>3, <2>1, <2>2, <2>3, <2>4, MoveStep DEF Settling
<1>7. CASE MaterializeEnd(t)
  <2> DEFINE f == [Top(t) EXCEPT !.at = "return"]
  <2>1. Top(t).at = "add" /\ Goto(t, f)
    BY <1>7 DEF MaterializeEnd, At
  <2>2. /\ f \in Calls /\ f.env = Top(t).env /\ f.copy = Top(t).copy /\ f.at = "return"
    BY <1>2 DEF Calls, Points
  <2> HIDE DEF f
  <2>3. CallOK(f)
    BY <1>2, <2>1, <2>2 DEF CallOK
  <2> QED BY <1>1, <1>3, <2>1, <2>2, <2>3, MoveStep DEF Settling
<1> QED BY <1>5, <1>6, <1>7

(* A thread that fills an environment which is not shared is alone with it. *)
LEMMA Alone ==
  ASSUME IInv, NEW t \in Threads, stack[t] # <<>>, Top(t).at \in {"classes", "add", "index"}
  PROVE  /\ Len(stack[t]) = 1 /\ stack[t][1] = Top(t) /\ Top(t) \in Calls /\ CallOK(Top(t))
         /\ stack[t] \in Seq(Calls)
         /\ Top(t).env \notin shared =>
              /\ \A u \in Threads : \A i \in 1 .. Len(stack[u]) :
                   stack[u][i].env = Top(t).env => u = t
              /\ seen = None \/ seen.env # Top(t).env
<1>1. /\ stack[t] \in Seq(Calls) /\ Len(stack[t]) \in {1, 2} /\ Shape(stack[t])
      /\ Top(t) = stack[t][Len(stack[t])] /\ Top(t) \in Calls /\ CallOK(Top(t))
  BY TopFacts
<1>2. Len(stack[t]) = 1
  BY <1>1 DEF Shape
<1>3. 1 \in 1 .. Len(stack[t]) /\ stack[t][1] = Top(t)
  BY <1>1, <1>2
<1>4. Top(t).at \notin Settling
  BY DEF Settling
<1>5. ASSUME Top(t).env \notin shared, NEW u \in Threads, NEW i \in 1 .. Len(stack[u]),
             stack[u][i].env = Top(t).env
      PROVE  u = t
  BY <1>3, <1>4, <1>5 DEF IInv, Calm
<1>6. Top(t).env \notin shared => seen = None \/ seen.env # Top(t).env
  BY <1>3, <1>4 DEF IInv, Final, Done
<1> QED BY <1>1, <1>2, <1>3, <1>5, <1>6

(* A step of the thread that fills an environment: the flag is set, or a
   source added; f is where its only call goes. *)
LEMMA FillStep ==
  ASSUME IInv, NEW t \in Threads, stack[t] # <<>>, Top(t).at \in {"classes", "add", "index"},
         NEW f \in Calls, Goto(t, f), f.env = Top(t).env, f.copy = Top(t).copy,
         UNCHANGED <<exists, handle, seen, shared>>,
         NEW b \in BOOLEAN, flag' = [flag EXCEPT ![f.env] = b], flag[f.env] => b,
         NEW q \in Seq(Entries), sources' = [sources EXCEPT ![f.env] = q],
         CallOK(f)', Uniform(f.env)', f.env \notin shared => InOrder(f.env)'
  PROVE  IInv'
<1>1. /\ Len(stack[t]) = 1 /\ stack[t][1] = Top(t) /\ CallOK(Top(t))
      /\ f.env \notin shared =>
           /\ \A u \in Threads : \A i \in 1 .. Len(stack[u]) : stack[u][i].env = f.env => u = t
           /\ seen = None \/ seen.env # f.env
  BY Alone
<1>2. /\ stack' \in [Threads -> Seq(Calls)] /\ Len(stack'[t]) = 1 /\ stack'[t][1] = f
      /\ \A u \in Threads : u # t => stack'[u] = stack[u]
  <2>1. /\ stack' \in [Threads -> Seq(Calls)] /\ Len(stack'[t]) = Len(stack[t])
        /\ stack'[t][Len(stack[t])] = f
        /\ \A u \in Threads : u # t => stack'[u] = stack[u]
    BY GotoShape
  <2>2. Len(stack[t]) = 1
    BY <1>1
  <2> QED BY <2>1, <2>2
<1>3. f.env \in exists /\ f.env \in Envs
  BY <1>1 DEF CallOK, Calls
<1>4. /\ \A e \in Envs : e # f.env => flag'[e] = flag[e] /\ sources'[e] = sources[e]
      /\ flag'[f.env] = b /\ sources'[f.env] = q
      /\ \A e \in Envs : flag[e] => flag'[e]
  BY <1>3 DEF IInv, Typed
<1>5. Typed'
  BY <1>2 DEF IInv, Typed
<1>6. ASSUME NEW u \in Threads, NEW i \in 1 .. Len(stack'[u])
      PROVE  \/ u = t /\ i = 1 /\ stack'[u][i] = f
             \/ u # t /\ stack'[u][i] = stack[u][i] /\ i \in 1 .. Len(stack[u])
                  /\ (stack[u][i].env # f.env \/ f.env \in shared)
                  /\ CallOK(stack[u][i]) /\ stack[u][i].env \in Envs
  <2>1. CASE u = t
    <3>1. stack'[u] = stack'[t] /\ Len(stack'[u]) = 1
      BY <1>2, <2>1
    <3>2. i = 1
      BY <3>1
    <3> QED BY <1>2, <2>1, <3>1, <3>2
  <2>2. CASE u # t
    <3>1. stack'[u][i] = stack[u][i] /\ i \in 1 .. Len(stack[u])
      BY <1>2, <2>2
    <3>2. CallOK(stack[u][i])
      BY <3>1 DEF IInv, CallsOK
    <3>3. stack[u][i].env \in Envs
      BY <3>2 DEF CallOK, IInv, Typed
    <3> QED BY <1>1, <2>2, <3>1, <3>2, <3>3
  <2> QED BY <2>1, <2>2
<1>7. CallsOK'
  <2>1. ASSUME NEW u \in Threads PROVE Shape(stack'[u])
    <3>1. CASE u = t
      <4>1. PICK s : s = stack'[u]
        OBVIOUS
      <4>2. Len(s) = 1
        BY <1>2, <3>1, <4>1
      <4>3. Shape(s)
        BY <4>2 DEF Shape
      <4> QED BY <4>1, <4>3
    <3>2. CASE u # t
      BY <1>2, <3>2 DEF IInv, CallsOK
    <3> QED BY <3>1, <3>2
  <2>2. ASSUME NEW c, CallOK(c), c.env \in Envs, c.env # f.env \/ f.env \in shared
        PROVE  CallOK(c)'
    <3>1. c.at \in {"add", "index"} =>
            flag'[c.env] /\ (c.env \notin shared => c.next = Len(sources'[c.env]) + 1)
      BY <1>4, <2>2 DEF CallOK
    <3>2. c.at = "classes" /\ c.env \notin shared => ~flag'[c.env]
      BY <1>4, <2>2 DEF CallOK
    <3>3. c.at = "return" => flag'[c.env] \/ handle[c.env] = None
      BY <1>4, <2>2 DEF CallOK
    <3> QED BY <2>2, <3>1, <3>2, <3>3 DEF CallOK
  <2>3. ASSUME NEW u \in Threads, NEW i \in 1 .. Len(stack'[u]) PROVE CallOK(stack[u][i])'
    <3>1. CASE u # t
      <4>1. /\ stack'[u][i] = stack[u][i] /\ CallOK(stack[u][i]) /\ stack[u][i].env \in Envs
            /\ stack[u][i].env # f.env \/ f.env \in shared
        BY <1>6, <3>1
      <4> QED BY <2>2, <4>1 DEF CallOK
    <3>2. CASE u = t
      <4>1. stack'[u][i] = f
        BY <1>6, <3>2
      <4> QED BY <4>1 DEF CallOK
    <3> QED BY <3>1, <3>2
  <2> QED BY <2>1, <2>3 DEF CallsOK, Shape
<1>8. Calm'
  <2> SUFFICES ASSUME NEW u \in Threads, NEW v \in Threads, u # v,
                      NEW i \in 1 .. Len(stack'[u]), NEW j \in 1 .. Len(stack'[v]),
                      stack'[u][i].env = stack'[v][j].env, stack'[u][i].env \notin shared
               PROVE  flag'[stack'[u][i].env] /\ stack'[u][i].at \in Settling
    BY DEF Calm
  <2>1. CASE u = t
    <3>1. stack'[u][i].env = f.env
      BY <1>6, <2>1
    <3>2. stack'[v][j].env # f.env \/ f.env \in shared
      BY <1>6, <2>1
    <3> QED BY <3>1, <3>2
  <2>2. CASE v = t
    <3>1. stack'[v][j].env = f.env
      BY <1>6, <2>2
    <3>2. stack'[u][i].env # f.env \/ f.env \in shared
      BY <1>6, <2>2
    <3> QED BY <3>1, <3>2
  <2>3. CASE u # t /\ v # t
    <3>1. /\ stack'[u][i] = stack[u][i] /\ i \in 1 .. Len(stack[u])
          /\ stack'[v][j] = stack[v][j] /\ j \in 1 .. Len(stack[v]) /\ stack[u][i].env \in Envs
      BY <1>6, <2>3
    <3>2. flag[stack[u][i].env] /\ stack[u][i].at \in Settling
      BY <3>1 DEF IInv, Calm
    <3> QED BY <1>4, <3>1, <3>2
  <2> QED BY <2>1, <2>2, <2>3
<1>9. OwnCopies'
  <2> SUFFICES ASSUME NEW u \in Threads, NEW v \in Threads,
                      NEW i \in 1 .. Len(stack'[u]), NEW j \in 1 .. Len(stack'[v]),
                      stack'[u][i].copy # None, stack'[u][i].copy = stack'[v][j].copy
               PROVE  u = v /\ i = j
    BY DEF OwnCopies
  <2>1. /\ i \in 1 .. Len(stack[u]) /\ j \in 1 .. Len(stack[v])
        /\ stack[u][i].copy # None /\ stack[u][i].copy = stack[v][j].copy
    BY <1>1, <1>2, <1>6
  <2> QED BY <2>1 DEF IInv, OwnCopies
<1>10. EnvsOK'
  <2>1. ASSUME NEW e \in exists PROVE Uniform(e)' /\ (e \notin shared => InOrder(e)')
    <3>1. CASE e = f.env
      BY <3>1
    <3>2. CASE e # f.env
      <4>1. e \in Envs /\ flag'[e] = flag[e] /\ sources'[e] = sources[e]
        BY <1>4, <3>2 DEF IInv, Typed
      <4>2. Uniform(e) /\ (e \notin shared => InOrder(e))
        BY DEF IInv, EnvsOK
      <4> QED BY <4>1, <4>2 DEF Uniform, InOrder
    <3> QED BY <3>1, <3>2
  <2>2. \A e \in Envs \ exists : sources'[e] = <<>>
    BY <1>3, <1>4 DEF IInv, EnvsOK
  <2> QED BY <2>1, <2>2 DEF EnvsOK
<1>11. Final'
  <2> SUFFICES ASSUME seen # None, seen.env \notin shared
               PROVE  sources'[seen.env] = seen.sources /\ Done(seen.env)'
    BY DEF Final
  <2>1. sources[seen.env] = seen.sources /\ Done(seen.env) /\ seen.env \in Envs
    BY DEF IInv, Final, Typed
  <2>2. seen.env # f.env
    <3>1. 1 \in 1 .. Len(stack[t]) /\ stack[t][1].at \notin Settling
      BY <1>1 DEF Settling
    <3> QED BY <1>1, <2>1, <3>1 DEF Done
  <2>3. sources'[seen.env] = seen.sources /\ flag'[seen.env] = flag[seen.env]
    BY <1>4, <2>1, <2>2
  <2>4. ASSUME NEW u \in Threads, NEW i \in 1 .. Len(stack'[u]), stack'[u][i].env = seen.env
        PROVE  stack'[u][i].at \in Settling
    BY <1>6, <2>1, <2>2, <2>4 DEF Done
  <2> QED BY <2>1, <2>3, <2>4 DEF Done
<1> QED BY <1>5, <1>7, <1>8, <1>9, <1>10, <1>11 DEF IInv

(* The flag is set before the first source is added. *)
LEMMA SetFlagStep ==
  ASSUME IInv, NEW t \in Threads, SetFlag(t)
  PROVE  IInv'
<1>1. /\ stack[t] # <<>> /\ Top(t).at = "classes" /\ Goto(t, [Top(t) EXCEPT !.at = "add"])
      /\ UNCHANGED <<exists, handle, sources, seen, shared>>
      /\ flag' = [flag EXCEPT ![Top(t).env] = TRUE]
  BY DEF SetFlag, At
<1>2. Top(t) \in Calls /\ CallOK(Top(t))
  BY <1>1, TopFacts
<1>3. PICK c \in Calls : c = Top(t)
  BY <1>2
<1>4. PICK e \in Envs : e = c.env
  BY DEF Calls
<1>5. PICK f : f = [c EXCEPT !.at = "add"]
  OBVIOUS
<1>6. /\ f \in Calls /\ f.env = e /\ f.copy = c.copy /\ f.at = "add"
      /\ f.next = c.next /\ f.as = c.as
  BY <1>4, <1>5 DEF Calls, Points
<1>7. /\ e \in exists /\ c.next = 1 /\ handle[e] # None
      /\ c.as = handle[e] /\ (e \notin shared => ~flag[e])
      /\ c.copy # None => c.copy \notin exists /\ (e \in shared => c.copy \in shared)
  BY <1>1, <1>2, <1>3, <1>4 DEF CallOK
<1>8. PICK q \in Seq(Entries) : q = sources[e]
  BY DEF IInv, Typed
<1>9. flag' = [flag EXCEPT ![e] = TRUE] /\ flag'[e] = TRUE /\ sources' = [sources EXCEPT ![e] = q]
  BY <1>1, <1>3, <1>4, <1>8 DEF IInv, Typed
<1>10. Uniform(e) /\ (e \notin shared => InOrder(e))
  BY <1>7 DEF IInv, EnvsOK
<1>11. e \notin shared => f.next = Len(sources[e]) + 1
  <2>1. e \notin shared => sources[e] = <<>>
    BY <1>7, <1>10 DEF InOrder
  <2> QED BY <1>6, <1>7, <2>1
<1>12. CallOK(f)'
  BY <1>1, <1>6, <1>7, <1>9, <1>11 DEF CallOK
<1>13. Uniform(e)' /\ (e \notin shared => InOrder(e)')
  BY <1>1, <1>9, <1>10 DEF Uniform, InOrder
<1>14. Uniform(f.env)' /\ (f.env \notin shared => InOrder(f.env)')
  BY <1>6, <1>13
<1>15. Goto(t, f) /\ f.env = Top(t).env /\ f.copy = Top(t).copy
  BY <1>1, <1>3, <1>4, <1>5, <1>6
<1> QED BY <1>1, <1>6, <1>9, <1>12, <1>14, <1>15, FillStep

(* A source is added. *)
LEMMA IndexSourceStep ==
  ASSUME IInv, NEW t \in Threads, IndexSource(t)
  PROVE  IInv'
<1>1. /\ stack[t] # <<>> /\ Top(t).at = "index"
      /\ Goto(t, [Top(t) EXCEPT !.at = "add", !.next = @ + 1])
      /\ UNCHANGED <<exists, handle, flag, seen, shared>>
      /\ sources' = [sources EXCEPT ![Top(t).env] =
                       Append(@, [index |-> Top(t).next, as |-> Top(t).as])]
  BY DEF IndexSource, At
<1>2. Top(t) \in Calls /\ CallOK(Top(t))
  BY <1>1, TopFacts
<1>3. PICK c \in Calls : c = Top(t)
  BY <1>2
<1>4. PICK e \in Envs : e = c.env
  BY DEF Calls
<1>5. PICK f : f = [c EXCEPT !.at = "add", !.next = c.next + 1]
  OBVIOUS
<1>6. /\ e \in exists /\ c.next <= Sources /\ handle[e] # None /\ c.as = handle[e] /\ flag[e]
      /\ e \notin shared => c.next = Len(sources[e]) + 1
      /\ c.copy # None => c.copy \notin exists /\ (e \in shared => c.copy \in shared)
  BY <1>1, <1>2, <1>3, <1>4 DEF CallOK
<1>7. c.next \in 1 .. Sources /\ c.next + 1 \in 1 .. Sources + 1
  <2>1. c.next \in 1 .. Sources + 1 /\ c.next <= Sources
    BY <1>6 DEF Calls
  <2> QED BY <2>1, SourcesAssumption
<1>8. /\ f \in Calls /\ f.env = e /\ f.copy = c.copy /\ f.at = "add"
      /\ f.next = c.next + 1 /\ f.as = c.as
  BY <1>4, <1>5, <1>7 DEF Calls, Points
<1>9. handle[e] \in Handles /\ flag[e] \in BOOLEAN /\ sources[e] \in Seq(Entries)
  BY <1>6 DEF IInv, Typed
<1>10. PICK x \in Entries : x = [index |-> c.next, as |-> c.as]
  BY <1>6, <1>7, <1>9 DEF Entries
<1>11. PICK q \in Seq(Entries) :
         /\ q = Append(sources[e], x) /\ Len(q) = Len(sources[e]) + 1
         /\ q[Len(sources[e]) + 1] = x
         /\ \A i \in 1 .. Len(sources[e]) : q[i] = sources[e][i]
  <2>1. PICK s \in Seq(Entries) : s = sources[e]
    BY <1>9
  <2>2. /\ Append(s, x) \in Seq(Entries) /\ Len(Append(s, x)) = Len(s) + 1
        /\ Append(s, x)[Len(s) + 1] = x
        /\ \A i \in 1 .. Len(s) : Append(s, x)[i] = s[i]
    BY AppendProperties
  <2> QED BY <2>1, <2>2
<1>12. Len(sources[e]) \in Nat
  BY <1>9, LenProperties
<1>13. /\ sources' = [sources EXCEPT ![e] = q] /\ sources'[e] = q
       /\ flag' = [flag EXCEPT ![e] = flag[e]]
  BY <1>1, <1>3, <1>4, <1>10, <1>11 DEF IInv, Typed
<1>14. Uniform(e) /\ (e \notin shared => InOrder(e)) /\ handle[Loaded] = "plain"
  BY <1>6 DEF IInv, EnvsOK, Typed
<1>15. \A i \in 1 .. Len(q) : i \in 1 .. Len(sources[e]) \/ i = Len(sources[e]) + 1
  BY <1>11, <1>12
<1>16. x.as = handle[e] /\ x.index = c.next
  BY <1>6, <1>10
<1>17. \A i \in 1 .. Len(q) : q[i].as = handle[e]
  BY <1>6, <1>11, <1>14, <1>15, <1>16 DEF Uniform
<1>18. Uniform(e)'
  <2>1. 1 \in 1 .. Len(q)
    BY <1>11, <1>12
  <2> QED BY <1>1, <1>13, <1>14, <1>17, <2>1 DEF Uniform
<1>19. e \notin shared => \A i \in 1 .. Len(q) : q[i].index = i
  BY <1>6, <1>11, <1>14, <1>15, <1>16 DEF InOrder
<1>20. e \notin shared => InOrder(e)'
  BY <1>1, <1>6, <1>13, <1>19 DEF InOrder
<1>21. CallOK(f)'
  BY <1>1, <1>6, <1>8, <1>11, <1>13 DEF CallOK
<1>22. PICK b \in BOOLEAN : b = flag[e]
  BY <1>9
<1>23. /\ Uniform(f.env)' /\ (f.env \notin shared => InOrder(f.env)')
       /\ flag' = [flag EXCEPT ![f.env] = b] /\ (flag[f.env] => b)
       /\ sources' = [sources EXCEPT ![f.env] = q]
  BY <1>8, <1>13, <1>18, <1>20, <1>22
<1>24. Goto(t, f) /\ f.env = Top(t).env /\ f.copy = Top(t).copy
  BY <1>1, <1>3, <1>4, <1>5, <1>8
<1> QED BY <1>1, <1>8, <1>21, <1>23, <1>24, FillStep

(* add_source calls an accessor of the environment that is being filled. *)
LEMMA AddSourceStep ==
  ASSUME IInv, NEW t \in Threads, AddSource(t)
  PROVE  IInv'
<1>1. /\ stack[t] # <<>> /\ Top(t).at = "add" /\ Top(t).next <= Sources
      /\ UNCHANGED <<exists, handle, flag, sources, seen, shared>>
      /\ stack' = [stack EXCEPT ![t] =
                     Append([@ EXCEPT ![Len(@)].at = "index"], Call(Top(t).env, None))]
  BY DEF AddSource, At
<1>2. /\ Len(stack[t]) = 1 /\ stack[t][1] = Top(t) /\ Top(t) \in Calls /\ CallOK(Top(t))
      /\ stack[t] \in Seq(Calls)
      /\ Top(t).env \notin shared =>
           /\ \A u \in Threads : \A i \in 1 .. Len(stack[u]) :
                stack[u][i].env = Top(t).env => u = t
           /\ seen = None \/ seen.env # Top(t).env
  BY <1>1, Alone
<1>3. PICK c \in Calls : c = Top(t)
  BY <1>2
<1>4. PICK e \in Envs : e = c.env
  BY DEF Calls
<1>5. PICK f : f = [c EXCEPT !.at = "index"]
  OBVIOUS
<1>6. PICK a : a = Call(e, None)
  OBVIOUS
<1>7. /\ f \in Calls /\ f.env = e /\ f.copy = c.copy /\ f.at = "index"
      /\ f.next = c.next /\ f.as = c.as
  BY <1>4, <1>5 DEF Calls, Points
<1>8. 1 \in 1 .. Sources + 1
  BY SourcesAssumption
<1>9. /\ a \in Calls /\ a.env = e /\ a.copy = None /\ a.at = "ensure" /\ a.next = 1
  BY <1>6, <1>8 DEF Call, Calls, Points
<1>10. /\ stack' \in [Threads -> Seq(Calls)] /\ Len(stack'[t]) = 2
       /\ stack'[t][1] = f /\ stack'[t][2] = a
       /\ \A u \in Threads : u # t => stack'[u] = stack[u]
  <2>1. PICK s \in Seq(Calls) : s = stack[t]
    BY <1>2
  <2>2. Len(s) = 1 /\ s[1] = c /\ 1 \in 1 .. Len(s)
    BY <1>2, <1>3, <2>1
  <2>3. PICK r : r = [s EXCEPT ![1] = f]
    OBVIOUS
  <2>4. r \in Seq(Calls) /\ Len(r) = 1 /\ r[1] = f
    <3>1. /\ [s EXCEPT ![1] = f] \in Seq(Calls) /\ Len([s EXCEPT ![1] = f]) = Len(s)
          /\ \A j \in 1 .. Len(s) : [s EXCEPT ![1] = f][j] = IF j = 1 THEN f ELSE s[j]
      <4>1. f \in Calls
        BY <1>7
      <4>2. s \in Seq(Calls) /\ 1 \in 1 .. Len(s)
        BY <2>2
      <4> QED BY <4>1, <4>2, ExceptSeq
    <3> QED BY <2>2, <2>3, <3>1
  <2>5. /\ Append(r, a) \in Seq(Calls) /\ Len(Append(r, a)) = 2
        /\ Append(r, a)[1] = f /\ Append(r, a)[2] = a
    <3>1. /\ Append(r, a) \in Seq(Calls) /\ Len(Append(r, a)) = Len(r) + 1
          /\ \A i \in 1 .. Len(r) : Append(r, a)[i] = r[i]
          /\ Append(r, a)[Len(r) + 1] = a
      <4>1. r \in Seq(Calls) /\ a \in Calls
        BY <1>9, <2>4
      <4> QED BY <4>1, AppendProperties
    <3>2. Len(r) + 1 = 2 /\ 1 \in 1 .. Len(r)
      BY <2>4
    <3> QED BY <2>4, <3>1, <3>2
  <2>6. stack \in [Threads -> Seq(Calls)]
    BY DEF IInv, Typed
  <2>7. stack' = [stack EXCEPT ![t] = Append([s EXCEPT ![Len(s)].at = "index"], a)]
    BY <1>1, <1>3, <1>4, <1>6, <2>1, <2>6
  <2>8. [s EXCEPT ![Len(s)].at = "index"] = r
    BY <1>5, <2>2, <2>3
  <2> QED BY <2>5, <2>6, <2>7, <2>8
<1>11. ASSUME NEW u \in Threads, NEW i \in 1 .. Len(stack'[u])
       PROVE  \/ u = t /\ i = 1 /\ stack'[u][i] = f
              \/ u = t /\ i = 2 /\ stack'[u][i] = a
              \/ u # t /\ stack'[u][i] = stack[u][i] /\ i \in 1 .. Len(stack[u])
                   /\ (stack[u][i].env # e \/ e \in shared)
  <2>1. CASE u = t
    <3>1. stack'[u] = stack'[t] /\ Len(stack'[u]) = 2
      BY <1>10, <2>1
    <3>2. i = 1 \/ i = 2
      BY <3>1
    <3> QED BY <1>10, <2>1, <3>1, <3>2
  <2>2. CASE u # t
    BY <1>2, <1>3, <1>4, <1>10, <2>2
  <2> QED BY <2>1, <2>2
<1>12. Typed'
  BY <1>1, <1>10 DEF IInv, Typed
<1>13. \A d : CallOK(d)' <=> CallOK(d)
  BY <1>1 DEF CallOK
<1>14. CallOK(f) /\ CallOK(a)
  BY <1>1, <1>2, <1>3, <1>4, <1>7, <1>9 DEF CallOK
<1>15. CallsOK'
  <2>1. ASSUME NEW u \in Threads PROVE Shape(stack'[u])
    <3>1. CASE u = t
      <4>1. Len(stack'[u]) = 2 /\ stack'[u][1] = f /\ stack'[u][2] = a
        BY <1>10, <3>1
      <4>2. Len(stack'[u]) <= 2
        BY <4>1
      <4> QED BY <1>7, <1>9, <4>1, <4>2 DEF Shape
    <3>2. CASE u # t
      BY <1>10, <3>2 DEF IInv, CallsOK
    <3> QED BY <3>1, <3>2
  <2>2. ASSUME NEW u \in Threads, NEW i \in 1 .. Len(stack'[u]) PROVE CallOK(stack'[u][i])
    <3>1. \/ stack'[u][i] \in {f, a}
          \/ i \in 1 .. Len(stack[u]) /\ stack'[u][i] = stack[u][i]
      BY <1>11
    <3>2. \A j \in 1 .. Len(stack[u]) : CallOK(stack[u][j])
      BY DEF IInv, CallsOK
    <3> QED BY <1>14, <3>1, <3>2
  <2> QED BY <1>13, <2>1, <2>2 DEF CallsOK, Shape
<1>16. Calm'
  <2>0. flag' = flag /\ shared' = shared
    BY <1>1
  <2> SUFFICES ASSUME NEW u \in Threads, NEW v \in Threads, u # v,
                      NEW i \in 1 .. Len(stack'[u]), NEW j \in 1 .. Len(stack'[v]),
                      stack'[u][i].env = stack'[v][j].env, stack'[u][i].env \notin shared
               PROVE  flag[stack'[u][i].env] /\ stack'[u][i].at \in Settling
    BY <2>0 DEF Calm
  <2>1. CASE u = t
    <3>1. stack'[u][i].env = e
      BY <1>7, <1>9, <1>11, <2>1
    <3>2. stack'[v][j] = stack[v][j] /\ (stack[v][j].env # e \/ e \in shared)
      BY <1>11, <2>1
    <3> QED BY <3>1, <3>2
  <2>2. CASE v = t
    <3>1. stack'[v][j].env = e
      BY <1>7, <1>9, <1>11, <2>2
    <3>2. stack'[u][i] = stack[u][i] /\ (stack[u][i].env # e \/ e \in shared)
      BY <1>11, <2>2
    <3> QED BY <3>1, <3>2
  <2>3. CASE u # t /\ v # t
    <3>1. /\ stack'[u][i] = stack[u][i] /\ i \in 1 .. Len(stack[u])
          /\ stack'[v][j] = stack[v][j] /\ j \in 1 .. Len(stack[v])
      BY <1>11, <2>3
    <3> QED BY <3>1 DEF IInv, Calm
  <2> QED BY <2>1, <2>2, <2>3
<1>17. OwnCopies'
  <2> SUFFICES ASSUME NEW u \in Threads, NEW v \in Threads,
                      NEW i \in 1 .. Len(stack'[u]), NEW j \in 1 .. Len(stack'[v]),
                      stack'[u][i].copy # None, stack'[u][i].copy = stack'[v][j].copy
               PROVE  u = v /\ i = j
    BY DEF OwnCopies
  <2>1. 1 \in 1 .. Len(stack[t]) /\ stack[t][1].copy = f.copy
    BY <1>2, <1>3, <1>7
  <2>2. /\ i \in 1 .. Len(stack[u]) /\ j \in 1 .. Len(stack[v])
        /\ stack[u][i].copy # None /\ stack[u][i].copy = stack[v][j].copy
    BY <1>9, <1>11, <2>1
  <2> QED BY <2>2 DEF IInv, OwnCopies
<1>18. EnvsOK'
  BY <1>1 DEF IInv, EnvsOK, Uniform, InOrder
<1>19. Final'
  <2> SUFFICES ASSUME seen # None, seen.env \notin shared
               PROVE  sources[seen.env] = seen.sources /\ Done(seen.env)'
    BY <1>1 DEF Final
  <2>1. sources[seen.env] = seen.sources /\ Done(seen.env)
    BY DEF IInv, Final
  <2>2. seen.env # e
    BY <1>2, <1>3, <1>4
  <2>3. ASSUME NEW u \in Threads, NEW i \in 1 .. Len(stack'[u]), stack'[u][i].env = seen.env
        PROVE  stack'[u][i].at \in Settling
    BY <1>7, <1>9, <1>11, <2>1, <2>2, <2>3 DEF Done
  <2> QED BY <1>1, <2>1, <2>3 DEF Done
<1> QED BY <1>12, <1>15, <1>16, <1>17, <1>18, <1>19 DEF IInv

-----------------------------------------------------------------------------
(* Calls that end.                                                         *)

(* A thread leaves some of its calls, perhaps with an answer. *)
LEMMA FewerCalls ==
  ASSUME IInv, UNCHANGED <<exists, handle, flag, sources, shared>>,
         stack' \in [Threads -> Seq(Calls)],
         \A u \in Threads :
           /\ Shape(stack'[u])
           /\ \A i \in 1 .. Len(stack'[u]) :
                i \in 1 .. Len(stack[u]) /\ stack'[u][i] = stack[u][i],
         \/ seen' = seen
         \/ /\ seen'.env \in exists /\ seen'.sources = sources[seen'.env]
            /\ flag[seen'.env] \/ handle[seen'.env] = None
            /\ seen'.env \notin shared =>
                 \A u \in Threads : \A i \in 1 .. Len(stack'[u]) :
                   stack'[u][i].env = seen'.env => stack'[u][i].at \in Settling
  PROVE  IInv'
<1>1. Typed'
  BY DEF IInv, Typed
<1>2. \A c : CallOK(c)' <=> CallOK(c)
  BY DEF CallOK
<1>3. CallsOK'
  <2>1. ASSUME NEW u \in Threads, NEW i \in 1 .. Len(stack'[u]) PROVE CallOK(stack'[u][i])
    BY DEF IInv, CallsOK
  <2> QED BY <1>2, <2>1 DEF CallsOK, Shape
<1>4. Calm'
  <2> SUFFICES ASSUME NEW u \in Threads, NEW v \in Threads, u # v,
                      NEW i \in 1 .. Len(stack'[u]), NEW j \in 1 .. Len(stack'[v]),
                      stack'[u][i].env = stack'[v][j].env, stack'[u][i].env \notin shared
               PROVE  flag[stack'[u][i].env] /\ stack'[u][i].at \in Settling
    BY DEF Calm
  <2>1. /\ stack'[u][i] = stack[u][i] /\ i \in 1 .. Len(stack[u])
        /\ stack'[v][j] = stack[v][j] /\ j \in 1 .. Len(stack[v])
    OBVIOUS
  <2> QED BY <2>1 DEF IInv, Calm
<1>5. OwnCopies'
  <2> SUFFICES ASSUME NEW u \in Threads, NEW v \in Threads,
                      NEW i \in 1 .. Len(stack'[u]), NEW j \in 1 .. Len(stack'[v]),
                      stack'[u][i].copy # None, stack'[u][i].copy = stack'[v][j].copy
               PROVE  u = v /\ i = j
    BY DEF OwnCopies
  <2>1. /\ stack'[u][i] = stack[u][i] /\ i \in 1 .. Len(stack[u])
        /\ stack'[v][j] = stack[v][j] /\ j \in 1 .. Len(stack[v])
    OBVIOUS
  <2> QED BY <2>1 DEF IInv, OwnCopies
<1>6. EnvsOK'
  BY DEF IInv, EnvsOK, Uniform, InOrder
<1>7. Final'
  <2>1. \A e : Done(e) => Done(e)'
    BY DEF Done
  <2>2. CASE seen' = seen
    BY <2>1, <2>2 DEF IInv, Final
  <2>3. CASE seen' # seen
    BY <2>3 DEF Final, Done
  <2> QED BY <2>2, <2>3
<1> QED BY <1>1, <1>3, <1>4, <1>5, <1>6, <1>7 DEF IInv

(* A thread is in one call, or in two and the outer one is its own. *)
LEMMA ReturnStep ==
  ASSUME IInv, NEW t \in Threads, Return(t)
  PROVE  IInv'
<1>1. /\ stack[t] # <<>> /\ Top(t).at = "return" /\ Pop(t)
      /\ UNCHANGED <<exists, handle, flag, sources, shared>>
      /\ seen' = IF Len(stack[t]) > 1 THEN seen
                 ELSE [env |-> Top(t).env, sources |-> sources[Top(t).env]]
  BY DEF Return, At
<1>2. /\ Len(stack[t]) \in {1, 2} /\ Top(t) = stack[t][Len(stack[t])]
      /\ Top(t) \in Calls /\ CallOK(Top(t))
  BY <1>1, TopFacts
<1>3. /\ stack' \in [Threads -> Seq(Calls)] /\ Len(stack'[t]) = Len(stack[t]) - 1
      /\ \A i \in 1 .. Len(stack[t]) - 1 : stack'[t][i] = stack[t][i]
      /\ \A u \in Threads : u # t => stack'[u] = stack[u]
  BY <1>1, PopShape
<1>4. ASSUME NEW u \in Threads
      PROVE  /\ Shape(stack'[u])
             /\ \A i \in 1 .. Len(stack'[u]) :
                  i \in 1 .. Len(stack[u]) /\ stack'[u][i] = stack[u][i]
  <2>1. CASE u = t
    <3>1. Len(stack'[u]) \in {0, 1}
      <4>1. \A n \in {1, 2} : n - 1 \in {0, 1}
        OBVIOUS
      <4> QED BY <1>2, <1>3, <2>1, <4>1
    <3> QED BY <1>2, <1>3, <2>1, <3>1 DEF Shape
  <2>2. CASE u # t
    BY <1>3, <2>2 DEF IInv, CallsOK
  <2> QED BY <2>1, <2>2
<1>5. CASE Len(stack[t]) > 1
  <2>1. seen' = seen
    BY <1>1, <1>5
  <2> QED BY <1>1, <1>3, <1>4, <2>1, FewerCalls
<1>6. CASE ~(Len(stack[t]) > 1)
  <2>1. Len(stack[t]) = 1 /\ Len(stack'[t]) = 0 /\ 1 \in 1 .. Len(stack[t])
    <3>1. \A n \in {1, 2} : ~(n > 1) => n = 1 /\ n - 1 = 0 /\ 1 \in 1 .. n
      OBVIOUS
    <3> QED BY <1>2, <1>3, <1>6, <3>1
  <2>2. seen'.env = Top(t).env /\ seen'.sources = sources[Top(t).env]
    BY <1>1, <1>6
  <2>3. Top(t).env \in exists /\ (flag[Top(t).env] \/ handle[Top(t).env] = None)
    BY <1>1, <1>2 DEF CallOK
  <2>4. ASSUME Top(t).env \notin shared, NEW u \in Threads, NEW i \in 1 .. Len(stack'[u]),
               stack'[u][i].env = Top(t).env
        PROVE  stack'[u][i].at \in Settling
    <3>1. u # t
      <4>1. Len(stack'[u]) # 0
        BY <2>4
      <4> QED BY <2>1, <4>1
    <3>2. stack'[u][i] = stack[u][i] /\ i \in 1 .. Len(stack[u])
      BY <1>4
    <3> QED BY <1>2, <2>1, <2>4, <3>1, <3>2 DEF IInv, Calm
  <2> QED BY <1>1, <1>3, <1>4, <2>2, <2>3, <2>4, FewerCalls
<1> QED BY <1>5, <1>6

(* An exception leaves all calls of the thread. *)
LEMMA RaiseStep ==
  ASSUME IInv, NEW t \in Threads, Raise(t)
  PROVE  IInv'
<1>1. /\ stack' = [stack EXCEPT ![t] = <<>>]
      /\ UNCHANGED <<exists, handle, flag, sources, seen, shared>>
  BY DEF Raise
<1>2. stack \in [Threads -> Seq(Calls)] /\ <<>> \in Seq(Calls) /\ Len(<<>>) = 0
  BY EmptySeq DEF IInv, Typed
<1>3. stack' \in [Threads -> Seq(Calls)]
  BY <1>1, <1>2
<1>4. ASSUME NEW u \in Threads
      PROVE  /\ Shape(stack'[u])
             /\ \A i \in 1 .. Len(stack'[u]) :
                  i \in 1 .. Len(stack[u]) /\ stack'[u][i] = stack[u][i]
  <2>1. CASE u = t
    BY <1>1, <1>2, <2>1 DEF Shape
  <2>2. CASE u # t
    BY <1>1, <1>2, <2>2 DEF IInv, CallsOK
  <2> QED BY <2>1, <2>2
<1> QED BY <1>1, <1>3, <1>4, FewerCalls

-----------------------------------------------------------------------------
(* New objects.                                                            *)

(* An object comes to exist; nobody had it, and what it holds is settled. *)
LEMMA NewObject ==
  ASSUME IInv, NEW g \in Envs \ exists, exists' = exists \cup {g},
         stack' \in [Threads -> Seq(Calls)],
         \A u \in Threads :
           /\ Shape(stack'[u])
           /\ \A i \in 1 .. Len(stack'[u]) :
                /\ i \in 1 .. Len(stack[u]) /\ stack'[u][i] = stack[u][i]
                /\ stack[u][i].copy # g,
         handle' \in [Envs -> Handles \cup {None}], flag' \in [Envs -> BOOLEAN],
         sources' \in [Envs -> Seq(Entries)],
         \A h \in Envs : h # g => /\ handle'[h] = handle[h] /\ flag'[h] = flag[h]
                                 /\ sources'[h] = sources[h]
                                 /\ (h \in shared' <=> h \in shared),
         Uniform(g)', g \notin shared' => InOrder(g)',
         \/ seen' = seen
         \/ seen'.env = g /\ seen'.sources = sources'[g] /\ handle'[g] = None
  PROVE  IInv'
<1>1. /\ exists \subseteq Envs /\ Loaded \in exists /\ g \notin exists /\ g \in Envs
      /\ g # Loaded /\ Loaded \in Envs
  BY LoadedAssumption DEF IInv, Typed
<1>2. Typed'
  <2>1. handle'[Loaded] = "plain"
    BY <1>1 DEF IInv, Typed
  <2> QED BY <1>1, <2>1 DEF IInv, Typed
<1>3. ASSUME NEW u \in Threads, NEW i \in 1 .. Len(stack'[u])
      PROVE  /\ i \in 1 .. Len(stack[u]) /\ stack'[u][i] = stack[u][i]
             /\ CallOK(stack[u][i]) /\ stack[u][i].copy # g
             /\ stack[u][i].copy \in Envs \cup {None}
             /\ stack[u][i].env \in Envs /\ stack[u][i].env # g
  <2>1. i \in 1 .. Len(stack[u]) /\ stack'[u][i] = stack[u][i] /\ stack[u][i].copy # g
    OBVIOUS
  <2>2. CallOK(stack[u][i])
    BY <2>1 DEF IInv, CallsOK
  <2>3. stack[u][i].env \in exists
    BY <2>2 DEF CallOK
  <2>4. stack[u] \in Seq(Calls)
    BY DEF IInv, Typed
  <2>5. stack[u][i] \in Calls
    BY <2>1, <2>4, ElementOfSeq
  <2> QED BY <1>1, <2>1, <2>2, <2>3, <2>5 DEF Calls
<1>4. CallsOK'
  <2>1. ASSUME NEW c, CallOK(c), c.env \in Envs, c.env # g, c.copy # g, c.copy \in Envs \cup {None}
        PROVE  CallOK(c)'
    <3>1. /\ handle'[c.env] = handle[c.env] /\ flag'[c.env] = flag[c.env]
          /\ sources'[c.env] = sources[c.env] /\ (c.env \in shared' <=> c.env \in shared)
      BY <2>1
    <3>2. c.env \in exists'
      BY <2>1 DEF CallOK
    <3>3. c.copy # None => c.copy \notin exists' /\ (c.env \in shared' => c.copy \in shared')
      BY <2>1, <3>1 DEF CallOK
    <3> QED BY <2>1, <3>1, <3>2, <3>3 DEF CallOK
  <2>2. ASSUME NEW u \in Threads, NEW i \in 1 .. Len(stack'[u]) PROVE CallOK(stack[u][i])'
    <3>1. /\ stack'[u][i] = stack[u][i] /\ CallOK(stack[u][i])
          /\ stack[u][i].copy # g /\ stack[u][i].copy \in Envs \cup {None}
          /\ stack[u][i].env \in Envs /\ stack[u][i].env # g
      BY <1>3
    <3>2. PICK c : c = stack[u][i]
      OBVIOUS
    <3>3. CallOK(c)' /\ stack'[u][i] = c
      BY <2>1, <3>1, <3>2
    <3> QED BY <3>3 DEF CallOK
  <2> QED BY <2>2 DEF CallsOK, Shape
<1>5. Calm'
  <2> SUFFICES ASSUME NEW u \in Threads, NEW v \in Threads, u # v,
                      NEW i \in 1 .. Len(stack'[u]), NEW j \in 1 .. Len(stack'[v]),
                      stack'[u][i].env = stack'[v][j].env, stack'[u][i].env \notin shared'
               PROVE  flag'[stack'[u][i].env] /\ stack'[u][i].at \in Settling
    BY DEF Calm
  <2>1. /\ stack'[u][i] = stack[u][i] /\ i \in 1 .. Len(stack[u])
        /\ stack'[v][j] = stack[v][j] /\ j \in 1 .. Len(stack[v])
        /\ stack[u][i].env \in Envs /\ stack[u][i].env # g
    BY <1>3
  <2>2. flag[stack[u][i].env] /\ stack[u][i].at \in Settling
    BY <2>1 DEF IInv, Calm
  <2> QED BY <2>1, <2>2
<1>6. OwnCopies'
  <2> SUFFICES ASSUME NEW u \in Threads, NEW v \in Threads,
                      NEW i \in 1 .. Len(stack'[u]), NEW j \in 1 .. Len(stack'[v]),
                      stack'[u][i].copy # None, stack'[u][i].copy = stack'[v][j].copy
               PROVE  u = v /\ i = j
    BY DEF OwnCopies
  <2>1. /\ stack'[u][i] = stack[u][i] /\ i \in 1 .. Len(stack[u])
        /\ stack'[v][j] = stack[v][j] /\ j \in 1 .. Len(stack[v])
    BY <1>3
  <2> QED BY <2>1 DEF IInv, OwnCopies
<1>7. EnvsOK'
  <2>1. ASSUME NEW e \in exists' PROVE Uniform(e)' /\ (e \notin shared' => InOrder(e)')
    <3>1. CASE e = g
      BY <3>1
    <3>2. CASE e # g
      <4>1. /\ e \in exists /\ e \in Envs /\ handle'[e] = handle[e] /\ flag'[e] = flag[e]
            /\ sources'[e] = sources[e] /\ (e \in shared' <=> e \in shared)
        BY <1>1, <3>2
      <4>2. Uniform(e) /\ (e \notin shared => InOrder(e))
        BY <4>1 DEF IInv, EnvsOK
      <4> QED BY <4>1, <4>2 DEF Uniform, InOrder
    <3> QED BY <3>1, <3>2
  <2>2. \A e \in Envs \ exists' : sources'[e] = <<>>
    BY DEF IInv, EnvsOK
  <2> QED BY <2>1, <2>2 DEF EnvsOK
<1>8. Final'
  <2>1. CASE seen' = seen
    <3> SUFFICES ASSUME seen # None, seen.env \notin shared'
                 PROVE  sources'[seen.env] = seen.sources /\ Done(seen.env)'
      BY <2>1 DEF Final
    <3>1. seen.env \in Envs /\ seen.env # g
      BY <1>1 DEF IInv, Typed
    <3>2. sources[seen.env] = seen.sources /\ Done(seen.env)
      BY <3>1 DEF IInv, Final
    <3>3. ASSUME NEW u \in Threads, NEW i \in 1 .. Len(stack'[u]), stack'[u][i].env = seen.env
          PROVE  stack'[u][i].at \in Settling
      BY <1>3, <3>2, <3>3 DEF Done
    <3> QED BY <2>1, <3>1, <3>2, <3>3 DEF Done
  <2>2. CASE seen' # seen
    <3>1. ASSUME NEW u \in Threads, NEW i \in 1 .. Len(stack'[u]) PROVE stack'[u][i].env # g
      <4>1. stack'[u][i] = stack[u][i] /\ stack[u][i].env # g
        BY <1>3
      <4> QED BY <4>1
    <3>2. seen'.env = g /\ seen'.sources = sources'[g] /\ handle'[g] = None
      BY <2>2
    <3>3. Done(seen.env)'
      BY <3>1, <3>2 DEF Done
    <3> QED BY <3>2, <3>3 DEF Final
  <2> QED BY <2>1, <2>2
<1> QED BY <1>2, <1>4, <1>5, <1>6, <1>7, <1>8 DEF IInv

(* A new object is no existing one and no copy that is being made. *)
LEMMA FreshFacts ==
  ASSUME IInv, NEW t \in Threads, NEW g \in Envs, Fresh(t, g)
  PROVE  /\ g \in Envs \ exists
         /\ \A u \in Threads : \A i \in 1 .. Len(stack[u]) : stack[u][i].copy # g
<1>1. g \notin exists /\ g \notin {f.copy : f \in Frames}
  BY DEF Fresh
<1>2. ASSUME NEW u \in Threads, NEW i \in 1 .. Len(stack[u]) PROVE stack[u][i] \in Frames
  <2>1. stack[u] \in Seq(Calls)
    BY DEF IInv, Typed
  <2>2. i \in DOMAIN stack[u]
    BY <2>1, LenProperties
  <2> QED BY <2>2 DEF Frames
<1> QED BY <1>1, <1>2

(* The native resolve_type_names makes an object with nothing added yet. *)
LEMMA ResolveTypeNamesStep ==
  ASSUME IInv, NEW t \in Threads, NEW e \in Envs, NEW g \in Envs, ResolveTypeNames(t, e, g)
  PROVE  IInv'
<1>1. /\ exists' = exists \cup {g} /\ Fresh(t, g)
      /\ handle' = [handle EXCEPT ![g] = "resolved"] /\ flag' = [flag EXCEPT ![g] = FALSE]
      /\ shared' = shared \ {g} /\ UNCHANGED <<sources, stack, seen>>
  BY DEF ResolveTypeNames
<1>2. /\ g \in Envs \ exists
      /\ \A u \in Threads : \A i \in 1 .. Len(stack[u]) : stack[u][i].copy # g
  BY <1>1, FreshFacts
<1>3. /\ handle \in [Envs -> Handles \cup {None}] /\ flag \in [Envs -> BOOLEAN]
      /\ sources \in [Envs -> Seq(Entries)] /\ stack \in [Threads -> Seq(Calls)]
      /\ \A u \in Threads : Shape(stack[u])
  BY DEF IInv, Typed, CallsOK
<1>4. /\ handle' \in [Envs -> Handles \cup {None}] /\ flag' \in [Envs -> BOOLEAN]
      /\ \A h \in Envs : h # g => handle'[h] = handle[h] /\ flag'[h] = flag[h]
                                 /\ (h \in shared' <=> h \in shared)
  BY <1>1, <1>2, <1>3 DEF Handles
<1>5. sources'[g] = <<>> /\ Len(sources'[g]) = 0
  BY <1>1, <1>2, EmptySeq DEF IInv, EnvsOK
<1>6. Uniform(g)' /\ InOrder(g)'
  BY <1>5 DEF Uniform, InOrder
<1>7. /\ stack' \in [Threads -> Seq(Calls)] /\ seen' = seen
      /\ \A u \in Threads :
           /\ Shape(stack'[u])
           /\ \A i \in 1 .. Len(stack'[u]) :
                /\ i \in 1 .. Len(stack[u]) /\ stack'[u][i] = stack[u][i]
                /\ stack[u][i].copy # g
  BY <1>1, <1>2, <1>3
<1>8. sources' \in [Envs -> Seq(Entries)] /\ \A h \in Envs : sources'[h] = sources[h]
  BY <1>1, <1>3
<1> QED BY <1>1, <1>2, <1>4, <1>6, <1>7, <1>8, NewObject

(* Upstream's resolve_type_names rebuilds the sources that are there. *)
LEMMA ResolveUpstreamStep ==
  ASSUME IInv, NEW t \in Threads, NEW e \in Envs, NEW g \in Envs, ResolveUpstream(t, e, g)
  PROVE  IInv'
<1>1. /\ exists' = exists \cup {g} /\ Fresh(t, g) /\ e \in exists
      /\ handle' = [handle EXCEPT ![g] = None] /\ flag' = [flag EXCEPT ![g] = FALSE]
      /\ shared' = MadeFrom(e, {g}, shared) /\ UNCHANGED <<stack, seen>>
      /\ sources' = [sources EXCEPT ![g] =
                       [i \in DOMAIN sources[e] |-> [index |-> sources[e][i].index,
                                                     as    |-> "resolved"]]]
  BY DEF ResolveUpstream
<1>2. /\ g \in Envs \ exists
      /\ \A u \in Threads : \A i \in 1 .. Len(stack[u]) : stack[u][i].copy # g
  BY <1>1, FreshFacts
<1>3. /\ handle \in [Envs -> Handles \cup {None}] /\ flag \in [Envs -> BOOLEAN]
      /\ sources \in [Envs -> Seq(Entries)] /\ stack \in [Threads -> Seq(Calls)]
      /\ \A u \in Threads : Shape(stack[u])
      /\ g # Loaded
  BY <1>2 DEF IInv, Typed, CallsOK
<1>4. PICK s \in Seq(Entries) : s = sources[e]
  BY <1>3
<1>5. Len(s) \in Nat /\ DOMAIN s = 1 .. Len(s)
  BY LenProperties
<1>6. PICK q : q = [i \in 1 .. Len(s) |-> [index |-> s[i].index, as |-> "resolved"]]
  OBVIOUS
<1>7. /\ q \in Seq(Entries) /\ Len(q) = Len(s)
      /\ \A i \in 1 .. Len(s) : q[i].index = s[i].index /\ q[i].as = "resolved"
  <2>1. ASSUME NEW i \in 1 .. Len(s)
        PROVE  q[i] \in Entries /\ q[i].index = s[i].index /\ q[i].as = "resolved"
    <3>1. s[i] \in Entries
      BY ElementOfSeq
    <3> QED BY <1>6, <3>1 DEF Entries, Handles
  <2>2. q \in [1 .. Len(s) -> Entries]
    BY <1>6, <2>1
  <2>3. q \in Seq(Entries)
    BY <1>5, <2>2, SeqDef
  <2>4. Len(q) = Len(s)
    BY <1>5, <2>2, <2>3, LenProperties
  <2> QED BY <2>1, <2>3, <2>4
<1>8. sources' = [sources EXCEPT ![g] = q]
  BY <1>1, <1>4, <1>5, <1>6
<1>9. /\ handle' \in [Envs -> Handles \cup {None}] /\ flag' \in [Envs -> BOOLEAN]
      /\ sources' \in [Envs -> Seq(Entries)]
      /\ \A h \in Envs : h # g => /\ handle'[h] = handle[h] /\ flag'[h] = flag[h]
                                 /\ sources'[h] = sources[h]
                                 /\ (h \in shared' <=> h \in shared)
      /\ handle'[g] = None /\ sources'[g] = q
      /\ g \notin shared' => e \notin shared
  BY <1>1, <1>2, <1>3, <1>7, <1>8 DEF MadeFrom
<1>10. Uniform(g)'
  <2>1. \A i \in 1 .. Len(s) : 1 \in 1 .. Len(s)
    BY <1>5
  <2> QED BY <1>3, <1>7, <1>9, <2>1 DEF Uniform
<1>11. g \notin shared' => InOrder(g)'
  <2>1. e \notin shared => \A i \in 1 .. Len(s) : s[i].index = i
    BY <1>1, <1>4 DEF IInv, EnvsOK, InOrder
  <2> QED BY <1>7, <1>9, <2>1 DEF InOrder
<1>12. /\ stack' \in [Threads -> Seq(Calls)] /\ seen' = seen
       /\ \A u \in Threads :
            /\ Shape(stack'[u])
            /\ \A i \in 1 .. Len(stack'[u]) :
                 /\ i \in 1 .. Len(stack[u]) /\ stack'[u][i] = stack[u][i]
                 /\ stack[u][i].copy # g
  BY <1>1, <1>2, <1>3
<1> QED BY <1>1, <1>2, <1>9, <1>10, <1>11, <1>12, NewObject

(* The copy comes to exist, with what the original shows. *)
LEMMA ReturnCopyStep ==
  ASSUME IInv, NEW t \in Threads, ReturnCopy(t)
  PROVE  IInv'
<1>1. /\ stack[t] # <<>> /\ Top(t).at = "return" /\ Top(t).copy # None /\ Pop(t)
      /\ UNCHANGED shared /\ exists' = exists \cup {Top(t).copy}
      /\ sources' = [sources EXCEPT ![Top(t).copy] = sources[Top(t).env]]
      /\ handle' = [handle EXCEPT ![Top(t).copy] = None]
      /\ flag' = [flag EXCEPT ![Top(t).copy] = @ \/ handle[Top(t).copy] # None]
      /\ seen' = [env |-> Top(t).copy, sources |-> sources[Top(t).env]]
  BY DEF ReturnCopy, At
<1>2. /\ Len(stack[t]) \in {1, 2} /\ Shape(stack[t]) /\ Top(t) = stack[t][Len(stack[t])]
      /\ Top(t) \in Calls /\ CallOK(Top(t))
  BY <1>1, TopFacts
<1>3. Len(stack[t]) = 1 /\ stack[t][1] = Top(t) /\ 1 \in 1 .. Len(stack[t])
  <2>1. Len(stack[t]) = 1
    BY <1>1, <1>2 DEF Shape
  <2> QED BY <1>2, <2>1
<1>4. PICK c \in Calls : c = Top(t)
  BY <1>2
<1>5. c.env \in exists /\ c.copy \notin exists /\ (c.env \in shared => c.copy \in shared)
  BY <1>1, <1>2, <1>4 DEF CallOK
<1>6. PICK g \in Envs \ exists : g = c.copy
  BY <1>1, <1>4, <1>5 DEF Calls
<1>7. PICK e \in Envs : e = c.env
  BY DEF Calls
<1>8. /\ handle \in [Envs -> Handles \cup {None}] /\ flag \in [Envs -> BOOLEAN]
      /\ sources \in [Envs -> Seq(Entries)] /\ g # Loaded
  BY <1>6 DEF IInv, Typed
<1>9. /\ stack' \in [Threads -> Seq(Calls)] /\ Len(stack'[t]) = 0
      /\ \A u \in Threads : u # t => stack'[u] = stack[u]
  <2>1. /\ stack' \in [Threads -> Seq(Calls)] /\ Len(stack'[t]) = Len(stack[t]) - 1
        /\ \A u \in Threads : u # t => stack'[u] = stack[u]
    BY <1>1, PopShape
  <2>2. Len(stack[t]) - 1 = 0
    BY <1>3
  <2> QED BY <2>1, <2>2
<1>10. ASSUME NEW u \in Threads
       PROVE  /\ Shape(stack'[u])
              /\ \A i \in 1 .. Len(stack'[u]) :
                   /\ i \in 1 .. Len(stack[u]) /\ stack'[u][i] = stack[u][i]
                   /\ stack[u][i].copy # g
  <2>1. CASE u = t
    BY <1>9, <2>1 DEF Shape
  <2>2. CASE u # t
    <3>1. Shape(stack[u]) /\ stack'[u] = stack[u]
      BY <1>9, <2>2 DEF IInv, CallsOK
    <3>2. stack[t][1].copy = g /\ g # None
      BY <1>1, <1>3, <1>4, <1>6
    <3>3. \A i \in 1 .. Len(stack[u]) : stack[u][i].copy # g
      BY <1>3, <2>2, <3>2 DEF IInv, OwnCopies
    <3> QED BY <3>1, <3>3
  <2> QED BY <2>1, <2>2
<1>11. /\ exists' = exists \cup {g} /\ sources' = [sources EXCEPT ![g] = sources[e]]
       /\ handle' = [handle EXCEPT ![g] = None]
       /\ flag' = [flag EXCEPT ![g] = flag[g] \/ handle[g] # None]
       /\ seen'.env = g /\ seen'.sources = sources[e]
  BY <1>1, <1>4, <1>6, <1>7, <1>8
<1>12. /\ handle' \in [Envs -> Handles \cup {None}] /\ handle'[g] = None
       /\ sources' \in [Envs -> Seq(Entries)] /\ sources'[g] = sources[e]
       /\ \A h \in Envs : h # g => handle'[h] = handle[h] /\ sources'[h] = sources[h]
  BY <1>8, <1>11
<1>13. /\ flag' \in [Envs -> BOOLEAN]
       /\ \A h \in Envs : h # g => flag'[h] = flag[h]
  BY <1>8, <1>11
<1>14. Uniform(e) /\ (e \notin shared => InOrder(e))
  BY <1>5, <1>7 DEF IInv, EnvsOK
<1>15. Uniform(g)'
  <2>1. sources[e] \in Seq(Entries)
    BY <1>8
  <2>2. \A i \in 1 .. Len(sources[e]) : 1 \in 1 .. Len(sources[e])
    BY <2>1, LenProperties
  <2> QED BY <1>8, <1>12, <1>14, <2>2 DEF Uniform
<1>16. g \notin shared' => InOrder(g)'
  BY <1>1, <1>5, <1>6, <1>7, <1>12, <1>14 DEF InOrder
<1>17. \A h \in Envs : h \in shared' <=> h \in shared
  BY <1>1
<1>18. seen'.env = g /\ seen'.sources = sources'[g] /\ handle'[g] = None
  BY <1>11, <1>12
<1> QED BY <1>9, <1>10, <1>11, <1>12, <1>13, <1>15, <1>16, <1>17, <1>18, NewObject

-----------------------------------------------------------------------------
(* New calls.                                                              *)

(* A thread that is in no call makes one; whoever fills the environment it
   calls makes it a shared one, with the copies that are being made of it. *)
LEMMA EnterStep ==
  ASSUME IInv, NEW t \in Threads, stack[t] = <<>>, NEW e \in Envs, e \in exists,
         NEW copy \in Envs \cup {None},
         copy # None => /\ copy \notin exists
                        /\ \A u \in Threads : \A i \in 1 .. Len(stack[u]) : stack[u][i].copy # copy,
         Push(t, Call(e, copy)), UNCHANGED <<exists, sources, seen>>,
         handle' \in [Envs -> Handles \cup {None}], flag' \in [Envs -> BOOLEAN],
         \A h \in exists : handle'[h] = handle[h] /\ flag'[h] = flag[h],
         \A h \in exists : h \in shared => h \in shared',
         \A u \in Threads : \A i \in 1 .. Len(stack[u]) :
           stack[u][i].copy # None /\ stack[u][i].env \in shared' => stack[u][i].copy \in shared',
         copy # None /\ e \in shared' => copy \in shared',
         e \notin shared' => Settled(t, e)
  PROVE  IInv'
<1>1. /\ exists \subseteq Envs /\ Loaded \in exists /\ stack \in [Threads -> Seq(Calls)]
      /\ 1 \in 1 .. Sources + 1
  BY SourcesAssumption DEF IInv, Typed
<1>2. PICK a : a = Call(e, copy)
  OBVIOUS
<1>3. /\ a \in Calls /\ a.env = e /\ a.copy = copy /\ a.at = "ensure" /\ a.next = 1
  BY <1>1, <1>2 DEF Call, Calls, Points
<1>4. /\ stack' \in [Threads -> Seq(Calls)] /\ Len(stack'[t]) = 1 /\ stack'[t][1] = a
      /\ \A u \in Threads : u # t => stack'[u] = stack[u]
  BY <1>2, <1>3, PushShape
<1>5. ASSUME NEW u \in Threads, NEW i \in 1 .. Len(stack'[u])
      PROVE  \/ u = t /\ i = 1 /\ stack'[u][i] = a
             \/ /\ u # t /\ stack'[u][i] = stack[u][i] /\ i \in 1 .. Len(stack[u])
                /\ CallOK(stack[u][i]) /\ stack[u][i].env \in exists
                /\ stack[u][i].copy # None => /\ stack[u][i].copy # copy
                                              /\ stack[u][i].env \in shared' =>
                                                   stack[u][i].copy \in shared'
  <2>1. CASE u = t
    <3>1. stack'[u] = stack'[t] /\ Len(stack'[u]) = 1
      BY <1>4, <2>1
    <3>2. i = 1
      BY <3>1
    <3> QED BY <1>4, <2>1, <3>1, <3>2
  <2>2. CASE u # t
    <3>1. stack'[u][i] = stack[u][i] /\ i \in 1 .. Len(stack[u])
      BY <1>4, <2>2
    <3>2. CallOK(stack[u][i])
      BY <3>1 DEF IInv, CallsOK
    <3>3. stack[u][i].env \in exists
      BY <3>2 DEF CallOK
    <3>4. stack[u][i].copy # None => stack[u][i].copy # copy
      BY <3>1
    <3>5. stack[u][i].copy # None /\ stack[u][i].env \in shared' => stack[u][i].copy \in shared'
      BY <3>1
    <3> QED BY <2>2, <3>1, <3>2, <3>3, <3>4, <3>5
  <2> QED BY <2>1, <2>2
<1>6. Typed'
  <2>1. handle'[Loaded] = "plain"
    BY <1>1 DEF IInv, Typed
  <2> QED BY <1>4, <2>1 DEF IInv, Typed
<1>7. CallOK(a)'
  BY <1>3 DEF CallOK
<1>8. CallsOK'
  <2>1. ASSUME NEW u \in Threads PROVE Shape(stack'[u])
    <3>1. CASE u = t
      <4>1. Len(stack'[u]) = 1
        BY <1>4, <3>1
      <4> QED BY <4>1 DEF Shape
    <3>2. CASE u # t
      BY <1>4, <3>2 DEF IInv, CallsOK
    <3> QED BY <3>1, <3>2
  <2>2. ASSUME NEW c, CallOK(c), c.env \in exists,
               c.copy # None => (c.env \in shared' => c.copy \in shared')
        PROVE  CallOK(c)'
    <3>1. /\ handle'[c.env] = handle[c.env] /\ flag'[c.env] = flag[c.env]
          /\ c.env \in shared => c.env \in shared'
      BY <2>2
    <3> QED BY <2>2, <3>1 DEF CallOK
  <2>3. ASSUME NEW u \in Threads, NEW i \in 1 .. Len(stack'[u]) PROVE CallOK(stack[u][i])'
    <3>1. PICK c : c = stack'[u][i]
      OBVIOUS
    <3>2. CallOK(c)'
      <4>1. CASE u = t
        BY <1>5, <1>7, <3>1, <4>1
      <4>2. CASE u # t
        <5>1. /\ c = stack[u][i] /\ CallOK(stack[u][i]) /\ stack[u][i].env \in exists
              /\ stack[u][i].copy # None =>
                   (stack[u][i].env \in shared' => stack[u][i].copy \in shared')
          BY <1>5, <3>1, <4>2
        <5> QED BY <2>2, <5>1
      <4> QED BY <4>1, <4>2
    <3> QED BY <3>1, <3>2 DEF CallOK
  <2> QED BY <2>1, <2>3 DEF CallsOK, Shape
<1>9. e \notin shared' =>
        \A u \in Threads : \A i \in 1 .. Len(stack[u]) :
          u # t /\ stack[u][i].env = e => flag[e] /\ stack[u][i].at \in Settling
  <2> SUFFICES ASSUME e \notin shared', NEW u \in Threads, NEW i \in 1 .. Len(stack[u]),
                      u # t, stack[u][i].env = e
               PROVE  flag[e] /\ stack[u][i].at \in Settling
    OBVIOUS
  <2>1. stack[u] \in Seq(Calls)
    BY <1>1
  <2>2. i \in DOMAIN stack[u] /\ u \in Threads \ {t}
    BY <2>1, LenProperties
  <2> QED BY <2>2 DEF Settled, Settling
<1>10. Calm'
  <2> SUFFICES ASSUME NEW u \in Threads, NEW v \in Threads, u # v,
                      NEW i \in 1 .. Len(stack'[u]), NEW j \in 1 .. Len(stack'[v]),
                      stack'[u][i].env = stack'[v][j].env, stack'[u][i].env \notin shared'
               PROVE  flag'[stack'[u][i].env] /\ stack'[u][i].at \in Settling
    BY DEF Calm
  <2>1. CASE u = t
    <3>1. stack'[u][i] = a
      BY <1>5, <2>1
    <3>2. stack'[v][j] = stack[v][j] /\ j \in 1 .. Len(stack[v])
      BY <1>5, <2>1
    <3>3. flag[e] /\ stack[v][j].at \in Settling
      BY <1>3, <1>9, <2>1, <3>1, <3>2
    <3> QED BY <1>3, <3>1, <3>3 DEF Settling
  <2>2. CASE v = t
    <3>1. stack'[v][j] = a
      BY <1>5, <2>2
    <3>2. stack'[u][i] = stack[u][i] /\ i \in 1 .. Len(stack[u])
      BY <1>5, <2>2
    <3>3. flag[e] /\ stack[u][i].at \in Settling
      BY <1>3, <1>9, <2>2, <3>1, <3>2
    <3> QED BY <1>3, <3>1, <3>2, <3>3
  <2>3. CASE u # t /\ v # t
    <3>1. /\ stack'[u][i] = stack[u][i] /\ i \in 1 .. Len(stack[u]) /\ stack[u][i].env \in exists
          /\ stack'[v][j] = stack[v][j] /\ j \in 1 .. Len(stack[v])
      BY <1>5, <2>3
    <3>2. flag[stack[u][i].env] /\ stack[u][i].at \in Settling
      BY <3>1 DEF IInv, Calm
    <3> QED BY <3>1, <3>2
  <2> QED BY <2>1, <2>2, <2>3
<1>11. OwnCopies'
  <2> SUFFICES ASSUME NEW u \in Threads, NEW v \in Threads,
                      NEW i \in 1 .. Len(stack'[u]), NEW j \in 1 .. Len(stack'[v]),
                      stack'[u][i].copy # None, stack'[u][i].copy = stack'[v][j].copy
               PROVE  u = v /\ i = j
    BY DEF OwnCopies
  <2>1. CASE u # t /\ v # t
    <3>1. /\ stack'[u][i] = stack[u][i] /\ i \in 1 .. Len(stack[u])
          /\ stack'[v][j] = stack[v][j] /\ j \in 1 .. Len(stack[v])
      BY <1>5, <2>1
    <3> QED BY <3>1 DEF IInv, OwnCopies
  <2>2. CASE u = t /\ v # t
    BY <1>3, <1>5, <2>2
  <2>3. CASE u # t /\ v = t
    BY <1>3, <1>5, <2>3
  <2>4. CASE u = t /\ v = t
    BY <1>5, <2>4
  <2> QED BY <2>1, <2>2, <2>3, <2>4
<1>12. EnvsOK'
  <2>1. ASSUME NEW h \in exists PROVE Uniform(h)' /\ (h \notin shared' => InOrder(h)')
    <3>1. /\ handle'[h] = handle[h] /\ flag'[h] = flag[h] /\ sources'[h] = sources[h]
          /\ h \in shared => h \in shared'
      OBVIOUS
    <3>2. Uniform(h) /\ (h \notin shared => InOrder(h))
      BY DEF IInv, EnvsOK
    <3> QED BY <3>1, <3>2 DEF Uniform, InOrder
  <2> QED BY <2>1 DEF IInv, EnvsOK
<1>13. Final'
  <2> SUFFICES ASSUME seen # None, seen.env \notin shared'
               PROVE  sources[seen.env] = seen.sources /\ Done(seen.env)'
    BY DEF Final
  <2>1. seen.env \in exists /\ seen.env \notin shared
    BY DEF IInv, Typed
  <2>2. sources[seen.env] = seen.sources /\ Done(seen.env)
    BY <2>1 DEF IInv, Final
  <2>3. ASSUME NEW u \in Threads, NEW i \in 1 .. Len(stack'[u]), stack'[u][i].env = seen.env
        PROVE  stack'[u][i].at \in Settling
    <3>1. CASE u = t
      <4>1. stack'[u][i] = a
        BY <1>5, <3>1
      <4> QED BY <1>3, <4>1 DEF Settling
    <3>2. CASE u # t
      <4>1. stack'[u][i] = stack[u][i] /\ i \in 1 .. Len(stack[u])
        BY <1>5, <3>2
      <4> QED BY <2>2, <2>3, <4>1 DEF Done
    <3> QED BY <3>1, <3>2
  <2> QED BY <2>1, <2>2, <2>3 DEF Done
<1> QED BY <1>6, <1>8, <1>10, <1>11, <1>12, <1>13 DEF IInv

(* What becomes shared when a thread calls e, and perhaps makes a copy. *)
LEMMA ShareFacts ==
  ASSUME IInv, NEW t \in Threads, NEW e \in Envs, e \in exists, NEW new,
         Share(t, e, new), new \cap exists = {},
         \A u \in Threads : \A i \in 1 .. Len(stack[u]) : stack[u][i].copy \notin new
  PROVE  /\ \A h \in exists : h \in shared => h \in shared'
         /\ \A u \in Threads : \A i \in 1 .. Len(stack[u]) :
              stack[u][i].copy # None /\ stack[u][i].env \in shared' =>
                stack[u][i].copy \in shared'
         /\ e \in shared' => new \subseteq shared'
         /\ e \notin shared' => Settled(t, e)
<1>1. PICK now : /\ now = IF Settled(t, e) THEN shared ELSE shared \cup {e} \cup CopiesOf(e)
                 /\ shared' = MadeFrom(e, new, now)
  BY DEF Share
<1>2. shared \subseteq now /\ (e \notin now => Settled(t, e))
  BY <1>1
<1>3. shared' = now \cup new \/ shared' = now \ new
  BY <1>1 DEF MadeFrom
<1>4. \A h : h \notin new => (h \in shared' <=> h \in now)
  BY <1>3
<1>5. \A h \in exists : h \in shared' <=> h \in now
  BY <1>4
<1>6. e \in shared' => new \subseteq shared'
  BY <1>1, <1>5 DEF MadeFrom
<1>7. ASSUME NEW u \in Threads, NEW i \in 1 .. Len(stack[u]),
             stack[u][i].copy # None, stack[u][i].env \in shared'
      PROVE  stack[u][i].copy \in shared'
  <2>1. stack[u][i].env \in exists /\ (stack[u][i].env \in shared => stack[u][i].copy \in shared)
    BY <1>7 DEF IInv, CallsOK, CallOK
  <2>2. stack[u] \in Seq(Calls)
    BY DEF IInv, Typed
  <2>3. i \in DOMAIN stack[u]
    BY <2>2, LenProperties
  <2>4. stack[u][i] \in Frames
    BY <2>3 DEF Frames
  <2>5. CASE stack[u][i].env \in shared
    BY <1>2, <1>4, <2>1, <2>5
  <2>6. CASE stack[u][i].env \notin shared
    <3>1. stack[u][i].env \in now
      BY <1>5, <1>7, <2>1
    <3>2. now = shared \cup {e} \cup CopiesOf(e) \/ now = shared
      BY <1>1
    <3>3. ASSUME stack[u][i].env = e PROVE stack[u][i].copy \in CopiesOf(e)
      BY <1>7, <2>4, <3>3 DEF CopiesOf
    <3>4. ASSUME stack[u][i].env \in CopiesOf(e) PROVE FALSE
      <4>1. PICK f \in Frames : f.env = e /\ f.copy # None /\ f.copy = stack[u][i].env
        BY <3>4 DEF CopiesOf
      <4>2. PICK v \in Threads : \E j \in DOMAIN stack[v] : f = stack[v][j]
        BY DEF Frames
      <4>3. stack[v] \in Seq(Calls)
        BY DEF IInv, Typed
      <4>4. PICK j \in 1 .. Len(stack[v]) : f = stack[v][j]
        BY <4>2, <4>3, LenProperties
      <4>5. CallOK(stack[v][j])
        BY DEF IInv, CallsOK
      <4> QED BY <2>1, <4>1, <4>4, <4>5 DEF CallOK
    <3>5. stack[u][i].env = e /\ now = shared \cup {e} \cup CopiesOf(e)
      BY <2>6, <3>1, <3>2, <3>4
    <3> QED BY <1>4, <3>3, <3>5
  <2> QED BY <2>5, <2>6
<1> QED BY <1>2, <1>5, <1>6, <1>7

(* An accessor is called. *)
LEMMA AccessStep ==
  ASSUME IInv, NEW t \in Threads, NEW e \in Envs, Access(t, e)
  PROVE  IInv'
<1>1. /\ stack[t] = <<>> /\ e \in exists /\ Push(t, Call(e, None)) /\ Share(t, e, {})
      /\ UNCHANGED <<exists, handle, flag, sources, seen>>
  BY DEF Access
<1>2. /\ \A h \in exists : h \in shared => h \in shared'
      /\ \A u \in Threads : \A i \in 1 .. Len(stack[u]) :
           stack[u][i].copy # None /\ stack[u][i].env \in shared' =>
             stack[u][i].copy \in shared'
      /\ e \notin shared' => Settled(t, e)
  <2>1. {} \cap exists = {}
    OBVIOUS
  <2>2. \A u \in Threads : \A i \in 1 .. Len(stack[u]) : stack[u][i].copy \notin {}
    OBVIOUS
  <2> QED BY <1>1, <2>1, <2>2, ShareFacts
<1>3. handle' \in [Envs -> Handles \cup {None}] /\ flag' \in [Envs -> BOOLEAN]
  BY <1>1 DEF IInv, Typed
<1> QED BY <1>1, <1>2, <1>3, EnterStep

(* dup is called, for the copy g. *)
LEMMA DupStep ==
  ASSUME IInv, NEW t \in Threads, NEW e \in Envs, NEW g \in Envs, Dup(t, e, g)
  PROVE  IInv'
<1>1. /\ stack[t] = <<>> /\ e \in exists /\ Fresh(t, g) /\ Push(t, Call(e, g))
      /\ Share(t, e, {g}) /\ UNCHANGED <<exists, sources, seen>>
      /\ handle' = [handle EXCEPT ![g] = handle[e]] /\ flag' = [flag EXCEPT ![g] = flag[e]]
  BY DEF Dup
<1>2. /\ g \in Envs \ exists
      /\ \A u \in Threads : \A i \in 1 .. Len(stack[u]) : stack[u][i].copy # g
  BY <1>1, FreshFacts
<1>3. /\ \A h \in exists : h \in shared => h \in shared'
      /\ \A u \in Threads : \A i \in 1 .. Len(stack[u]) :
           stack[u][i].copy # None /\ stack[u][i].env \in shared' =>
             stack[u][i].copy \in shared'
      /\ e \in shared' => g \in shared'
      /\ e \notin shared' => Settled(t, e)
  <2>1. {g} \cap exists = {}
    BY <1>2
  <2>2. \A u \in Threads : \A i \in 1 .. Len(stack[u]) : stack[u][i].copy \notin {g}
    BY <1>2
  <2> QED BY <1>1, <2>1, <2>2, ShareFacts
<1>4. handle \in [Envs -> Handles \cup {None}] /\ flag \in [Envs -> BOOLEAN] /\ exists \subseteq Envs
  BY DEF IInv, Typed
<1>5. /\ handle' \in [Envs -> Handles \cup {None}] /\ flag' \in [Envs -> BOOLEAN]
      /\ \A h \in exists : handle'[h] = handle[h] /\ flag'[h] = flag[h]
  BY <1>1, <1>2, <1>4
<1> QED BY <1>1, <1>2, <1>3, <1>5, EnterStep

-----------------------------------------------------------------------------
(* The invariant and what follows from it.                                 *)

(* In the beginning there is the loaded environment and no call. *)
LEMMA InitHolds ==
  Init => IInv
<1> SUFFICES ASSUME Init PROVE IInv
  OBVIOUS
<1>1. <<>> \in Seq(Calls) /\ <<>> \in Seq(Entries) /\ Len(<<>>) = 0
  BY EmptySeq
<1>2. /\ exists = {Loaded} /\ handle = [e \in Envs |-> IF e = Loaded THEN "plain" ELSE None]
      /\ flag = [e \in Envs |-> FALSE] /\ sources = [e \in Envs |-> <<>>]
      /\ stack = [t \in Threads |-> <<>>] /\ seen = None
  BY DEF Init
<1>3. Typed
  BY <1>1, <1>2, LoadedAssumption DEF Typed, Handles
<1>4. \A t \in Threads : Len(stack[t]) = 0
  BY <1>1, <1>2
<1>5. CallsOK /\ Calm /\ OwnCopies
  BY <1>4 DEF CallsOK, Calm, OwnCopies, Shape
<1>6. EnvsOK
  BY <1>1, <1>2, LoadedAssumption DEF EnvsOK, Uniform, InOrder
<1>7. Final
  BY <1>2 DEF Final
<1> QED BY <1>3, <1>5, <1>6, <1>7 DEF IInv

(* Every step keeps the invariant. *)
LEMMA NextPreserves ==
  IInv /\ [Next]_vars => IInv'
<1> SUFFICES ASSUME IInv, [Next]_vars PROVE IInv'
  OBVIOUS
<1>1. CASE UNCHANGED vars
  <2>1. UNCHANGED <<exists, handle, flag, sources, shared, stack, seen>>
    BY <1>1 DEF vars
  <2>2. stack' \in [Threads -> Seq(Calls)]
    BY <2>1 DEF IInv, Typed
  <2>3. \A u \in Threads :
          /\ Shape(stack'[u])
          /\ \A i \in 1 .. Len(stack'[u]) :
               i \in 1 .. Len(stack[u]) /\ stack'[u][i] = stack[u][i]
    BY <2>1 DEF IInv, CallsOK
  <2> QED BY <2>1, <2>2, <2>3, FewerCalls
<1>2. CASE Next
  <2>1. PICK t \in Threads :
          \/ Run(t) \/ Raise(t)
          \/ \E e \in Envs : Access(t, e)
          \/ \E e, g \in Envs :
               Dup(t, e, g) \/ ResolveTypeNames(t, e, g) \/ ResolveUpstream(t, e, g)
    BY <1>2 DEF Next
  <2>2. CASE Run(t)
    BY <2>2, PlainSteps, SetFlagStep, AddSourceStep, IndexSourceStep, ReturnStep,
       ReturnCopyStep DEF Run
  <2>3. CASE Raise(t)
    BY <2>3, RaiseStep
  <2>4. CASE \E e \in Envs : Access(t, e)
    BY <2>4, AccessStep
  <2>5. CASE \E e, g \in Envs :
               Dup(t, e, g) \/ ResolveTypeNames(t, e, g) \/ ResolveUpstream(t, e, g)
    BY <2>5, DupStep, ResolveTypeNamesStep, ResolveUpstreamStep
  <2> QED BY <2>1, <2>2, <2>3, <2>4, <2>5
<1> QED BY <1>1, <1>2

(* The invariant holds in every reachable state. *)
THEOREM Invariance == Spec => []IInv
<1> QED BY InitHolds, NextPreserves, PTL DEF Spec

(* The objects, handles, flags, sources and calls are what they should be:
   a call never counts past the last source. *)
THEOREM TypeCorrect == Spec => []TypeOK
<1>1. ASSUME IInv PROVE TypeOK
  <2>1. ASSUME NEW t \in Threads, NEW i \in DOMAIN stack[t]
        PROVE  /\ stack[t][i].env \in exists
               /\ stack[t][i].at \in Points /\ stack[t][i].next \in 1 .. Sources + 1
    <3>1. stack[t] \in Seq(Calls)
      BY <1>1 DEF IInv, Typed
    <3>2. i \in 1 .. Len(stack[t])
      BY <3>1, LenProperties
    <3>3. stack[t][i] \in Calls
      BY <3>1, <3>2, ElementOfSeq
    <3>4. CallOK(stack[t][i])
      BY <1>1, <3>2 DEF IInv, CallsOK
    <3> QED BY <3>3, <3>4 DEF Calls, CallOK
  <2> QED BY <1>1, <2>1 DEF IInv, Typed, TypeOK, Entries, Points
<1> QED BY <1>1, Invariance, PTL

(* Each source is added at most once, and in order, to an environment that
   no second thread called while it was filled. *)
THEOREM SourcesAreAddedOnce == Spec => []EachSourceOnce
<1>1. ASSUME IInv PROVE EachSourceOnce
  <2> SUFFICES ASSUME NEW e \in exists \ shared, NEW i \in DOMAIN sources[e]
               PROVE  sources[e][i].index = i
    BY DEF EachSourceOnce
  <2>1. sources[e] \in Seq(Entries)
    BY <1>1 DEF IInv, Typed
  <2>2. i \in 1 .. Len(sources[e])
    BY <2>1, LenProperties
  <2> QED BY <1>1, <2>2 DEF IInv, EnvsOK, InOrder
<1> QED BY <1>1, Invariance, PTL

(* No thread is more than two calls deep, whatever add_source calls. *)
THEOREM NoDeepReentry == Spec => []ReentryIsShallow
<1>1. ASSUME IInv PROVE ReentryIsShallow
  BY <1>1 DEF IInv, CallsOK, Shape, ReentryIsShallow
<1> QED BY <1>1, Invariance, PTL

(* An environment shows names as written or resolved, never a mixture, also
   when several threads fill it at once. *)
THEOREM NoMixture == Spec => []OriginalStaysUnresolved
<1>1. ASSUME IInv PROVE OriginalStaysUnresolved
  <2> SUFFICES ASSUME NEW e \in exists, NEW i \in DOMAIN sources[e]
               PROVE  /\ sources[e][i].as = IF e = Loaded THEN "plain" ELSE sources[e][1].as
                      /\ handle[e] # None => sources[e][i].as = handle[e]
    BY DEF OriginalStaysUnresolved
  <2>1. sources[e] \in Seq(Entries)
    BY <1>1 DEF IInv, Typed
  <2>2. i \in 1 .. Len(sources[e])
    BY <2>1, LenProperties
  <2> QED BY <1>1, <2>2 DEF IInv, EnvsOK, Uniform
<1> QED BY <1>1, Invariance, PTL

(* The Hashes a caller has been given never change behind it. *)
THEOREM AnswersStay == Spec => []AnswersAreFinal
<1>1. ASSUME IInv PROVE AnswersAreFinal
  BY <1>1 DEF IInv, Final, AnswersAreFinal
<1> QED BY <1>1, Invariance, PTL

=============================================================================
