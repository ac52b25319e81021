----------------------- MODULE EnvironmentLoaderProofs -----------------------
(***************************************************************************)
(* Safety of the loader for any number of threads, libraries and           *)
(* dependencies, cyclic or not.  The invariant is about the stack of each  *)
(* thread by itself: what a call on it knows of additions, and what a call *)
(* below the topmost one is waiting for.  Additions only grow, so a step   *)
(* of one thread does not disturb what the others rely on.                 *)
(***************************************************************************)
EXTENDS EnvironmentLoader, SequenceTheorems, TLAPS

Items   == [lib : Libs, deps : BOOLEAN]
Args    == Dirs \cup Items \cup {None}
Todos   == LibNames \cup Libs \cup Dirs \cup {None}
Frames  == [op : Ops, arg : Args, at : Points, todo : Seq(Todos),
            dirs : Seq(Dirs), libs : Seq(Libs), since : Nat]

Unversioned(n) == [name |-> n, version |-> None]

\* What holds of a call f whatever is above or below it, with past = p,
\* owed = o and ls the libraries added.
FrameOK(f, p, o, ls) ==
  /\ f.since \in 1 .. Len(p)
  /\ f.op = "path" => f.arg \in Dirs
  /\ f.op = "add" => f.arg \in Items /\ f.todo \in Seq(LibNames)
  /\ f.op = "libs" => f.todo \in Seq(Libs) /\ Members(f.todo) \subseteq ls
                       /\ Members(f.libs) \subseteq ls
  /\ f.op = "add" /\ f.at = "deps" => f.arg.lib \in o
  /\ f.at \in {"next", "block", "lookup"} =>
       \E k \in f.since .. Len(p) : p[k] = [dirs |-> f.dirs, libs |-> f.libs]
  /\ f.at = "convert" => f.op = "libs"
  /\ f.op = "load" /\ f.at = "lookup" /\ HasCore => HasStringIO(f.libs)

\* A call that is about to add library n.
Pending(f, n) == f.op = "add" /\ f.at \in {"lock", "blocked"} /\ f.arg.lib = Unversioned(n)

\* The call above position i is about to add n.
PendingAbove(s, i, n) == i < Len(s) /\ Pending(s[i + 1], n)

\* A call below another one has left the points where it would hold the mutex.
Waits(s, i) == i < Len(s) => s[i].at \in {"deps", "block", "libs", "lock"}

\* The dependencies of a library being added are there, or still to be added.
HasDependencies(s, i, ls) ==
  s[i].op = "add" /\ s[i].at = "deps" =>
    \A n \in Members(DependsOn[s[i].arg.lib.name]) :
      Unversioned(n) \in ls \/ n \in Members(s[i].todo) \/ PendingAbove(s, i, n)

\* A load that has looked for stringio.
HasIO(s, i, ls) ==
  HasCore /\ s[i].op = "load" /\ s[i].at \in {"lock", "blocked"} =>
    (\E l \in ls : l.name = StringIO) \/ PendingAbove(s, i, StringIO)

Good(s, p, o, ls) ==
  /\ s \in Seq(Frames)
  /\ \A i \in 1 .. Len(s) :
       FrameOK(s[i], p, o, ls) /\ Waits(s, i) /\ HasDependencies(s, i, ls) /\ HasIO(s, i, ls)

AddsIn(s) == {f.arg.lib : f \in {g \in Members(s) : g.op = "add" /\ g.at = "deps"}}

Complete(l, ls) == \A n \in Members(DependsOn[l.name]) : Unversioned(n) \in ls

Typed ==
  /\ gvl \in Threads /\ lock \in Threads \cup {None}
  /\ dirs \in Seq(Dirs) /\ libs \in Seq(Libs)
  /\ past \in Seq(Values) /\ past # <<>>
  /\ past[Len(past)] = [dirs |-> dirs, libs |-> libs]
  /\ owed \subseteq Members(libs) /\ cutShort \subseteq owed
  /\ stack \in [Threads -> Seq(Frames)]

StacksGood == \A t \in Threads : Good(stack[t], past, owed, Members(libs))

OwedComplete ==
  \A l \in owed \ cutShort :
    (\E t \in Threads : l \in AddsIn(stack[t])) \/ Complete(l, Members(libs))

LoadedAtOneMoment ==
  loaded # None =>
    loaded.since \in 1 .. Len(past) /\
    \E k \in loaded.since .. Len(past) : loaded.specs = Specs(past[k].dirs, past[k].libs)

IInv == /\ Typed /\ StacksGood /\ OwedComplete
        /\ LibsDistinct /\ LockBelongsToLibs /\ LoadedAtOneMoment /\ LoadsHaveStringIO

-----------------------------------------------------------------------------
(* Sequences.                                                              *)

(* Everything but the last element. *)
LEMMA FrontOf ==
  ASSUME NEW S, NEW s \in Seq(S), s # <<>>
  PROVE  LET r == SubSeq(s, 1, Len(s) - 1)
         IN  /\ r \in Seq(S) /\ Len(s) \in Nat \ {0} /\ Len(r) = Len(s) - 1
             /\ \A i \in 1 .. Len(r) : r[i] = s[i]
<1>1. Len(s) \in Nat \ {0}
  BY EmptySeq
<1>2. \A i \in 1 .. Len(s) - 1 : s[i] \in S
  BY <1>1, ElementOfSeq
<1>3. SubSeq(s, 1, Len(s) - 1) \in Seq(S)
  BY <1>1, <1>2, SubSeqProperties
<1>4. Len(SubSeq(s, 1, Len(s) - 1)) = Len(s) - 1
  <2> DEFINE n == Len(s) - 1
  <2>1. n \in Nat /\ 1 \in Int /\ n \in Int /\ \A i \in 1 .. n : s[i] \in S
    BY <1>1, <1>2
  <2> HIDE DEF n
  <2>2. Len(SubSeq(s, 1, n)) = IF 1 <= n THEN n - 1 + 1 ELSE 0
    BY <2>1, SubSeqProperties
  <2>3. Len(SubSeq(s, 1, n)) = n
    BY <2>1, <2>2
  <2> QED BY <2>3 DEF n
<1>5. \A i \in 1 .. Len(s) - 1 : SubSeq(s, 1, Len(s) - 1)[i] = s[i]
  BY <1>1, <1>2, SubSeqProperties
<1> QED BY <1>1, <1>3, <1>4, <1>5

(* The last element replaced. *)
LEMMA BecomeShape ==
  ASSUME NEW S, NEW s \in Seq(S), s # <<>>, NEW f \in S
  PROVE  LET r == Append(SubSeq(s, 1, Len(s) - 1), f)
         IN  /\ r \in Seq(S) /\ Len(r) = Len(s) /\ r[Len(s)] = f
             /\ \A i \in 1 .. Len(s) - 1 : r[i] = s[i]
<1> DEFINE b == SubSeq(s, 1, Len(s) - 1)
           r == Append(b, f)
<1>1. /\ b \in Seq(S) /\ Len(s) \in Nat \ {0} /\ Len(b) = Len(s) - 1
      /\ \A i \in 1 .. Len(b) : b[i] = s[i]
  BY FrontOf
<1> HIDE DEF b
<1>2. r \in Seq(S) /\ Len(r) = Len(b) + 1 /\ r[Len(b) + 1] = f
  BY <1>1, AppendProperties
<1>3. \A i \in 1 .. Len(b) : r[i] = b[i]
  BY <1>1, AppendProperties
<1> HIDE DEF r
<1>4. /\ r \in Seq(S) /\ Len(r) = Len(s) /\ r[Len(s)] = f
      /\ \A i \in 1 .. Len(s) - 1 : r[i] = s[i]
  BY <1>1, <1>2, <1>3
<1> QED BY <1>4 DEF r, b

(* Appending an element keeps the members and adds it. *)
LEMMA MembersOfAppend ==
  ASSUME NEW S, NEW s \in Seq(S), NEW e \in S
  PROVE  Append(s, e) \in Seq(S) /\ Members(Append(s, e)) = Members(s) \cup {e}
<1>1. Len(s) \in Nat
  BY LenProperties
<1>2. Append(s, e) \in Seq(S) /\ DOMAIN Append(s, e) = 1 .. Len(s) + 1
  BY <1>1, AppendProperties, LenProperties
<1>3. \A i \in 1 .. Len(s) : Append(s, e)[i] = s[i]
  BY AppendProperties
<1>4. Append(s, e)[Len(s) + 1] = e
  BY AppendProperties
<1>5. DOMAIN s = 1 .. Len(s)
  BY LenProperties
<1> QED BY <1>1, <1>2, <1>3, <1>4, <1>5 DEF Members

(* The members of a tail, and the head. *)
LEMMA MembersOfTail ==
  ASSUME NEW S, NEW s \in Seq(S), s # <<>>
  PROVE  /\ Head(s) \in S /\ Tail(s) \in Seq(S)
         /\ Members(s) = Members(Tail(s)) \cup {Head(s)}
<1>1. Len(s) \in Nat \ {0}
  BY EmptySeq
<1>2. Head(s) \in S /\ Tail(s) \in Seq(S) /\ Len(Tail(s)) = Len(s) - 1
  BY HeadTailProperties
<1>3. \A i \in 1 .. Len(s) - 1 : Tail(s)[i] = s[i + 1]
  BY <1>2, HeadTailProperties
<1>4. DOMAIN s = 1 .. Len(s) /\ DOMAIN Tail(s) = 1 .. Len(s) - 1
  BY <1>2, LenProperties
<1>5. Head(s) = s[1]
  BY <1>1
<1>6. ASSUME NEW j \in 1 .. Len(s) PROVE s[j] \in Members(Tail(s)) \cup {Head(s)}
  <2>1. CASE j = 1
    BY <1>5, <2>1
  <2>2. CASE j # 1
    <3>1. j - 1 \in 1 .. Len(s) - 1 /\ (j - 1) + 1 = j
      BY <1>1, <2>2
    <3> QED BY <1>3, <1>4, <3>1 DEF Members
  <2> QED BY <2>1, <2>2
<1>7. \A j \in 1 .. Len(s) - 1 : j + 1 \in 1 .. Len(s)
  BY <1>1
<1>8. Members(Tail(s)) \cup {Head(s)} \subseteq Members(s)
  BY <1>1, <1>3, <1>4, <1>5, <1>7 DEF Members
<1>9. Members(s) \subseteq Members(Tail(s)) \cup {Head(s)}
  BY <1>4, <1>6 DEF Members
<1> QED BY <1>2, <1>8, <1>9

-----------------------------------------------------------------------------
(* Stacks.                                                                 *)

Extends(p, q) == Len(p) <= Len(q) /\ \A k \in 1 .. Len(p) : q[k] = p[k]

\* The library the call f is adding with its dependencies.
AddsAt(f) == IF f.op = "add" /\ f.at = "deps" THEN {f.arg.lib} ELSE {}

(* What a stack relies on is not disturbed when additions grow. *)
LEMMA GoodGrows ==
  ASSUME NEW p \in Seq(Values), NEW q \in Seq(Values), Extends(p, q),
         NEW o, NEW o2, o \subseteq o2, NEW ls, NEW ls2, ls \subseteq ls2,
         NEW s, Good(s, p, o, ls)
  PROVE  Good(s, q, o2, ls2)
<1>1. Len(p) \in Nat /\ Len(q) \in Nat /\ Len(p) <= Len(q)
  BY LenProperties DEF Extends
<1>2. SUFFICES ASSUME NEW i \in 1 .. Len(s)
               PROVE  FrameOK(s[i], q, o2, ls2) /\ HasDependencies(s, i, ls2) /\ HasIO(s, i, ls2)
  BY DEF Good
<1>3. FrameOK(s[i], p, o, ls) /\ HasDependencies(s, i, ls) /\ HasIO(s, i, ls) /\ s[i] \in Frames
  BY ElementOfSeq DEF Good
<1>4. s[i].since \in Nat
  BY <1>3 DEF Frames
<1>5. s[i].at \in {"next", "block", "lookup"} =>
        \E k \in s[i].since .. Len(q) : q[k] = [dirs |-> s[i].dirs, libs |-> s[i].libs]
  <2>1. SUFFICES ASSUME s[i].at \in {"next", "block", "lookup"}
                 PROVE  \E k \in s[i].since .. Len(q) :
                          q[k] = [dirs |-> s[i].dirs, libs |-> s[i].libs]
    OBVIOUS
  <2>2. PICK k \in s[i].since .. Len(p) : p[k] = [dirs |-> s[i].dirs, libs |-> s[i].libs]
    BY <1>3, <2>1 DEF FrameOK
  <2>3. k \in 1 .. Len(p) /\ k \in s[i].since .. Len(q)
    BY <1>1, <1>3, <1>4 DEF FrameOK
  <2> QED BY <2>2, <2>3 DEF Extends
<1>6. s[i].since \in 1 .. Len(q)
  BY <1>1, <1>3, <1>4 DEF FrameOK
<1>7. FrameOK(s[i], q, o2, ls2)
  BY <1>3, <1>5, <1>6 DEF FrameOK
<1>8. HasDependencies(s, i, ls2)
  BY <1>3 DEF HasDependencies
<1>9. HasIO(s, i, ls2)
  BY <1>3 DEF HasIO
<1> QED BY <1>7, <1>8, <1>9

(* Dependencies are names of libraries. *)
LEMMA DependenciesAreNames ==
  ASSUME NEW f, NEW p, NEW o, NEW ls, FrameOK(f, p, o, ls), f.op = "add"
  PROVE  Members(DependsOn[f.arg.lib.name]) \subseteq LibNames
<1>1. f.arg.lib.name \in LibNames
  BY DEF FrameOK, Items, Libs
<1>2. DependsOn[f.arg.lib.name] \in Seq(LibNames)
  BY <1>1, LibrariesAssumption
<1> QED BY <1>2, LenProperties, ElementOfSeq DEF Members

(* The topmost call becomes f; what the call below waits for is still to
   come, or has come. *)
LEMMA GoodBecome ==
  ASSUME NEW p, NEW o, NEW ls, NEW s, Good(s, p, o, ls), s # <<>>,
         NEW f \in Frames, FrameOK(f, p, o, ls),
         NEW r \in Seq(Frames), Len(r) = Len(s), r[Len(s)] = f,
         \A i \in 1 .. Len(s) - 1 : r[i] = s[i],
         HasDependencies(r, Len(s), ls), HasIO(r, Len(s), ls),
         \A n \in LibNames :
           Pending(s[Len(s)], n) => Pending(f, n) \/ Unversioned(n) \in ls
  PROVE  /\ Good(r, p, o, ls)
         /\ Len(r) = Len(s) /\ r # <<>>
         /\ AddsIn(s) \subseteq AddsIn(r) \cup AddsAt(s[Len(s)])
         /\ AddsAt(f) \subseteq AddsIn(r)
<1>1. Len(s) \in Nat \ {0} /\ s \in Seq(Frames)
  BY EmptySeq DEF Good
<1>3. Len(r) = Len(s) /\ r[Len(s)] = f /\ \A i \in 1 .. Len(s) - 1 : r[i] = s[i]
  OBVIOUS
<1>4. ASSUME NEW i \in 1 .. Len(r)
      PROVE  FrameOK(r[i], p, o, ls) /\ Waits(r, i) /\ HasDependencies(r, i, ls) /\ HasIO(r, i, ls)
  <2>1. CASE i = Len(s)
    BY <1>1, <1>3, <2>1 DEF Waits
  <2>2. CASE i # Len(s)
    <3>1. i \in 1 .. Len(s) - 1 /\ i \in 1 .. Len(s) /\ i < Len(s)
      BY <1>1, <1>3, <2>2
    <3>2. r[i] = s[i]
      BY <1>3, <3>1
    <3>3. FrameOK(s[i], p, o, ls) /\ Waits(s, i) /\ HasDependencies(s, i, ls) /\ HasIO(s, i, ls)
      BY <3>1 DEF Good
    <3>4. \A n \in LibNames :
            PendingAbove(s, i, n) => PendingAbove(r, i, n) \/ Unversioned(n) \in ls
      <4>1. CASE i + 1 = Len(s)
        BY <1>1, <1>3, <3>1, <4>1 DEF PendingAbove
      <4>2. CASE i + 1 # Len(s)
        <5>1. i + 1 \in 1 .. Len(s) - 1
          BY <1>1, <3>1, <4>2
        <5> QED BY <1>3, <5>1 DEF PendingAbove
      <4> QED BY <4>1, <4>2
    <3>5. s[i].op = "add" => Members(DependsOn[s[i].arg.lib.name]) \subseteq LibNames
      BY <3>3, DependenciesAreNames
    <3>6. HasDependencies(r, i, ls)
      BY <3>2, <3>3, <3>4, <3>5 DEF HasDependencies
    <3>7. HasIO(r, i, ls)
      <4>1. StringIO \in LibNames /\ Unversioned(StringIO).name = StringIO
        BY LibrariesAssumption DEF Unversioned
      <4> QED BY <3>2, <3>3, <3>4, <4>1 DEF HasIO
    <3> QED BY <1>3, <3>2, <3>3, <3>6, <3>7 DEF Waits
  <2> QED BY <2>1, <2>2
<1>5. Good(r, p, o, ls)
  BY <1>4 DEF Good
<1>6. DOMAIN s = 1 .. Len(s) /\ DOMAIN r = 1 .. Len(s)
  BY <1>1, <1>3, LenProperties
<1>7. \A i \in 1 .. Len(s) : i = Len(s) \/ i \in 1 .. Len(s) - 1
  BY <1>1
<1>8. Members(s) \subseteq Members(r) \cup {s[Len(s)]}
  <2>1. \A i \in 1 .. Len(s) : s[i] \in Members(r) \cup {s[Len(s)]}
    BY <1>1, <1>3, <1>6, <1>7 DEF Members
  <2> QED BY <1>6, <2>1 DEF Members
<1>9. f \in Members(r)
  BY <1>1, <1>3, <1>6 DEF Members
<1>10. r # <<>>
  BY <1>1, <1>3
<1> QED BY <1>3, <1>5, <1>8, <1>9, <1>10 DEF AddsIn, AddsAt

(* The topmost call returns; if it was about to add something, that is
   there now. *)
LEMMA GoodPop ==
  ASSUME NEW p, NEW o, NEW ls, NEW s, Good(s, p, o, ls), s # <<>>,
         NEW r \in Seq(Frames), Len(r) = Len(s) - 1, \A i \in 1 .. Len(r) : r[i] = s[i],
         \A n \in LibNames : Pending(s[Len(s)], n) => Unversioned(n) \in ls
  PROVE  /\ Good(r, p, o, ls)
         /\ AddsIn(s) \subseteq AddsIn(r) \cup AddsAt(s[Len(s)])
<1>1. /\ r \in Seq(Frames) /\ Len(s) \in Nat \ {0} /\ Len(r) = Len(s) - 1
      /\ \A i \in 1 .. Len(r) : r[i] = s[i]
  BY EmptySeq DEF Good
<1>2. ASSUME NEW i \in 1 .. Len(r)
      PROVE  FrameOK(r[i], p, o, ls) /\ Waits(r, i) /\ HasDependencies(r, i, ls) /\ HasIO(r, i, ls)
  <2>1. i \in 1 .. Len(s) /\ i < Len(s) /\ r[i] = s[i]
    BY <1>1
  <2>2. FrameOK(s[i], p, o, ls) /\ Waits(s, i) /\ HasDependencies(s, i, ls) /\ HasIO(s, i, ls)
    BY <2>1 DEF Good
  <2>3. \A n \in LibNames :
          PendingAbove(s, i, n) => PendingAbove(r, i, n) \/ Unversioned(n) \in ls
    <3>1. CASE i + 1 = Len(s)
      BY <3>1 DEF PendingAbove
    <3>2. CASE i + 1 # Len(s)
      <4>1. i + 1 \in 1 .. Len(r) /\ i < Len(r)
        BY <1>1, <3>2
      <4> QED BY <1>1, <4>1 DEF PendingAbove
    <3> QED BY <3>1, <3>2
  <2>4. s[i].op = "add" => Members(DependsOn[s[i].arg.lib.name]) \subseteq LibNames
    BY <2>2, DependenciesAreNames
  <2>5. HasDependencies(r, i, ls)
    BY <2>1, <2>2, <2>3, <2>4 DEF HasDependencies
  <2>6. HasIO(r, i, ls)
    <3>1. StringIO \in LibNames /\ Unversioned(StringIO).name = StringIO
      BY LibrariesAssumption DEF Unversioned
    <3> QED BY <2>1, <2>2, <2>3, <3>1 DEF HasIO
  <2> QED BY <1>1, <2>1, <2>2, <2>5, <2>6 DEF Waits
<1>3. Good(r, p, o, ls)
  BY <1>1, <1>2 DEF Good
<1>4. DOMAIN s = 1 .. Len(s) /\ DOMAIN r = 1 .. Len(s) - 1
  BY <1>1, LenProperties DEF Good
<1>5. \A i \in 1 .. Len(s) : i = Len(s) \/ i \in 1 .. Len(s) - 1
  BY <1>1
<1>6. \A i \in 1 .. Len(s) : s[i] \in Members(r) \cup {s[Len(s)]}
  BY <1>1, <1>4, <1>5 DEF Members
<1>7. Members(s) \subseteq Members(r) \cup {s[Len(s)]}
  BY <1>4, <1>6 DEF Members
<1> QED BY <1>3, <1>7 DEF AddsIn, AddsAt

(* A call g is made on top; the topmost one so far waits for it. *)
LEMMA GoodPush ==
  ASSUME NEW p, NEW o, NEW ls, NEW s \in Seq(Frames), NEW g \in Frames, FrameOK(g, p, o, ls),
         NEW r \in Seq(Frames), Len(r) = Len(s) + 1, r[Len(s) + 1] = g,
         \A i \in 1 .. Len(s) : r[i] = s[i],
         \A i \in 1 .. Len(s) :
           /\ FrameOK(s[i], p, o, ls) /\ Waits(r, i)
           /\ HasDependencies(r, i, ls) /\ HasIO(r, i, ls),
         g.at \in {"lock", "libs"},
         g.op = "load" /\ g.at = "lock" => ~HasCore
  PROVE  Good(r, p, o, ls) /\ AddsIn(s) \subseteq AddsIn(r)
<1>1. Len(s) \in Nat /\ DOMAIN s = 1 .. Len(s) /\ DOMAIN r = 1 .. Len(s) + 1
  BY LenProperties
<1>2. ASSUME NEW i \in 1 .. Len(r)
      PROVE  FrameOK(r[i], p, o, ls) /\ Waits(r, i) /\ HasDependencies(r, i, ls) /\ HasIO(r, i, ls)
  <2>1. CASE i = Len(s) + 1
    BY <1>1, <2>1 DEF Waits, HasDependencies, HasIO
  <2>2. CASE i # Len(s) + 1
    <3>1. i \in 1 .. Len(s)
      BY <1>1, <2>2
    <3> QED BY <1>1, <3>1
  <2> QED BY <2>1, <2>2
<1>3. \A i \in 1 .. Len(s) : i \in 1 .. Len(s) + 1
  BY <1>1
<1>4. Members(s) \subseteq Members(r)
  BY <1>1, <1>3 DEF Members
<1> QED BY <1>2, <1>4 DEF Good, AddsIn

(* The topmost call becomes f, which waits, and calls g. *)
LEMMA GoodPushOn ==
  ASSUME NEW p, NEW o, NEW ls, NEW s, Good(s, p, o, ls), s # <<>>,
         NEW f \in Frames, FrameOK(f, p, o, ls), f.at \in {"deps", "block", "libs", "lock"},
         NEW g \in Frames, FrameOK(g, p, o, ls), g.at = "lock", g.op # "load",
         NEW r \in Seq(Frames), Len(r) = Len(s) + 1, r[Len(s) + 1] = g, r[Len(s)] = f,
         \A i \in 1 .. Len(s) - 1 : r[i] = s[i],
         HasDependencies(r, Len(s), ls), HasIO(r, Len(s), ls),
         \A n \in LibNames : ~Pending(s[Len(s)], n)
  PROVE  /\ Good(r, p, o, ls)
         /\ AddsIn(s) \subseteq AddsIn(r) \cup AddsAt(s[Len(s)])
         /\ AddsAt(f) \subseteq AddsIn(r)
<1>1. Len(s) \in Nat \ {0} /\ s \in Seq(Frames)
  BY EmptySeq DEF Good
<1>2. ASSUME NEW i \in 1 .. Len(r)
      PROVE  FrameOK(r[i], p, o, ls) /\ Waits(r, i) /\ HasDependencies(r, i, ls) /\ HasIO(r, i, ls)
  <2>1. CASE i = Len(s) + 1
    BY <2>1 DEF Waits, HasDependencies, HasIO
  <2>2. CASE i = Len(s)
    BY <2>2 DEF Waits
  <2>3. CASE i \notin {Len(s), Len(s) + 1}
    <3>1. i \in 1 .. Len(s) - 1 /\ i \in 1 .. Len(s) /\ i < Len(s)
      BY <1>1, <2>3
    <3>2. r[i] = s[i]
      BY <3>1
    <3>3. FrameOK(s[i], p, o, ls) /\ Waits(s, i) /\ HasDependencies(s, i, ls) /\ HasIO(s, i, ls)
      BY <3>1 DEF Good
    <3>4. \A n \in LibNames : PendingAbove(s, i, n) => PendingAbove(r, i, n)
      <4>1. CASE i + 1 = Len(s)
        BY <4>1 DEF PendingAbove
      <4>2. CASE i + 1 # Len(s)
        <5>1. i + 1 \in 1 .. Len(s) - 1 /\ i < Len(r)
          BY <1>1, <3>1, <4>2
        <5> QED BY <5>1 DEF PendingAbove
      <4> QED BY <4>1, <4>2
    <3>5. s[i].op = "add" => Members(DependsOn[s[i].arg.lib.name]) \subseteq LibNames
      BY <3>3, DependenciesAreNames
    <3>6. HasDependencies(r, i, ls)
      BY <3>2, <3>3, <3>4, <3>5 DEF HasDependencies
    <3>7. HasIO(r, i, ls)
      BY <3>2, <3>3, <3>4, LibrariesAssumption DEF HasIO
    <3> QED BY <3>1, <3>2, <3>3, <3>6, <3>7 DEF Waits
  <2> QED BY <2>1, <2>2, <2>3
<1>3. Good(r, p, o, ls)
  BY <1>2 DEF Good
<1>4. DOMAIN s = 1 .. Len(s) /\ DOMAIN r = 1 .. Len(s) + 1
  BY <1>1, LenProperties
<1>5. \A i \in 1 .. Len(s) : s[i] \in Members(r) \cup {s[Len(s)]}
  <2>1. \A i \in 1 .. Len(s) : i = Len(s) \/ (i \in 1 .. Len(s) - 1 /\ i \in 1 .. Len(s) + 1)
    BY <1>1
  <2> QED BY <1>4, <2>1 DEF Members
<1>6. Members(s) \subseteq Members(r) \cup {s[Len(s)]}
  BY <1>4, <1>5 DEF Members
<1>7. f \in Members(r)
  BY <1>1, <1>4 DEF Members
<1> QED BY <1>3, <1>6, <1>7 DEF AddsIn, AddsAt

-----------------------------------------------------------------------------
(* Steps of one thread.                                                    *)

Holds(s) == s # <<>> /\ s[Len(s)].op = "libs" /\ s[Len(s)].at = "convert"

(* A step that gives thread t the stack r: the other stacks stay good, and
   every library owed is still being added, complete, or cut short. *)
LEMMA StackStep ==
  ASSUME IInv, NEW t \in Threads, NEW r, stack' = [stack EXCEPT ![t] = r],
         past' \in Seq(Values), Extends(past, past'),
         owed \subseteq owed', owed' \subseteq owed \cup AddsIn(r),
         cutShort \subseteq cutShort', Members(libs) \subseteq Members(libs'),
         Good(r, past', owed', Members(libs')),
         NEW X, AddsIn(stack[t]) \subseteq AddsIn(r) \cup X,
         \A l \in X : l \in cutShort' \/ Complete(l, Members(libs'))
  PROVE  stack' \in [Threads -> Seq(Frames)] /\ StacksGood' /\ OwedComplete'
<1>1. stack' \in [Threads -> Seq(Frames)] /\ stack'[t] = r
  BY DEF IInv, Typed, Good
<1>2. \A u \in Threads \ {t} : stack'[u] = stack[u]
  BY DEF IInv, Typed
<1>3. ASSUME NEW u \in Threads PROVE Good(stack'[u], past', owed', Members(libs'))
  <2>1. CASE u = t
    BY <1>1, <2>1
  <2>2. CASE u # t
    <3>1. Good(stack[u], past, owed, Members(libs)) /\ past \in Seq(Values)
      BY DEF IInv, StacksGood, Typed
    <3> QED BY <1>2, <2>2, <3>1, GoodGrows
  <2> QED BY <2>1, <2>2
<1>4. ASSUME NEW l \in owed' \ cutShort'
      PROVE  (\E u \in Threads : l \in AddsIn(stack'[u])) \/ Complete(l, Members(libs'))
  <2>1. CASE l \in AddsIn(r)
    BY <1>1, <2>1
  <2>2. CASE l \notin AddsIn(r)
    <3>1. l \in owed \ cutShort
      BY <2>2
    <3>2. CASE Complete(l, Members(libs))
      BY <3>2 DEF Complete
    <3>3. ASSUME NEW u \in Threads, l \in AddsIn(stack[u])
          PROVE  (\E v \in Threads : l \in AddsIn(stack'[v])) \/ Complete(l, Members(libs'))
      <4>1. CASE u = t
        BY <2>2, <3>3, <4>1
      <4>2. CASE u # t
        BY <1>2, <3>3, <4>2
      <4> QED BY <4>1, <4>2
    <3> QED BY <3>1, <3>2, <3>3 DEF IInv, OwedComplete
  <2> QED BY <2>1, <2>2
<1>5. StacksGood'
  BY <1>3 DEF StacksGood
<1>6. OwedComplete'
  BY <1>4 DEF OwedComplete
<1> QED BY <1>1, <1>5, <1>6

(* The same where additions stay as they are. *)
LEMMA QuietStep ==
  ASSUME IInv, NEW t \in Threads, NEW r, stack' = [stack EXCEPT ![t] = r],
         UNCHANGED <<gvl, additions, owed>>,
         loaded' = loaded \/ (LoadedAtOneMoment' /\ LoadsHaveStringIO'),
         cutShort \subseteq cutShort', cutShort' \subseteq owed,
         Good(r, past, owed, Members(libs)),
         NEW X, AddsIn(stack[t]) \subseteq AddsIn(r) \cup X,
         \A l \in X : l \in cutShort' \/ Complete(l, Members(libs)),
         lock' \in Threads \cup {None},
         lock' = t <=> Holds(r),
         \A u \in Threads \ {t} : lock' = u <=> lock = u
  PROVE  IInv'
<1>1. /\ dirs' = dirs /\ libs' = libs /\ past' = past /\ gvl' = gvl
      /\ owed' = owed
  BY DEF additions
<1>2. Extends(past, past') /\ past' \in Seq(Values)
  BY <1>1, LenProperties DEF IInv, Typed, Extends
<1>3. stack' \in [Threads -> Seq(Frames)] /\ StacksGood' /\ OwedComplete'
  BY <1>1, <1>2, StackStep
<1>4. Typed'
  BY <1>1, <1>3 DEF IInv, Typed
<1>5. LibsDistinct' /\ LoadedAtOneMoment' /\ LoadsHaveStringIO'
  BY <1>1 DEF IInv, LibsDistinct, LoadedAtOneMoment, LoadsHaveStringIO
<1>6. ASSUME NEW u \in Threads
      PROVE  lock' = u <=> stack'[u] # <<>> /\ stack'[u][Len(stack'[u])].op = "libs"
                             /\ stack'[u][Len(stack'[u])].at = "convert"
  <2>1. CASE u = t
    BY <2>1 DEF Holds, IInv, Typed
  <2>2. CASE u # t
    BY <2>2 DEF IInv, Typed, LockBelongsToLibs, Top
  <2> QED BY <2>1, <2>2
<1>7. LockBelongsToLibs'
  BY <1>6 DEF LockBelongsToLibs, Top
<1> QED BY <1>3, <1>4, <1>5, <1>7 DEF IInv

(* What the invariant says of the topmost call. *)
LEMMA TopFacts ==
  ASSUME IInv, NEW t \in Threads, stack[t] # <<>>
  PROVE  /\ Good(stack[t], past, owed, Members(libs))
         /\ stack[t] \in Seq(Frames) /\ Len(stack[t]) \in Nat \ {0}
         /\ Top(t) = stack[t][Len(stack[t])] /\ Top(t) \in Frames
         /\ FrameOK(Top(t), past, owed, Members(libs))
         /\ HasDependencies(stack[t], Len(stack[t]), Members(libs))
         /\ HasIO(stack[t], Len(stack[t]), Members(libs))
<1>1. Good(stack[t], past, owed, Members(libs)) /\ stack[t] \in Seq(Frames)
  BY DEF IInv, StacksGood, Good
<1>2. Len(stack[t]) \in Nat \ {0} /\ Len(stack[t]) \in 1 .. Len(stack[t])
  BY <1>1, EmptySeq
<1>3. Top(t) = stack[t][Len(stack[t])] /\ Top(t) \in Frames
  BY <1>1, <1>2, ElementOfSeq DEF Top
<1> QED BY <1>1, <1>2, <1>3 DEF Good

(* A new call is well formed. *)
LEMMA NewFrame ==
  ASSUME IInv, NEW op \in Ops, NEW arg \in Args, NEW at \in {"lock", "libs"},
         op = "path" => arg \in Dirs, op = "add" => arg \in Items
  PROVE  /\ Frame(op, arg, at) \in Frames
         /\ FrameOK(Frame(op, arg, at), past, owed, Members(libs))
         /\ Frame(op, arg, at).op = op /\ Frame(op, arg, at).at = at
         /\ Frame(op, arg, at).arg = arg
<1>1. Len(past) \in Nat \ {0}
  BY EmptySeq DEF IInv, Typed
<1>2. \A S : <<>> \in Seq(S) /\ Members(<<>>) = {}
  BY EmptySeq DEF Members
<1> QED BY <1>1, <1>2 DEF Frame, Frames, FrameOK, Points

(* The topmost call goes on to another point. *)
LEMMA BecomeStep ==
  ASSUME IInv, NEW t \in Threads, stack[t] # <<>>,
         NEW f \in Frames, FrameOK(f, past, owed, Members(libs)), Become(t, f),
         UNCHANGED <<gvl, additions, owed, cutShort, loaded>>,
         Top(t).at # "deps", f.at # "deps",
         HasCore /\ f.op = "load" /\ f.at \in {"lock", "blocked"} =>
           \E l \in Members(libs) : l.name = StringIO,
         \A n \in LibNames : Pending(Top(t), n) => Pending(f, n),
         lock' \in Threads \cup {None},
         lock' = t <=> f.op = "libs" /\ f.at = "convert",
         \A u \in Threads \ {t} : lock' = u <=> lock = u
  PROVE  IInv'
<1> DEFINE s == stack[t]
           r == Append(SubSeq(s, 1, Len(s) - 1), f)
<1>1. Good(s, past, owed, Members(libs)) /\ Top(t) = s[Len(s)] /\ Len(s) \in Nat \ {0}
  BY TopFacts
<1>2. /\ r \in Seq(Frames) /\ Len(r) = Len(s) /\ r[Len(s)] = f
      /\ \A i \in 1 .. Len(s) - 1 : r[i] = s[i]
  <2>1. s \in Seq(Frames) /\ s # <<>>
    BY <1>1 DEF Good
  <2> HIDE DEF s
  <2> QED BY <2>1, BecomeShape
<1>3. stack' = [stack EXCEPT ![t] = r]
  BY DEF Become, Below
<1> HIDE DEF r
<1>4. HasDependencies(r, Len(s), Members(libs)) /\ HasIO(r, Len(s), Members(libs))
  BY <1>2 DEF HasDependencies, HasIO
<1>5. /\ Good(r, past, owed, Members(libs)) /\ Len(r) = Len(s) /\ r # <<>>
      /\ AddsIn(s) \subseteq AddsIn(r) \cup AddsAt(s[Len(s)])
  <2>1. \A n \in LibNames :
          Pending(s[Len(s)], n) => Pending(f, n) \/ Unversioned(n) \in Members(libs)
    BY <1>1
  <2>2. s # <<>>
    OBVIOUS
  <2> HIDE DEF s
  <2> QED BY <1>1, <1>2, <1>4, <2>1, <2>2, GoodBecome
<1>6. AddsAt(s[Len(s)]) = {}
  BY <1>1 DEF AddsAt
<1>7. lock' = t <=> Holds(r)
  BY <1>2, <1>5 DEF Holds
<1>8. cutShort' = cutShort /\ cutShort \subseteq owed
  BY DEF IInv, Typed
<1>9. AddsIn(s) \subseteq AddsIn(r) \cup {}
  BY <1>5, <1>6
<1> QED BY <1>3, <1>5, <1>7, <1>8, <1>9, QuietStep

(* The topmost call returns. *)
LEMMA PopStep ==
  ASSUME IInv, NEW t \in Threads, stack[t] # <<>>, Pop(t),
         UNCHANGED <<gvl, additions, owed, cutShort>>,
         loaded' = loaded \/ (LoadedAtOneMoment' /\ LoadsHaveStringIO'),
         \A n \in LibNames : Pending(Top(t), n) => Unversioned(n) \in Members(libs),
         Top(t).op = "add" /\ Top(t).at = "deps" => Top(t).todo = <<>>,
         lock' \in Threads \cup {None}, lock' # t,
         \A u \in Threads \ {t} : lock' = u <=> lock = u
  PROVE  IInv'
<1> DEFINE s == stack[t]
           r == SubSeq(s, 1, Len(s) - 1)
<1>1. /\ Good(s, past, owed, Members(libs)) /\ Top(t) = s[Len(s)] /\ Len(s) \in Nat \ {0}
      /\ HasDependencies(s, Len(s), Members(libs))
  BY TopFacts
<1>2. stack' = [stack EXCEPT ![t] = r]
  BY DEF Pop, Below
<1>3. /\ r \in Seq(Frames) /\ Len(r) = Len(s) - 1
      /\ \A i \in 1 .. Len(r) : r[i] = s[i]
  BY <1>1, FrontOf DEF Good
<1> HIDE DEF r
<1>4. /\ Good(r, past, owed, Members(libs))
      /\ AddsIn(s) \subseteq AddsIn(r) \cup AddsAt(s[Len(s)])
  <2>1. \A n \in LibNames : Pending(s[Len(s)], n) => Unversioned(n) \in Members(libs)
    BY <1>1
  <2>2. s # <<>>
    OBVIOUS
  <2> HIDE DEF s
  <2> QED BY <1>1, <1>3, <2>1, <2>2, GoodPop
<1>5. ASSUME NEW l \in AddsAt(s[Len(s)]) PROVE Complete(l, Members(libs))
  <2>1. s[Len(s)].op = "add" /\ s[Len(s)].at = "deps" /\ l = s[Len(s)].arg.lib
    BY <1>5 DEF AddsAt
  <2>2. Members(s[Len(s)].todo) = {}
    BY <1>1, <2>1 DEF Members
  <2>3. \A n : ~PendingAbove(s, Len(s), n)
    BY <1>1 DEF PendingAbove
  <2> QED BY <1>1, <2>1, <2>2, <2>3 DEF HasDependencies, Complete
<1>6. ~Holds(r)
  <2>1. SUFFICES ASSUME r # <<>> PROVE r[Len(r)].at # "convert"
    BY DEF Holds
  <2>2. Len(r) \in 1 .. Len(r) /\ Len(r) \in 1 .. Len(s) /\ Len(r) < Len(s)
    BY <1>1, <1>3, <2>1, EmptySeq
  <2> QED BY <1>1, <1>3, <2>2 DEF Good, Waits
<1>7. cutShort' = cutShort /\ cutShort \subseteq owed
  BY DEF IInv, Typed
<1> QED BY <1>2, <1>4, <1>5, <1>6, <1>7, QuietStep

(* The topmost call becomes f and calls g. *)
LEMMA CallStep ==
  ASSUME IInv, NEW t \in Threads, stack[t] # <<>>,
         NEW f \in Frames, FrameOK(f, past, owed, Members(libs)),
         f.at \in {"deps", "block", "libs", "lock"},
         NEW g \in Frames, FrameOK(g, past, owed, Members(libs)),
         g.at = "lock", g.op # "load", PushOn(t, f, g),
         UNCHANGED <<gvl, lock, additions, owed, cutShort, loaded>>,
         Top(t).at = "deps" => f.at = "deps" /\ f.op = Top(t).op /\ f.arg = Top(t).arg,
         Top(t).at # "convert",
         f.op = "add" /\ f.at = "deps" =>
           \A n \in Members(DependsOn[f.arg.lib.name]) :
             Unversioned(n) \in Members(libs) \/ n \in Members(f.todo) \/ Pending(g, n),
         HasCore /\ f.op = "load" /\ f.at \in {"lock", "blocked"} => Pending(g, StringIO),
         \A n \in LibNames : ~Pending(Top(t), n)
  PROVE  IInv'
<1> DEFINE s == stack[t]
           r == Append(Append(SubSeq(s, 1, Len(s) - 1), f), g)
<1>1. /\ Good(s, past, owed, Members(libs)) /\ Top(t) = s[Len(s)] /\ Len(s) \in Nat \ {0}
      /\ s \in Seq(Frames) /\ s # <<>>
  BY TopFacts
<1>2. stack' = [stack EXCEPT ![t] = r]
  BY DEF PushOn, Below
<1>3. \A n \in LibNames : ~Pending(s[Len(s)], n)
  BY <1>1
<1>4. lock = t <=> Holds(s)
  BY DEF IInv, LockBelongsToLibs, Holds, Top
<1>5. s[Len(s)].at = "deps" => f.at = "deps" /\ f.op = s[Len(s)].op /\ f.arg = s[Len(s)].arg
  BY <1>1
<1>6. s[Len(s)].at # "convert"
  BY <1>1
<1> HIDE DEF s
<1> DEFINE m == Append(SubSeq(s, 1, Len(s) - 1), f)
<1>6a. /\ m \in Seq(Frames) /\ Len(m) = Len(s) /\ m[Len(s)] = f
      /\ \A i \in 1 .. Len(s) - 1 : m[i] = s[i]
  BY <1>1, BecomeShape
<1>7. /\ r \in Seq(Frames) /\ Len(r) = Len(s) + 1 /\ r[Len(s) + 1] = g /\ r[Len(s)] = f
      /\ \A i \in 1 .. Len(s) - 1 : r[i] = s[i]
  <2>1. r = Append(m, g)
    OBVIOUS
  <2> HIDE DEF m, r
  <2>2. r \in Seq(Frames) /\ Len(r) = Len(m) + 1 /\ r[Len(m) + 1] = g
    BY <1>6a, <2>1, AppendProperties
  <2>3. \A i \in 1 .. Len(m) : r[i] = m[i]
    BY <1>6a, <2>1, AppendProperties
  <2> QED BY <1>6a, <1>1, <2>2, <2>3
<1> HIDE DEF m, r
<1>8. Len(s) < Len(r)
  BY <1>1, <1>7
<1>9. HasDependencies(r, Len(s), Members(libs)) /\ HasIO(r, Len(s), Members(libs))
  BY <1>7, <1>8 DEF HasDependencies, HasIO, PendingAbove
<1>10. /\ Good(r, past, owed, Members(libs))
       /\ AddsIn(s) \subseteq AddsIn(r) \cup AddsAt(s[Len(s)])
       /\ AddsAt(f) \subseteq AddsIn(r)
  BY <1>1, <1>3, <1>7, <1>9, GoodPushOn
<1>11. AddsAt(s[Len(s)]) \subseteq AddsAt(f)
  BY <1>5 DEF AddsAt
<1>12. AddsIn(s) \subseteq AddsIn(r) \cup {}
  BY <1>10, <1>11
<1>13. ~Holds(s) /\ ~Holds(r)
  BY <1>6, <1>7 DEF Holds
<1>14. cutShort' = cutShort /\ cutShort \subseteq owed /\ lock' = lock /\ lock \in Threads \cup {None}
  BY DEF IInv, Typed
<1>15. AddsIn(stack[t]) \subseteq AddsIn(r) \cup {}
  BY <1>12 DEF s
<1> QED BY <1>2, <1>4, <1>10, <1>13, <1>14, <1>15, QuietStep

(* The calls below a block of each_dir, and it, rely on nothing above. *)
LEMMA GoodBelowBlock ==
  ASSUME NEW p, NEW o, NEW ls, NEW s, Good(s, p, o, ls), NEW n \in 0 .. Len(s),
         n # 0 => s[n].at = "block"
  PROVE  LET r == SubSeq(s, 1, n)
         IN  /\ Good(r, p, o, ls) /\ ~Holds(r)
             /\ \A i \in 1 .. Len(s) : s[i] \in Members(r) \/ i \in n + 1 .. Len(s)
<1> DEFINE r == SubSeq(s, 1, n)
<1>1. s \in Seq(Frames) /\ Len(s) \in Nat /\ n \in Nat /\ n <= Len(s)
  BY LenProperties DEF Good
<1>2. \A i \in 1 .. n : s[i] \in Frames
  BY <1>1, ElementOfSeq
<1>3. r \in Seq(Frames) /\ Len(r) = n /\ \A i \in 1 .. n : r[i] = s[i]
  <2>1. 1 \in Int /\ n \in Int
    BY <1>1
  <2>2. r \in Seq(Frames)
    BY <1>2, <2>1, SubSeqProperties
  <2>3. Len(r) = IF 1 <= n THEN n - 1 + 1 ELSE 0
    BY <1>2, <2>1, SubSeqProperties
  <2>4. \A i \in 1 .. n : r[i] = s[i]
    BY <1>1, <1>2, <2>1, SubSeqProperties
  <2>5. Len(r) = n
    BY <1>1, <2>3
  <2> QED BY <2>2, <2>4, <2>5
<1> HIDE DEF r
<1>4. ASSUME NEW i \in 1 .. n
      PROVE  FrameOK(r[i], p, o, ls) /\ Waits(r, i) /\ HasDependencies(r, i, ls) /\ HasIO(r, i, ls)
  <2>1. i \in 1 .. Len(s) /\ r[i] = s[i]
    BY <1>1, <1>3
  <2>2. FrameOK(s[i], p, o, ls) /\ Waits(s, i) /\ HasDependencies(s, i, ls) /\ HasIO(s, i, ls)
    BY <2>1 DEF Good
  <2>3. CASE i = n
    <3>1. r[i].at = "block" /\ ~(i < Len(r))
      BY <1>1, <1>3, <2>1, <2>3
    <3> QED BY <2>1, <2>2, <3>1 DEF Waits, HasDependencies, HasIO
  <2>4. CASE i # n
    <3>1. i + 1 \in 1 .. n /\ i < Len(r) /\ i < Len(s)
      BY <1>1, <1>3, <2>4
    <3>2. r[i + 1] = s[i + 1]
      BY <1>3, <3>1
    <3>3. \A x : PendingAbove(r, i, x) <=> PendingAbove(s, i, x)
      BY <3>1, <3>2 DEF PendingAbove
    <3> QED BY <2>1, <2>2, <3>1, <3>3 DEF Waits, HasDependencies, HasIO
  <2> QED BY <2>3, <2>4
<1>5. Good(r, p, o, ls)
  BY <1>3, <1>4 DEF Good
<1>6. ~Holds(r)
  <2>1. CASE n = 0
    BY <1>3, <2>1 DEF Holds
  <2>2. CASE n # 0
    <3>1. r[Len(r)].at = "block"
      BY <1>1, <1>3, <2>2
    <3> QED BY <3>1 DEF Holds
  <2> QED BY <2>1, <2>2
<1>7. ASSUME NEW i \in 1 .. Len(s), i \notin n + 1 .. Len(s) PROVE s[i] \in Members(r)
  <2>1. i \in 1 .. n /\ i \in DOMAIN r
    BY <1>1, <1>3, <1>7, LenProperties
  <2> QED BY <1>3, <2>1 DEF Members
<1> QED BY <1>5, <1>6, <1>7 DEF r

(* An exception ends calls of a thread. *)
LEMMA UnwindStep ==
  ASSUME IInv, NEW t \in Threads, Unwind(t)
  PROVE  IInv'
<1> DEFINE s == stack[t]
<1>1. PICK n \in Handlers(t) :
        /\ stack' = [stack EXCEPT ![t] = SubSeq(s, 1, n)]
        /\ lock'  = IF lock = t THEN None ELSE lock
        /\ cutShort' = cutShort \cup Abandoned(t, n)
        /\ UNCHANGED <<gvl, additions, calls, owed, loaded>>
  BY DEF Unwind
<1> DEFINE r == SubSeq(s, 1, n)
           X == Abandoned(t, n)
<1>2. Good(s, past, owed, Members(libs)) /\ s \in Seq(Frames) /\ Len(s) \in Nat
  BY LenProperties DEF IInv, StacksGood, Good
<1>3. n \in 0 .. Len(s) /\ (n # 0 => s[n].at = "block")
  BY <1>2 DEF Handlers
<1>4. /\ Good(r, past, owed, Members(libs)) /\ ~Holds(r)
      /\ \A i \in 1 .. Len(s) : s[i] \in Members(r) \/ i \in n + 1 .. Len(s)
  BY <1>2, <1>3, GoodBelowBlock
<1>5. X = {s[i].arg.lib : i \in {j \in n + 1 .. Len(s) : s[j].op = "add" /\ s[j].at = "deps"}}
  BY DEF Abandoned
<1>6. DOMAIN s = 1 .. Len(s)
  BY <1>2, LenProperties
<1>7. stack' = [stack EXCEPT ![t] = r]
  BY <1>1
<1> HIDE DEF s, r, X
<1>8. X \subseteq owed
  <2> SUFFICES ASSUME NEW i \in n + 1 .. Len(s), s[i].op = "add" /\ s[i].at = "deps"
               PROVE  s[i].arg.lib \in owed
    BY <1>5
  <2>1. i \in 1 .. Len(s)
    BY <1>2, <1>3
  <2>2. FrameOK(s[i], past, owed, Members(libs))
    BY <1>2, <2>1 DEF Good
  <2> QED BY <2>2 DEF FrameOK
<1>9. AddsIn(s) \subseteq AddsIn(r) \cup X
  <2> SUFFICES ASSUME NEW i \in 1 .. Len(s), s[i].op = "add" /\ s[i].at = "deps"
               PROVE  s[i].arg.lib \in AddsIn(r) \cup X
    BY <1>6 DEF AddsIn, Members
  <2>1. CASE s[i] \in Members(r)
    BY <2>1 DEF AddsIn
  <2>2. CASE i \in n + 1 .. Len(s)
    BY <1>5, <2>2
  <2> QED BY <1>4, <2>1, <2>2
<1>10. cutShort' = cutShort \cup X
  BY <1>1 DEF X
<1>11. cutShort \subseteq cutShort' /\ cutShort' \subseteq owed
  BY <1>8, <1>10 DEF IInv, Typed
<1>12. lock' \in Threads \cup {None} /\ lock' # t
  BY <1>1, NoneAssumption DEF IInv, Typed
<1>13. \A u \in Threads \ {t} : lock' = u <=> lock = u
  BY <1>1, NoneAssumption
<1>14. \A l \in X : l \in cutShort' \/ Complete(l, Members(libs))
  BY <1>10
<1>15. AddsIn(stack[t]) \subseteq AddsIn(r) \cup X
  BY <1>9 DEF s
<1> QED BY <1>1, <1>4, <1>7, <1>11, <1>12, <1>13, <1>14, <1>15, QuietStep

(* A call from outside, or from the block of each_dir. *)
LEMMA RequestStep ==
  ASSUME IInv, NEW t \in Threads, NEW f \in Requests, Request(t, f)
  PROVE  IInv'
<1> DEFINE s == stack[t]
           r == Append(s, f)
           ls == Members(libs)
<1>1. /\ f \in Frames /\ FrameOK(f, past, owed, ls) /\ f.at \in {"lock", "libs"}
      /\ f.op = "load" /\ f.at = "lock" => ~HasCore
  <2>1. CASE \E d \in Dirs : f = Frame("path", d, "lock")
    <3>1. PICK d \in Dirs : f = Frame("path", d, "lock")
      BY <2>1
    <3>2. "path" \in Ops /\ d \in Args
      BY DEF Ops, Args
    <3> QED BY <3>1, <3>2, NewFrame
  <2>2. CASE \E a \in Adds : f = AddCall(a.lib, a.deps)
    <3>1. PICK a \in Adds : f = AddCall(a.lib, a.deps)
      BY <2>2
    <3>2. "add" \in Ops /\ [lib |-> a.lib, deps |-> a.deps] \in Items
      BY LibrariesAssumption DEF Ops, Items
    <3>3. [lib |-> a.lib, deps |-> a.deps] \in Args
      BY <3>2 DEF Args
    <3> QED BY <3>1, <3>2, <3>3, NewFrame DEF AddCall
  <2>3. CASE f \in {Frame("libs", None, "lock"), Frame("each_dir", None, "lock"), LoadCall}
    <3>1. {"libs", "each_dir", "load"} \subseteq Ops /\ None \in Args
      BY DEF Ops, Args
    <3>2. \A at \in {"lock", "libs"} : \A op \in {"libs", "each_dir", "load"} :
            /\ Frame(op, None, at) \in Frames
            /\ FrameOK(Frame(op, None, at), past, owed, Members(libs))
            /\ Frame(op, None, at).op = op /\ Frame(op, None, at).at = at
      BY <3>1, NewFrame
    <3> QED BY <2>3, <3>2, LibrariesAssumption DEF LoadCall
  <2> QED BY <2>1, <2>2, <2>3 DEF Requests
<1>2. Good(s, past, owed, ls) /\ s \in Seq(Frames) /\ Len(s) \in Nat
  BY LenProperties DEF IInv, StacksGood, Good
<1>3. s = <<>> \/ (s # <<>> /\ s[Len(s)].op = "each_dir" /\ s[Len(s)].at = "block")
  BY DEF Request, At, Running, Top
<1>4. lock # t
  BY <1>3 DEF IInv, LockBelongsToLibs, Top
<1>5. stack' = [stack EXCEPT ![t] = r]
  BY DEF Request, IInv, Typed
<1>6. UNCHANGED <<gvl, lock, additions, owed, cutShort, loaded>>
  BY DEF Request
<1> HIDE DEF s, ls
<1>7. /\ r \in Seq(Frames) /\ Len(r) = Len(s) + 1 /\ r[Len(s) + 1] = f
      /\ \A i \in 1 .. Len(s) : r[i] = s[i]
  BY <1>1, <1>2, AppendProperties
<1> HIDE DEF r
<1>8. ASSUME NEW i \in 1 .. Len(s)
      PROVE  /\ FrameOK(s[i], past, owed, ls) /\ Waits(r, i)
             /\ HasDependencies(r, i, ls) /\ HasIO(r, i, ls)
  <2>1. /\ FrameOK(s[i], past, owed, ls) /\ Waits(s, i)
        /\ HasDependencies(s, i, ls) /\ HasIO(s, i, ls) /\ r[i] = s[i]
    BY <1>2, <1>7 DEF Good
  <2>2. CASE i = Len(s)
    <3>1. s[i].at = "block"
      BY <1>2, <1>3, <2>2, EmptySeq
    <3> QED BY <2>1, <3>1 DEF Waits, HasDependencies, HasIO
  <2>3. CASE i # Len(s)
    <3>1. i < Len(s) /\ i < Len(r) /\ i + 1 \in 1 .. Len(s)
      BY <1>2, <1>7, <2>3
    <3>2. r[i + 1] = s[i + 1]
      BY <1>7, <3>1
    <3>3. \A n : PendingAbove(s, i, n) <=> PendingAbove(r, i, n)
      BY <3>1, <3>2 DEF PendingAbove
    <3> QED BY <2>1, <3>1, <3>3 DEF Waits, HasDependencies, HasIO
  <2> QED BY <2>2, <2>3
<1>9. Good(r, past, owed, ls) /\ AddsIn(s) \subseteq AddsIn(r)
  BY <1>1, <1>2, <1>7, <1>8, GoodPush
<1>10. AddsIn(s) \subseteq AddsIn(r) \cup {}
  BY <1>9
<1>11. ~Holds(r)
  BY <1>1, <1>7 DEF Holds
<1>12. cutShort' = cutShort /\ cutShort \subseteq owed /\ lock' = lock /\ lock \in Threads \cup {None}
  BY <1>6 DEF IInv, Typed
<1>13. Good(r, past, owed, Members(libs)) /\ AddsIn(stack[t]) \subseteq AddsIn(r) \cup {}
  BY <1>9, <1>10 DEF s, ls
<1> QED BY <1>4, <1>5, <1>6, <1>11, <1>12, <1>13, QuietStep

(* Another thread runs. *)
LEMMA SwitchStep ==
  ASSUME IInv, NEW t \in Threads, Switch(t)
  PROVE  IInv'
<1>1. /\ gvl' \in Threads
      /\ UNCHANGED <<lock, dirs, libs, past, stack, owed, cutShort, loaded>>
  BY DEF Switch, additions, record
<1> QED BY <1>1 DEF IInv, Typed, StacksGood, OwedComplete, LibsDistinct, LockBelongsToLibs,
           LoadedAtOneMoment, LoadsHaveStringIO, Top

(* A call that finds the mutex taken. *)
LEMMA BlockStep ==
  ASSUME IInv, NEW t \in Threads, Block(t)
  PROVE  IInv'
<1> DEFINE f == [Top(t) EXCEPT !.at = "blocked"]
<1>1. stack[t] # <<>> /\ Top(t).at = "lock" /\ Become(t, f)
  BY DEF Block, Running
<1>2. Top(t) \in Frames /\ FrameOK(Top(t), past, owed, Members(libs))
  BY <1>1, TopFacts
<1>3. /\ f \in Frames /\ f.at = "blocked" /\ f.op = Top(t).op /\ f.arg = Top(t).arg
      /\ f.todo = Top(t).todo /\ f.libs = Top(t).libs /\ f.since = Top(t).since
  BY <1>2 DEF Frames, Points
<1> HIDE DEF f
<1>4. FrameOK(f, past, owed, Members(libs))
  BY <1>2, <1>3 DEF FrameOK
<1>5. HasCore /\ f.op = "load" => \E l \in Members(libs) : l.name = StringIO
  <2>1. HasIO(stack[t], Len(stack[t]), Members(libs)) /\ Top(t) = stack[t][Len(stack[t])]
        /\ Len(stack[t]) \in Nat
    BY <1>1, TopFacts
  <2> QED BY <1>1, <1>3, <2>1 DEF HasIO, PendingAbove
<1>6. lock # t
  BY <1>1 DEF IInv, LockBelongsToLibs
<1>7. \A n \in LibNames : Pending(Top(t), n) => Pending(f, n)
  BY <1>3 DEF Pending
<1>8. UNCHANGED <<gvl, lock, additions, owed, cutShort, loaded>>
  BY DEF Block, record
<1>9. lock' \in Threads \cup {None} /\ lock' # t /\ \A u \in Threads \ {t} : lock' = u <=> lock = u
  BY <1>6, <1>8 DEF IInv, Typed
<1> QED BY <1>1, <1>3, <1>4, <1>5, <1>7, <1>8, <1>9, BecomeStep

(* What can be on a call's list. *)
LEMMA TodoLists ==
  ASSUME NEW ds \in Seq(Dirs), NEW ls \in Seq(Libs)
  PROVE  /\ ls \in Seq(Todos)
         /\ (IF HasCore THEN <<None>> ELSE <<>>) \o ls \o ds \in Seq(Todos)
<1>1. ls \in Seq(Todos) /\ ds \in Seq(Todos)
  <2>1. Libs \subseteq Todos /\ Dirs \subseteq Todos
    BY DEF Todos
  <2>2. /\ Len(ls) \in Nat /\ ls \in [1 .. Len(ls) -> Todos]
        /\ Len(ds) \in Nat /\ ds \in [1 .. Len(ds) -> Todos]
    BY <2>1, LenProperties, ElementOfSeq
  <2> QED BY <2>2, IsASeq
<1>2. (IF HasCore THEN <<None>> ELSE <<>>) \in Seq(Todos)
  <2>1. <<None>> \in Seq(Todos)
    BY DEF Todos
  <2>2. <<>> \in Seq(Todos)
    BY EmptySeq
  <2> QED BY <2>1, <2>2
<1>3. (IF HasCore THEN <<None>> ELSE <<>>) \o ls \in Seq(Todos)
  BY <1>1, <1>2, ConcatProperties
<1> QED BY <1>1, <1>3, ConcatProperties

(* The mutex is nobody's, or stays with its holder. *)
LEMMA LockKept ==
  ASSUME IInv, NEW t \in Threads, lock # t, lock' = lock
  PROVE  lock' \in Threads \cup {None} /\ lock' # t /\ \A u \in Threads \ {t} : lock' = u <=> lock = u
BY DEF IInv, Typed

(* libs takes the mutex. *)
LEMMA LibsLockStep ==
  ASSUME IInv, NEW t \in Threads, LibsLock(t)
  PROVE  IInv'
<1> DEFINE f == [Top(t) EXCEPT !.at = "convert", !.todo = libs]
<1>1. /\ stack[t] # <<>> /\ Top(t).at = "lock" /\ Top(t).op = "libs" /\ Become(t, f)
      /\ lock = None /\ lock' = t
  BY DEF LibsLock, Enters, At, Running
<1>2. Top(t) \in Frames /\ FrameOK(Top(t), past, owed, Members(libs))
  BY <1>1, TopFacts
<1>3. libs \in Seq(Libs) /\ libs \in Seq(Todos)
  BY TodoLists DEF IInv, Typed
<1>4. /\ f \in Frames /\ f.at = "convert" /\ f.op = "libs" /\ f.todo = libs
      /\ f.libs = Top(t).libs /\ f.since = Top(t).since
  BY <1>1, <1>2, <1>3 DEF Frames, Points
<1> HIDE DEF f
<1>5. FrameOK(f, past, owed, Members(libs))
  BY <1>1, <1>2, <1>3, <1>4 DEF FrameOK
<1>6. \A n \in LibNames : Pending(Top(t), n) => Pending(f, n)
  BY <1>1 DEF Pending
<1>7. UNCHANGED <<gvl, additions, owed, cutShort, loaded>>
  BY DEF LibsLock, record
<1>8. lock' \in Threads \cup {None} /\ \A u \in Threads \ {t} : lock' = u <=> lock = u
  BY <1>1, NoneAssumption
<1> QED BY <1>1, <1>4, <1>5, <1>6, <1>7, <1>8, BecomeStep

(* libs makes one more Library. *)
LEMMA LibsConvertStep ==
  ASSUME IInv, NEW t \in Threads, LibsConvert(t)
  PROVE  IInv'
<1> DEFINE f == [Top(t) EXCEPT !.todo = Tail(@), !.libs = Append(@, Head(Top(t).todo))]
<1>1. /\ stack[t] # <<>> /\ Top(t).at = "convert" /\ Top(t).op = "libs" /\ Become(t, f)
      /\ Top(t).todo # <<>>
  BY DEF LibsConvert, At, Running
<1>2. Top(t) \in Frames /\ FrameOK(Top(t), past, owed, Members(libs))
  BY <1>1, TopFacts
<1>3. /\ Top(t).todo \in Seq(Libs) /\ Top(t).libs \in Seq(Libs)
      /\ Members(Top(t).todo) \subseteq Members(libs) /\ Members(Top(t).libs) \subseteq Members(libs)
  BY <1>1, <1>2 DEF FrameOK, Frames
<1>4. /\ Head(Top(t).todo) \in Libs /\ Tail(Top(t).todo) \in Seq(Libs)
      /\ Members(Top(t).todo) = Members(Tail(Top(t).todo)) \cup {Head(Top(t).todo)}
  BY <1>1, <1>3, MembersOfTail
<1>5. /\ Append(Top(t).libs, Head(Top(t).todo)) \in Seq(Libs)
      /\ Members(Append(Top(t).libs, Head(Top(t).todo)))
           = Members(Top(t).libs) \cup {Head(Top(t).todo)}
  BY <1>3, <1>4, MembersOfAppend
<1>6. Tail(Top(t).todo) \in Seq(Todos)
  BY <1>1, <1>2, MembersOfTail DEF Frames
<1>7. /\ f \in Frames /\ f.at = "convert" /\ f.op = "libs" /\ f.todo = Tail(Top(t).todo)
      /\ f.libs = Append(Top(t).libs, Head(Top(t).todo)) /\ f.since = Top(t).since
  BY <1>1, <1>2, <1>5, <1>6 DEF Frames
<1> HIDE DEF f
<1>8. FrameOK(f, past, owed, Members(libs))
  BY <1>2, <1>3, <1>4, <1>5, <1>7 DEF FrameOK
<1>9. \A n \in LibNames : Pending(Top(t), n) => Pending(f, n)
  BY <1>1 DEF Pending
<1>10. UNCHANGED <<gvl, lock, additions, owed, cutShort, loaded>>
  BY DEF LibsConvert, record
<1>11. lock = t
  BY <1>1 DEF IInv, LockBelongsToLibs
<1> QED BY <1>1, <1>7, <1>8, <1>9, <1>10, <1>11, BecomeStep

(* What is added now is the last value additions had. *)
LEMMA SnapshotNow ==
  ASSUME IInv, NEW k \in 1 .. Len(past)
  PROVE  \E j \in k .. Len(past) : past[j] = [dirs |-> dirs, libs |-> libs]
<1>1. Len(past) \in Nat \ {0}
  BY EmptySeq DEF IInv, Typed
<1>2. Len(past) \in k .. Len(past)
  BY <1>1
<1> QED BY <1>2 DEF IInv, Typed

(* each_dir takes its snapshot. *)
LEMMA EachDirLockStep ==
  ASSUME IInv, NEW t \in Threads, EachDirLock(t)
  PROVE  IInv'
<1> DEFINE l == (IF HasCore THEN <<None>> ELSE <<>>) \o libs \o dirs
           f == [Top(t) EXCEPT !.at = "next", !.libs = libs, !.dirs = dirs, !.todo = l]
<1>1. /\ stack[t] # <<>> /\ Top(t).at = "lock" /\ Top(t).op = "each_dir" /\ Become(t, f)
      /\ UNCHANGED <<gvl, lock, additions, owed, cutShort, loaded>>
  BY DEF EachDirLock, Enters, At, Running, record
<1>2. Top(t) \in Frames /\ FrameOK(Top(t), past, owed, Members(libs))
  BY <1>1, TopFacts
<1>3. dirs \in Seq(Dirs) /\ libs \in Seq(Libs) /\ l \in Seq(Todos)
  BY TodoLists DEF IInv, Typed
<1> HIDE DEF l
<1>4. /\ f \in Frames /\ f.at = "next" /\ f.op = "each_dir" /\ f.dirs = dirs
      /\ f.libs = libs /\ f.since = Top(t).since
  BY <1>1, <1>2, <1>3 DEF Frames, Points
<1> HIDE DEF f
<1>5. FrameOK(f, past, owed, Members(libs))
  BY <1>2, <1>4, SnapshotNow DEF FrameOK
<1>6. \A n \in LibNames : Pending(Top(t), n) => Pending(f, n)
  BY <1>1 DEF Pending
<1>7. lock # t
  BY <1>1 DEF IInv, LockBelongsToLibs
<1>8. lock' \in Threads \cup {None} /\ lock' # t /\ \A u \in Threads \ {t} : lock' = u <=> lock = u
  BY <1>1, <1>7, LockKept
<1> QED BY <1>1, <1>4, <1>5, <1>6, <1>8, BecomeStep

(* each_dir calls its block, and goes on. *)
LEMMA EachDirStep ==
  ASSUME IInv, NEW t \in Threads, EachDirYield(t) \/ EachDirResume(t)
  PROVE  IInv'
<1>1. PICK f : /\ Become(t, f)
               /\ \/ f = [Top(t) EXCEPT !.at = "block", !.todo = Tail(@)]
                       /\ Top(t).at = "next" /\ Top(t).todo # <<>>
                  \/ f = [Top(t) EXCEPT !.at = "next"] /\ Top(t).at = "block"
  BY DEF EachDirYield, EachDirResume, At
<1>2. /\ stack[t] # <<>> /\ Top(t).op = "each_dir"
      /\ UNCHANGED <<gvl, lock, additions, owed, cutShort, loaded>>
  BY DEF EachDirYield, EachDirResume, At, Running, record
<1>3. Top(t) \in Frames /\ FrameOK(Top(t), past, owed, Members(libs))
  BY <1>2, TopFacts
<1>4. Top(t).todo # <<>> => Tail(Top(t).todo) \in Seq(Todos)
  BY <1>3, MembersOfTail DEF Frames
<1>5. /\ f \in Frames /\ f.at \in {"next", "block"} /\ f.op = "each_dir" /\ f.dirs = Top(t).dirs
      /\ f.libs = Top(t).libs /\ f.since = Top(t).since
  BY <1>1, <1>2, <1>3, <1>4 DEF Frames, Points
<1>6. FrameOK(f, past, owed, Members(libs))
  BY <1>1, <1>3, <1>5 DEF FrameOK
<1>7. \A n \in LibNames : Pending(Top(t), n) => Pending(f, n)
  BY <1>2 DEF Pending
<1>8. Top(t).at \notin {"deps", "convert"}
  BY <1>1
<1>9. lock # t
  BY <1>2, <1>8 DEF IInv, LockBelongsToLibs
<1>10. lock' \in Threads \cup {None} /\ lock' # t /\ \A u \in Threads \ {t} : lock' = u <=> lock = u
  BY <1>2, <1>9, LockKept
<1> QED BY <1>1, <1>2, <1>5, <1>6, <1>7, <1>8, <1>10, BecomeStep

(* load takes its snapshot; stringio is there by then. *)
LEMMA LoadLockStep ==
  ASSUME IInv, NEW t \in Threads, LoadLock(t)
  PROVE  IInv'
<1> DEFINE f == [Top(t) EXCEPT !.at = "lookup", !.todo = libs, !.libs = libs, !.dirs = dirs]
<1>1. /\ stack[t] # <<>> /\ Top(t).at = "lock" /\ Top(t).op = "load" /\ Become(t, f)
      /\ UNCHANGED <<gvl, lock, additions, owed, cutShort, loaded>>
  BY DEF LoadLock, Enters, At, Running, record
<1>2. /\ Top(t) \in Frames /\ FrameOK(Top(t), past, owed, Members(libs))
      /\ HasIO(stack[t], Len(stack[t]), Members(libs)) /\ Top(t) = stack[t][Len(stack[t])]
      /\ Len(stack[t]) \in Nat
  BY <1>1, TopFacts
<1>3. dirs \in Seq(Dirs) /\ libs \in Seq(Libs) /\ libs \in Seq(Todos)
  BY TodoLists DEF IInv, Typed
<1>4. /\ f \in Frames /\ f.at = "lookup" /\ f.op = "load" /\ f.dirs = dirs
      /\ f.libs = libs /\ f.since = Top(t).since
  BY <1>1, <1>2, <1>3 DEF Frames, Points
<1> HIDE DEF f
<1>5. HasCore => HasStringIO(libs)
  BY <1>1, <1>2 DEF HasIO, PendingAbove, HasStringIO
<1>6. FrameOK(f, past, owed, Members(libs))
  BY <1>2, <1>4, <1>5, SnapshotNow DEF FrameOK
<1>7. \A n \in LibNames : Pending(Top(t), n) => Pending(f, n)
  BY <1>1 DEF Pending
<1>8. lock # t
  BY <1>1 DEF IInv, LockBelongsToLibs
<1>9. lock' \in Threads \cup {None} /\ lock' # t /\ \A u \in Threads \ {t} : lock' = u <=> lock = u
  BY <1>1, <1>8, LockKept
<1> QED BY <1>1, <1>4, <1>6, <1>7, <1>9, BecomeStep

(* load finds one more library. *)
LEMMA LoadLookupStep ==
  ASSUME IInv, NEW t \in Threads, LoadLookup(t)
  PROVE  IInv'
<1> DEFINE f == [Top(t) EXCEPT !.todo = Tail(@)]
<1>1. /\ stack[t] # <<>> /\ Top(t).at = "lookup" /\ Top(t).op = "load" /\ Become(t, f)
      /\ Top(t).todo # <<>>
      /\ UNCHANGED <<gvl, lock, additions, owed, cutShort, loaded>>
  BY DEF LoadLookup, At, Running, record
<1>2. Top(t) \in Frames /\ FrameOK(Top(t), past, owed, Members(libs))
  BY <1>1, TopFacts
<1>3. Tail(Top(t).todo) \in Seq(Todos)
  BY <1>1, <1>2, MembersOfTail DEF Frames
<1>4. /\ f \in Frames /\ f.at = "lookup" /\ f.op = "load" /\ f.dirs = Top(t).dirs
      /\ f.libs = Top(t).libs /\ f.since = Top(t).since
  BY <1>1, <1>2, <1>3 DEF Frames
<1> HIDE DEF f
<1>5. FrameOK(f, past, owed, Members(libs))
  BY <1>1, <1>2, <1>4 DEF FrameOK
<1>6. \A n \in LibNames : Pending(Top(t), n) => Pending(f, n)
  BY <1>1 DEF Pending
<1>7. lock # t
  BY <1>1 DEF IInv, LockBelongsToLibs
<1>8. lock' \in Threads \cup {None} /\ lock' # t /\ \A u \in Threads \ {t} : lock' = u <=> lock = u
  BY <1>1, <1>7, LockKept
<1> QED BY <1>1, <1>4, <1>5, <1>6, <1>8, BecomeStep

(* add goes on to the next dependency. *)
LEMMA AddDependencyStep ==
  ASSUME IInv, NEW t \in Threads, AddDependency(t)
  PROVE  IInv'
<1> DEFINE f == [Top(t) EXCEPT !.todo = Tail(@)]
           n0 == Head(Top(t).todo)
           g == AddCall([name |-> n0, version |-> None], TRUE)
<1>1. /\ stack[t] # <<>> /\ Top(t).at = "deps" /\ Top(t).op = "add" /\ Top(t).todo # <<>>
      /\ PushOn(t, f, g) /\ UNCHANGED <<gvl, lock, additions, owed, cutShort, loaded>>
  BY DEF AddDependency, At, Running, record
<1>2. /\ Top(t) \in Frames /\ FrameOK(Top(t), past, owed, Members(libs))
      /\ HasDependencies(stack[t], Len(stack[t]), Members(libs))
      /\ Top(t) = stack[t][Len(stack[t])] /\ Len(stack[t]) \in Nat
  BY <1>1, TopFacts
<1>3. Top(t).todo \in Seq(LibNames)
  BY <1>1, <1>2 DEF FrameOK
<1>4. /\ n0 \in LibNames /\ Tail(Top(t).todo) \in Seq(LibNames)
      /\ Members(Top(t).todo) = Members(Tail(Top(t).todo)) \cup {n0}
  BY <1>1, <1>3, MembersOfTail
<1>5. Tail(Top(t).todo) \in Seq(Todos)
  BY <1>1, <1>2, MembersOfTail DEF Frames
<1>6. /\ f \in Frames /\ f.at = "deps" /\ f.op = "add" /\ f.arg = Top(t).arg
      /\ f.todo = Tail(Top(t).todo) /\ f.since = Top(t).since
  BY <1>1, <1>2, <1>5 DEF Frames
<1>7. [lib |-> [name |-> n0, version |-> None], deps |-> TRUE] \in Items
  BY <1>4 DEF Items, Libs
<1>8. /\ g \in Frames /\ FrameOK(g, past, owed, Members(libs)) /\ g.at = "lock" /\ g.op = "add"
      /\ g.arg = [lib |-> [name |-> n0, version |-> None], deps |-> TRUE]
  BY <1>7, NewFrame DEF AddCall, Ops, Args
<1> HIDE DEF f, n0, g
<1>9. FrameOK(f, past, owed, Members(libs))
  BY <1>1, <1>2, <1>4, <1>6 DEF FrameOK
<1>10. Pending(g, n0)
  BY <1>8 DEF Pending, Unversioned
<1>11. \A n \in Members(DependsOn[f.arg.lib.name]) :
         Unversioned(n) \in Members(libs) \/ n \in Members(f.todo) \/ Pending(g, n)
  BY <1>1, <1>2, <1>4, <1>6, <1>10 DEF HasDependencies, PendingAbove
<1>12. \A n \in LibNames : ~Pending(Top(t), n)
  BY <1>1 DEF Pending
<1>13. g.op # "load" /\ Top(t).at # "convert" /\ f.op # "load"
  BY <1>1, <1>6, <1>8
<1> QED BY <1>1, <1>6, <1>8, <1>9, <1>11, <1>12, <1>13, CallStep

(* load asks for the libraries, or adds stringio. *)
LEMMA LoadCallStep ==
  ASSUME IInv, NEW t \in Threads, LoadLibs(t) \/ LoadStringIO(t)
  PROVE  IInv'
<1>1. /\ stack[t] # <<>> /\ Top(t).op = "load"
      /\ UNCHANGED <<gvl, lock, additions, owed, cutShort, loaded>>
  BY DEF LoadLibs, LoadStringIO, At, Running, record
<1>2. Top(t) \in Frames /\ FrameOK(Top(t), past, owed, Members(libs))
  BY <1>1, TopFacts
<1>3. \A n \in LibNames : ~Pending(Top(t), n)
  BY <1>1 DEF Pending
<1>4. CASE LoadLibs(t)
  <2> DEFINE g == Frame("libs", None, "lock")
  <2>1. Top(t).at = "libs" /\ PushOn(t, Top(t), g)
    BY <1>4 DEF LoadLibs, At
  <2>2. /\ g \in Frames /\ FrameOK(g, past, owed, Members(libs))
        /\ g.at = "lock" /\ g.op = "libs"
    BY NewFrame DEF Ops, Args
  <2> HIDE DEF g
  <2> QED BY <1>1, <1>2, <1>3, <2>1, <2>2, CallStep
<1>5. CASE LoadStringIO(t)
  <2> DEFINE f == [Top(t) EXCEPT !.at = "lock"]
             g == AddCall([name |-> StringIO, version |-> None], TRUE)
  <2>1. Top(t).at = "stringio" /\ PushOn(t, f, g)
    BY <1>5 DEF LoadStringIO, At
  <2>2. [lib |-> [name |-> StringIO, version |-> None], deps |-> TRUE] \in Items
    BY LibrariesAssumption DEF Items, Libs
  <2>3. /\ g \in Frames /\ FrameOK(g, past, owed, Members(libs)) /\ g.at = "lock" /\ g.op = "add"
        /\ g.arg = [lib |-> [name |-> StringIO, version |-> None], deps |-> TRUE]
    BY <2>2, NewFrame DEF AddCall, Ops, Args
  <2>4. f \in Frames /\ f.at = "lock" /\ f.op = "load" /\ f.since = Top(t).since
    BY <1>1, <1>2 DEF Frames, Points
  <2> HIDE DEF f, g
  <2>5. FrameOK(f, past, owed, Members(libs))
    BY <1>2, <2>4 DEF FrameOK
  <2>6. Pending(g, StringIO)
    BY <2>3 DEF Pending, Unversioned
  <2>7. g.op # "load" /\ Top(t).at \notin {"convert", "deps"} /\ f.op # "add"
    BY <2>1, <2>3, <2>4
  <2> QED BY <1>1, <1>3, <2>1, <2>3, <2>4, <2>5, <2>6, <2>7, CallStep
<1> QED BY <1>4, <1>5

(* add and each_dir return. *)
LEMMA ReturnStep ==
  ASSUME IInv, NEW t \in Threads, AddReturn(t) \/ EachDirReturn(t)
  PROVE  IInv'
<1>1. /\ stack[t] # <<>> /\ Pop(t) /\ Top(t).todo = <<>> /\ Top(t).at \in {"deps", "next"}
      /\ UNCHANGED <<gvl, lock, additions, owed, cutShort, loaded>>
  BY DEF AddReturn, EachDirReturn, At, Running, record
<1>2. \A n \in LibNames : ~Pending(Top(t), n)
  BY <1>1 DEF Pending
<1>3. lock # t
  BY <1>1 DEF IInv, LockBelongsToLibs
<1>4. lock' \in Threads \cup {None} /\ lock' # t /\ \A u \in Threads \ {t} : lock' = u <=> lock = u
  BY <1>1, <1>3, LockKept
<1> QED BY <1>1, <1>2, <1>4, PopStep

(* libs returns its set, gives the mutex back, and a load that asked goes on. *)
LEMMA LibsReturnStep ==
  ASSUME IInv, NEW t \in Threads, LibsReturn(t)
  PROVE  IInv'
<1> DEFINE s == stack[t]
           b == SubSeq(s, 1, Len(s) - 1)
           n == Len(b)
           x == IF HasStringIO(Top(t).libs) THEN "lock" ELSE "stringio"
           f == [b[n] EXCEPT !.at = x]
           goes == n > 0 /\ b[n].op = "load"
           r == IF goes THEN [b EXCEPT ![n].at = x] ELSE b
           ls == Members(libs)
<1>1. /\ s # <<>> /\ Top(t).op = "libs" /\ Top(t).at = "convert" /\ lock' = None
      /\ UNCHANGED <<gvl, additions, owed, cutShort, loaded>>
  BY DEF LibsReturn, At, Running, record
<1>2. stack' = [stack EXCEPT ![t] = r]
  BY DEF LibsReturn, Below
<1>3. /\ Good(s, past, owed, ls) /\ s \in Seq(Frames) /\ Len(s) \in Nat \ {0}
      /\ Top(t) = s[Len(s)] /\ FrameOK(Top(t), past, owed, ls)
  BY <1>1, TopFacts
<1>4. Members(Top(t).libs) \subseteq ls
  BY <1>1, <1>3 DEF FrameOK
<1>5. HasStringIO(Top(t).libs) => \E l \in ls : l.name = StringIO
  BY <1>4 DEF HasStringIO
<1>6. s[Len(s)].op = "libs"
  BY <1>1, <1>3
<1>7. AddsIn(stack[t]) = AddsIn(s)
  OBVIOUS
<1>8. x \in {"lock", "stringio"} /\ (x = "lock" => \E l \in ls : l.name = StringIO)
  BY <1>5
<1> HIDE DEF s, x, ls
<1>9. b \in Seq(Frames) /\ n = Len(s) - 1 /\ \A i \in 1 .. n : b[i] = s[i]
  BY <1>1, <1>3, FrontOf
<1> HIDE DEF b
<1>10. n \in Nat
  BY <1>3, <1>9
<1> HIDE DEF n
<1>11. \A m \in LibNames : Pending(s[Len(s)], m) => Unversioned(m) \in ls
  BY <1>6 DEF Pending
<1>12. Good(b, past, owed, ls) /\ AddsIn(s) \subseteq AddsIn(b) \cup AddsAt(s[Len(s)])
  BY <1>1, <1>3, <1>9, <1>11, GoodPop DEF n
<1>13. AddsIn(s) \subseteq AddsIn(b)
  BY <1>6, <1>12 DEF AddsAt
<1>14. n > 0 => b[n].at # "convert"
  <2>1. n > 0 => n \in 1 .. n /\ n \in 1 .. Len(s) /\ n < Len(s)
    BY <1>3, <1>9, <1>10
  <2> QED BY <1>3, <1>9, <2>1 DEF Good, Waits
<1>15. ASSUME ~goes
       PROVE  Good(r, past, owed, ls) /\ AddsIn(s) \subseteq AddsIn(r) /\ ~Holds(r)
  <2>1. r = b
    BY <1>15
  <2>2. ~Holds(b)
    <3>1. b # <<>> => n > 0
      BY <1>9, <1>10, EmptySeq DEF n
    <3> QED BY <1>14, <3>1 DEF Holds, n
  <2> QED BY <1>12, <1>13, <2>1, <2>2
<1>16. ASSUME goes
       PROVE  Good(r, past, owed, ls) /\ AddsIn(s) \subseteq AddsIn(r) /\ ~Holds(r)
  <2>1. n \in 1 .. n /\ b[n] \in Frames /\ b # <<>>
    BY <1>9, <1>10, <1>16, ElementOfSeq, EmptySeq DEF n
  <2>2. FrameOK(b[n], past, owed, ls)
    BY <1>12, <2>1 DEF Good, n
  <2>3. f \in Frames /\ f.op = "load" /\ f.at = x /\ f.since = b[n].since
    BY <1>8, <1>16, <2>1 DEF Frames, Points
  <2>4. r = [b EXCEPT ![n] = f]
    BY <1>16
  <2> HIDE DEF f, goes, r
  <2>5. /\ r \in Seq(Frames) /\ Len(r) = Len(b) /\ r[n] = f
        /\ \A i \in 1 .. n - 1 : r[i] = b[i]
    <3>1. b \in [1 .. n -> Frames] /\ DOMAIN b = 1 .. n
      BY <1>9, LenProperties DEF n
    <3>2. r \in [1 .. n -> Frames] /\ r[n] = f /\ \A i \in 1 .. n - 1 : r[i] = b[i]
      BY <1>10, <2>1, <2>3, <2>4, <3>1
    <3>3. r \in Seq(Frames) /\ Len(r) = n
      <4>1. r \in Seq(Frames)
        BY <1>10, <3>2, IsASeq
      <4>2. DOMAIN r = 1 .. n /\ DOMAIN r = 1 .. Len(r) /\ Len(r) \in Nat
        BY <3>2, <4>1, LenProperties
      <4> QED BY <1>10, <4>1, <4>2
    <3> QED BY <3>2, <3>3 DEF n
  <2>6. FrameOK(f, past, owed, ls)
    BY <1>8, <2>2, <2>3 DEF FrameOK
  <2>7. HasDependencies(r, n, ls) /\ HasIO(r, n, ls)
    BY <1>8, <2>3, <2>5 DEF HasDependencies, HasIO
  <2>8. b[n].op = "load"
    BY <1>16 DEF goes
  <2>9. \A m \in LibNames : Pending(b[n], m) => Pending(f, m) \/ Unversioned(m) \in ls
    BY <2>8 DEF Pending
  <2>10. /\ Good(r, past, owed, ls) /\ r # <<>>
         /\ AddsIn(b) \subseteq AddsIn(r) \cup AddsAt(b[n])
    BY <1>12, <2>1, <2>3, <2>5, <2>6, <2>7, <2>9, GoodBecome DEF n
  <2>11. AddsAt(b[n]) = {}
    BY <2>8 DEF AddsAt
  <2>12. ~Holds(r)
    BY <1>8, <2>3, <2>5 DEF Holds, n
  <2> QED BY <1>13, <2>10, <2>11, <2>12
<1>17. Good(r, past, owed, ls) /\ AddsIn(s) \subseteq AddsIn(r) \cup {} /\ ~Holds(r)
  BY <1>15, <1>16
<1>18. lock = t
  BY <1>1 DEF IInv, LockBelongsToLibs, s
<1>19. /\ lock' \in Threads \cup {None} /\ lock' # t
       /\ \A u \in Threads \ {t} : lock' = u <=> lock = u
  BY <1>1, <1>18, NoneAssumption
<1>20. cutShort \subseteq cutShort' /\ cutShort' \subseteq owed
  BY <1>1 DEF IInv, Typed
<1>21. Good(r, past, owed, Members(libs)) /\ AddsIn(stack[t]) \subseteq AddsIn(r) \cup {}
  BY <1>7, <1>17 DEF ls
<1> HIDE DEF r
<1> QED BY <1>1, <1>2, <1>17, <1>19, <1>20, <1>21, QuietStep

(* A step that adds something to additions. *)
LEMMA GrowStep ==
  ASSUME IInv, NEW t \in Threads, NEW r, stack' = [stack EXCEPT ![t] = r],
         UNCHANGED <<gvl, lock, cutShort, loaded>>, lock # t, ~Holds(r),
         dirs' \in Seq(Dirs), libs' \in Seq(Libs), LibsDistinct',
         past' = Append(past, [dirs |-> dirs', libs |-> libs']),
         Members(libs) \subseteq Members(libs'),
         owed \subseteq owed', owed' \subseteq owed \cup AddsIn(r), owed' \subseteq Members(libs'),
         Good(r, past', owed', Members(libs')), AddsIn(stack[t]) \subseteq AddsIn(r)
  PROVE  IInv'
<1>1. /\ past \in Seq(Values) /\ past' \in Seq(Values) /\ Len(past) \in Nat \ {0}
      /\ Len(past') = Len(past) + 1 /\ past'[Len(past')] = [dirs |-> dirs', libs |-> libs']
      /\ \A k \in 1 .. Len(past) : past'[k] = past[k]
  <2>1. past \in Seq(Values) /\ past # <<>> /\ [dirs |-> dirs', libs |-> libs'] \in Values
    BY DEF IInv, Typed, Values
  <2> QED BY <2>1, EmptySeq, AppendProperties
<1>2. Extends(past, past') /\ past' # <<>>
  BY <1>1, EmptySeq DEF Extends
<1>3. cutShort' = cutShort /\ cutShort \subseteq owed' /\ lock' = lock /\ gvl' = gvl
      /\ loaded' = loaded
  BY DEF IInv, Typed
<1>4. AddsIn(stack[t]) \subseteq AddsIn(r) \cup {}
  OBVIOUS
<1>5. stack' \in [Threads -> Seq(Frames)] /\ StacksGood' /\ OwedComplete'
  BY <1>1, <1>2, <1>3, <1>4, StackStep
<1>6. Typed'
  BY <1>1, <1>2, <1>3, <1>5 DEF IInv, Typed
<1>7. LoadedAtOneMoment'
  <2>1. SUFFICES ASSUME loaded # None
                 PROVE  /\ loaded.since \in 1 .. Len(past')
                        /\ \E k \in loaded.since .. Len(past') :
                             loaded.specs = Specs(past'[k].dirs, past'[k].libs)
    BY <1>3 DEF LoadedAtOneMoment
  <2>2. PICK k \in loaded.since .. Len(past) : loaded.specs = Specs(past[k].dirs, past[k].libs)
    BY <2>1 DEF IInv, LoadedAtOneMoment
  <2>3. loaded.since \in 1 .. Len(past)
    BY <2>1 DEF IInv, LoadedAtOneMoment
  <2>4. k \in 1 .. Len(past) /\ k \in loaded.since .. Len(past')
        /\ loaded.since \in 1 .. Len(past')
    BY <1>1, <2>2, <2>3
  <2>5. past'[k] = past[k]
    BY <1>1, <2>4
  <2> QED BY <2>2, <2>4, <2>5
<1>8. LoadsHaveStringIO'
  BY <1>3 DEF IInv, LoadsHaveStringIO
<1>9. ASSUME NEW u \in Threads
      PROVE  lock' = u <=> stack'[u] # <<>> /\ stack'[u][Len(stack'[u])].op = "libs"
                             /\ stack'[u][Len(stack'[u])].at = "convert"
  <2>1. CASE u = t
    BY <1>3, <2>1 DEF Holds, IInv, Typed
  <2>2. CASE u # t
    BY <1>3, <2>2 DEF IInv, Typed, LockBelongsToLibs, Top
  <2> QED BY <2>1, <2>2
<1>10. LockBelongsToLibs'
  BY <1>9 DEF LockBelongsToLibs, Top
<1> QED BY <1>5, <1>6, <1>7, <1>8, <1>10 DEF IInv

(* What a thread relies on when something is added. *)
LEMMA GrownTop ==
  ASSUME IInv, NEW t \in Threads, stack[t] # <<>>,
         NEW v \in Values, NEW o, owed \subseteq o, NEW ls, Members(libs) \subseteq ls
  PROVE  /\ Append(past, v) \in Seq(Values)
         /\ Good(stack[t], Append(past, v), o, ls)
         /\ FrameOK(Top(t), Append(past, v), o, ls)
<1>1. past \in Seq(Values) /\ Good(stack[t], past, owed, Members(libs))
  BY TopFacts DEF IInv, Typed
<1>2. /\ Append(past, v) \in Seq(Values) /\ Len(past) \in Nat
      /\ Len(Append(past, v)) = Len(past) + 1
      /\ \A k \in 1 .. Len(past) : Append(past, v)[k] = past[k]
  BY <1>1, AppendProperties, LenProperties
<1>3. Extends(past, Append(past, v))
  BY <1>2 DEF Extends
<1>4. Good(stack[t], Append(past, v), o, ls)
  BY <1>1, <1>2, <1>3, GoodGrows
<1>5. Top(t) = stack[t][Len(stack[t])] /\ Len(stack[t]) \in 1 .. Len(stack[t])
  BY TopFacts
<1> QED BY <1>2, <1>4, <1>5 DEF Good

(* The stack without its topmost call, which was not one of libs and does
   not wait for its dependencies. *)
LEMMA BelowTop ==
  ASSUME NEW p, NEW o, NEW ls, NEW s, Good(s, p, o, ls), s # <<>>, s[Len(s)].at # "deps",
         \A n \in LibNames : Pending(s[Len(s)], n) => Unversioned(n) \in ls
  PROVE  LET r == SubSeq(s, 1, Len(s) - 1)
         IN  Good(r, p, o, ls) /\ AddsIn(s) \subseteq AddsIn(r) /\ ~Holds(r)
<1> DEFINE r == SubSeq(s, 1, Len(s) - 1)
<1>1. /\ r \in Seq(Frames) /\ Len(s) \in Nat \ {0} /\ Len(r) = Len(s) - 1
      /\ \A i \in 1 .. Len(r) : r[i] = s[i]
  BY FrontOf DEF Good
<1> HIDE DEF r
<1>2. /\ Good(r, p, o, ls)
      /\ AddsIn(s) \subseteq AddsIn(r) \cup AddsAt(s[Len(s)])
  BY <1>1, GoodPop
<1>3. AddsAt(s[Len(s)]) = {}
  BY DEF AddsAt
<1>4. ~Holds(r)
  <2>1. SUFFICES ASSUME r # <<>> PROVE r[Len(r)].at # "convert"
    BY DEF Holds
  <2>2. Len(r) \in 1 .. Len(r) /\ Len(r) \in 1 .. Len(s) /\ Len(r) < Len(s)
    BY <1>1, <2>1, EmptySeq
  <2> QED BY <1>1, <2>2 DEF Good, Waits
<1>5. Good(r, p, o, ls) /\ AddsIn(s) \subseteq AddsIn(r) /\ ~Holds(r)
  BY <1>2, <1>3, <1>4
<1> QED BY <1>5 DEF r

(* A directory is added. *)
LEMMA AddPathStep ==
  ASSUME IInv, NEW t \in Threads, AddPath(t)
  PROVE  IInv'
<1> DEFINE r == SubSeq(stack[t], 1, Len(stack[t]) - 1)
           v == [dirs |-> Append(dirs, Top(t).arg), libs |-> libs]
<1>1. /\ stack[t] # <<>> /\ Top(t).at = "lock" /\ Top(t).op = "path" /\ lock = None
      /\ UNCHANGED <<gvl, lock, libs, owed, cutShort, loaded>>
      /\ dirs' = Append(dirs, Top(t).arg) /\ past' = Append(past, v)
  BY DEF AddPath, Enters, At, Running, record
<1>2. /\ Good(stack[t], past, owed, Members(libs)) /\ Top(t) = stack[t][Len(stack[t])]
      /\ FrameOK(Top(t), past, owed, Members(libs)) /\ Len(stack[t]) \in Nat \ {0}
  BY <1>1, TopFacts
<1>3. Top(t).arg \in Dirs /\ dirs \in Seq(Dirs) /\ libs \in Seq(Libs)
  BY <1>1, <1>2 DEF FrameOK, IInv, Typed
<1>4. dirs' \in Seq(Dirs) /\ v \in Values
  BY <1>1, <1>3, AppendProperties DEF Values
<1>5. past' = Append(past, [dirs |-> dirs', libs |-> libs'])
  BY <1>1
<1>6. stack' = [stack EXCEPT ![t] = r]
  BY DEF AddPath, Pop, Below
<1>7. Good(stack[t], past', owed, Members(libs))
  BY <1>1, <1>4, GrownTop
<1> HIDE DEF v
<1>8. /\ stack[t][Len(stack[t])].at # "deps"
      /\ \A n \in LibNames : Pending(stack[t][Len(stack[t])], n) => Unversioned(n) \in Members(libs)
  BY <1>1, <1>2 DEF Pending
<1>9. Good(r, past', owed, Members(libs)) /\ AddsIn(stack[t]) \subseteq AddsIn(r) /\ ~Holds(r)
  BY <1>1, <1>7, <1>8, BelowTop
<1> HIDE DEF r
<1>10. lock # t /\ LibsDistinct' /\ owed \subseteq Members(libs)
  BY <1>1, NoneAssumption DEF IInv, LibsDistinct, Typed
<1>11. Good(r, past', owed', Members(libs'))
  BY <1>1, <1>9
<1> QED BY <1>1, <1>3, <1>4, <1>5, <1>6, <1>9, <1>10, <1>11, GrowStep

(* A library is added: nothing changes if it is there; otherwise its
   dependencies come next if they are asked for. *)
LEMMA AddLibraryStep ==
  ASSUME IInv, NEW t \in Threads, AddLibrary(t)
  PROVE  IInv'
<1> DEFINE s == stack[t]
           a == Top(t).arg
           v == [dirs |-> dirs, libs |-> Append(libs, a.lib)]
<1>1. /\ s # <<>> /\ Top(t).at = "lock" /\ Top(t).op = "add" /\ lock = None
      /\ UNCHANGED <<gvl, lock, dirs, cutShort, loaded>>
  BY DEF AddLibrary, Enters, At, Running
<1>2. /\ Good(s, past, owed, Members(libs)) /\ Top(t) = s[Len(s)] /\ Top(t) \in Frames
      /\ FrameOK(Top(t), past, owed, Members(libs)) /\ Len(s) \in Nat \ {0}
  BY <1>1, TopFacts
<1>3. a \in Items /\ a.lib \in Libs /\ a.lib.name \in LibNames
  BY <1>1, <1>2 DEF FrameOK, Items, Libs
<1>4. \A n \in LibNames : Pending(Top(t), n) => a.lib = Unversioned(n)
  BY DEF Pending
<1>5. lock # t
  BY <1>1, NoneAssumption
<1>6. CASE a.lib \in Members(libs)
  <2>1. Pop(t) /\ UNCHANGED <<libs, past, owed>>
    BY <1>6 DEF AddLibrary
  <2>2. UNCHANGED <<gvl, lock, additions, owed, cutShort>> /\ loaded' = loaded
    BY <1>1, <2>1 DEF additions
  <2>3. \A n \in LibNames : Pending(Top(t), n) => Unversioned(n) \in Members(libs)
    BY <1>4, <1>6
  <2>4. lock' \in Threads \cup {None} /\ lock' # t
        /\ \A u \in Threads \ {t} : lock' = u <=> lock = u
    BY <1>1, <1>5, LockKept
  <2> QED BY <1>1, <2>1, <2>2, <2>3, <2>4, PopStep
<1>7. CASE a.lib \notin Members(libs)
  <2>1. /\ libs' = Append(libs, a.lib) /\ past' = Append(past, v)
        /\ past' = Append(past, [dirs |-> dirs', libs |-> libs'])
        /\ owed' = (IF a.deps THEN owed \cup {a.lib} ELSE owed)
    BY <1>1, <1>7 DEF AddLibrary
  <2>2. dirs \in Seq(Dirs) /\ libs \in Seq(Libs) /\ owed \subseteq Members(libs)
    BY DEF IInv, Typed
  <2>3. libs' \in Seq(Libs) /\ Members(libs') = Members(libs) \cup {a.lib}
    BY <1>3, <2>1, <2>2, MembersOfAppend
  <2>4. v \in Values /\ dirs' \in Seq(Dirs)
    BY <1>1, <2>1, <2>2, <2>3 DEF Values
  <2>5. LibsDistinct'
    <3>1. /\ Len(libs) \in Nat /\ DOMAIN libs = 1 .. Len(libs)
          /\ DOMAIN libs' = 1 .. Len(libs) + 1 /\ libs'[Len(libs) + 1] = a.lib
          /\ \A i \in 1 .. Len(libs) : libs'[i] = libs[i]
      BY <1>3, <2>1, <2>2, <2>3, LenProperties, AppendProperties
    <3>2. \A i \in 1 .. Len(libs) : libs[i] # a.lib
      BY <1>7, <3>1 DEF Members
    <3>3. \A i \in DOMAIN libs' : i \in 1 .. Len(libs) \/ i = Len(libs) + 1
      BY <3>1
    <3> QED BY <3>1, <3>2, <3>3 DEF IInv, LibsDistinct
  <2>6. owed \subseteq owed' /\ owed' \subseteq Members(libs')
    BY <2>1, <2>2, <2>3
  <2> HIDE DEF v
  <2>7. Good(s, past', owed', Members(libs')) /\ FrameOK(Top(t), past', owed', Members(libs'))
    <3>1. Members(libs) \subseteq Members(libs') /\ owed \subseteq owed' /\ v \in Values
      BY <2>3, <2>4, <2>6
    <3>2. /\ Good(s, Append(past, v), owed', Members(libs'))
          /\ FrameOK(Top(t), Append(past, v), owed', Members(libs'))
      BY <1>1, <3>1, GrownTop
    <3> QED BY <2>1, <3>2
  <2>8. \A n \in LibNames : Pending(s[Len(s)], n) => Unversioned(n) \in Members(libs')
    BY <1>2, <1>4, <2>3
  <2>9. s[Len(s)].at # "deps"
    BY <1>1, <1>2
  <2>10. CASE a.deps
    <3> DEFINE f == [Top(t) EXCEPT !.at = "deps", !.todo = DependsOn[a.lib.name]]
               r == Append(SubSeq(s, 1, Len(s) - 1), f)
    <3>1. stack' = [stack EXCEPT ![t] = r]
      BY <1>7, <2>10 DEF AddLibrary, Become, Below
    <3>2. DependsOn[a.lib.name] \in Seq(LibNames) /\ DependsOn[a.lib.name] \in Seq(Todos)
      <4> DEFINE d == DependsOn[a.lib.name]
      <4>1. d \in Seq(LibNames)
        BY <1>3, LibrariesAssumption
      <4>2. LibNames \subseteq Todos
        BY DEF Todos
      <4> HIDE DEF d
      <4>3. Len(d) \in Nat /\ d \in [1 .. Len(d) -> Todos]
        BY <4>1, <4>2, LenProperties, ElementOfSeq
      <4>4. d \in Seq(LibNames) /\ d \in Seq(Todos)
        BY <4>1, <4>3, IsASeq
      <4> QED BY <4>4 DEF d
    <3>3. /\ f \in Frames /\ f.at = "deps" /\ f.op = "add" /\ f.arg = a
          /\ f.todo = DependsOn[a.lib.name] /\ f.since = Top(t).since
      BY <1>1, <1>2, <3>2 DEF Frames, Points
    <3> HIDE DEF f
    <3>4. s \in Seq(Frames) /\ s # <<>>
      BY <1>1, <1>2 DEF Good
    <3> HIDE DEF s
    <3>5. /\ r \in Seq(Frames) /\ Len(r) = Len(s) /\ r[Len(s)] = f
          /\ \A i \in 1 .. Len(s) - 1 : r[i] = s[i]
      BY <3>3, <3>4, BecomeShape
    <3> HIDE DEF r
    <3>6. a.lib \in owed'
      BY <2>1, <2>10
    <3>7. FrameOK(f, past', owed', Members(libs'))
      BY <2>7, <3>2, <3>3, <3>6, <1>3 DEF FrameOK
    <3>8. HasDependencies(r, Len(s), Members(libs')) /\ HasIO(r, Len(s), Members(libs'))
      BY <3>3, <3>5 DEF HasDependencies, HasIO
    <3>9. /\ Good(r, past', owed', Members(libs'))
          /\ AddsIn(s) \subseteq AddsIn(r) \cup AddsAt(s[Len(s)])
          /\ AddsAt(f) \subseteq AddsIn(r)
      <4>1. \A n \in LibNames :
              Pending(s[Len(s)], n) => Pending(f, n) \/ Unversioned(n) \in Members(libs')
        BY <2>8
      <4>2. Good(s, past', owed', Members(libs'))
        BY <2>7
      <4>3. f \in Frames
        BY <3>3
      <4> QED BY <3>4, <3>5, <3>7, <3>8, <4>1, <4>2, <4>3, GoodBecome
    <3>10. AddsAt(s[Len(s)]) = {} /\ AddsAt(f) = {a.lib}
      BY <2>9, <3>3 DEF AddsAt
    <3>11. AddsIn(stack[t]) \subseteq AddsIn(r) /\ owed' \subseteq owed \cup AddsIn(r)
      BY <2>1, <2>10, <3>9, <3>10 DEF s
    <3>12. ~Holds(r)
      BY <3>3, <3>5 DEF Holds
    <3> QED BY <1>1, <1>5, <2>1, <2>3, <2>4, <2>5, <2>6, <3>1, <3>9, <3>11, <3>12, GrowStep
  <2>11. CASE ~a.deps
    <3> DEFINE r == SubSeq(s, 1, Len(s) - 1)
    <3>1. stack' = [stack EXCEPT ![t] = r]
      BY <1>7, <2>11 DEF AddLibrary, Pop, Below
    <3>2. Good(r, past', owed', Members(libs')) /\ AddsIn(s) \subseteq AddsIn(r) /\ ~Holds(r)
      <4> HIDE DEF s
      <4> QED BY <1>1, <2>7, <2>8, <2>9, BelowTop
    <3>3. owed' \subseteq owed \cup AddsIn(r)
      BY <2>1, <2>11
    <3> HIDE DEF r
    <3> QED BY <1>1, <1>5, <2>1, <2>3, <2>4, <2>5, <2>6, <3>1, <3>2, <3>3, GrowStep
  <2> QED BY <2>10, <2>11
<1> QED BY <1>6, <1>7

(* Where a library stands among the specs. *)
LEMMA SpecsOfLibs ==
  ASSUME NEW ds \in Seq(Dirs), NEW ls \in Seq(Libs), HasCore, HasStringIO(ls)
  PROVE  \E i \in DOMAIN Specs(ds, ls) :
           Specs(ds, ls)[i].of \in Libs /\ Specs(ds, ls)[i].of.name = StringIO
<1> DEFINE S == [of : Todos, skip_hidden : BOOLEAN]
           A == <<DirSpec(None, TRUE)>>
           B == [i \in DOMAIN ls |-> DirSpec(ls[i], TRUE)]
           C == [i \in DOMAIN ds |-> DirSpec(ds[i], FALSE)]
<1>1. /\ Len(ls) \in Nat /\ DOMAIN ls = 1 .. Len(ls) /\ \A i \in 1 .. Len(ls) : ls[i] \in Libs
      /\ Len(ds) \in Nat /\ DOMAIN ds = 1 .. Len(ds) /\ \A i \in 1 .. Len(ds) : ds[i] \in Dirs
  BY LenProperties, ElementOfSeq
<1>2. A \in Seq(S) /\ Len(A) = 1
  <2>1. DirSpec(None, TRUE) \in S
    BY DEF DirSpec, Todos
  <2>2. \A T : \A x \in T : <<x>> \in Seq(T) /\ Len(<<x>>) = 1
    OBVIOUS
  <2> HIDE DEF S
  <2> QED BY <2>1, <2>2
<1>3. B \in Seq(S) /\ Len(B) = Len(ls)
  <2>1. B \in [1 .. Len(ls) -> S] /\ DOMAIN B = 1 .. Len(ls)
    BY <1>1 DEF DirSpec, Todos
  <2> HIDE DEF B, S
  <2>2. B \in Seq(S)
    BY <1>1, <2>1, IsASeq
  <2>3. DOMAIN B = 1 .. Len(B) /\ Len(B) \in Nat
    BY <2>2, LenProperties
  <2> QED BY <1>1, <2>1, <2>2, <2>3
<1>4. C \in Seq(S)
  <2>1. C \in [1 .. Len(ds) -> S]
    BY <1>1 DEF DirSpec, Todos
  <2> HIDE DEF C, S
  <2> QED BY <1>1, <2>1, IsASeq
<1>5. PICK j \in 1 .. Len(ls) : ls[j].name = StringIO
  BY <1>1 DEF HasStringIO, Members
<1>6. B[j] = DirSpec(ls[j], TRUE)
  BY <1>1
<1>7. Specs(ds, ls) = (A \o B) \o C
  BY DEF Specs
<1> HIDE DEF A, B, C, S
<1>8. A \o B \in Seq(S) /\ Len(A \o B) = 1 + Len(ls) /\ (A \o B)[1 + j] = B[j]
  <2>1. /\ A \o B \in Seq(S) /\ Len(A \o B) = Len(A) + Len(B)
        /\ \A i \in 1 .. Len(A) + Len(B) :
             (A \o B)[i] = IF i <= Len(A) THEN A[i] ELSE B[i - Len(A)]
    <3>1. A \in Seq(S) /\ B \in Seq(S)
      BY <1>2, <1>3
    <3> QED BY <3>1, ConcatProperties
  <2>2. 1 + j \in 1 .. Len(A) + Len(B) /\ ~(1 + j <= Len(A)) /\ (1 + j) - Len(A) = j
    BY <1>1, <1>2, <1>3, <1>5
  <2>3. (A \o B)[1 + j] = B[j]
    BY <2>1, <2>2
  <2>4. Len(A) + Len(B) = 1 + Len(ls)
    BY <1>2, <1>3
  <2> QED BY <2>1, <2>3, <2>4
<1>9. 1 + j \in DOMAIN ((A \o B) \o C) /\ ((A \o B) \o C)[1 + j] = B[j]
  <2> DEFINE D == A \o B
  <2>1. D \in Seq(S) /\ Len(D) = 1 + Len(ls) /\ D[1 + j] = B[j]
    BY <1>8
  <2> HIDE DEF D
  <2>2. /\ D \o C \in Seq(S) /\ Len(D \o C) = Len(D) + Len(C) /\ Len(C) \in Nat
        /\ \A i \in 1 .. Len(D) + Len(C) :
             (D \o C)[i] = IF i <= Len(D) THEN D[i] ELSE C[i - Len(D)]
    <3>0. D \in Seq(S) /\ C \in Seq(S)
      BY <1>4, <2>1
    <3>1. /\ D \o C \in Seq(S) /\ Len(D \o C) = Len(D) + Len(C)
          /\ \A i \in 1 .. Len(D) + Len(C) :
               (D \o C)[i] = IF i <= Len(D) THEN D[i] ELSE C[i - Len(D)]
      BY <3>0, ConcatProperties
    <3> QED BY <1>4, <3>1, LenProperties
  <2>3. DOMAIN (D \o C) = 1 .. Len(D \o C)
    BY <2>2, LenProperties
  <2>4. 1 + j \in 1 .. Len(D) + Len(C) /\ 1 + j <= Len(D)
    BY <1>1, <1>5, <2>1, <2>2
  <2>5. 1 + j \in DOMAIN (D \o C) /\ (D \o C)[1 + j] = B[j]
    BY <2>1, <2>2, <2>3, <2>4
  <2> QED BY <2>5 DEF D
<1>10. B[j].of = ls[j] /\ ls[j] \in Libs
  BY <1>1, <1>6 DEF DirSpec
<1> QED BY <1>5, <1>7, <1>9, <1>10

(* load hands its snapshot over. *)
LEMMA LoadEndStep ==
  ASSUME IInv, NEW t \in Threads, LoadEnd(t)
  PROVE  IInv'
<1>1. /\ stack[t] # <<>> /\ Top(t).at = "lookup" /\ Top(t).op = "load" /\ Pop(t)
      /\ UNCHANGED <<gvl, lock, additions, owed, cutShort>>
      /\ loaded' = [specs |-> Specs(Top(t).dirs, Top(t).libs), since |-> Top(t).since]
  BY DEF LoadEnd, At, Running
<1>2. Top(t) \in Frames /\ FrameOK(Top(t), past, owed, Members(libs))
  BY <1>1, TopFacts
<1>3. past' = past
  BY <1>1 DEF additions
<1>4. PICK k \in Top(t).since .. Len(past) : past[k] = [dirs |-> Top(t).dirs, libs |-> Top(t).libs]
  BY <1>1, <1>2 DEF FrameOK
<1>5. LoadedAtOneMoment'
  BY <1>1, <1>2, <1>3, <1>4 DEF LoadedAtOneMoment, FrameOK
<1>6. LoadsHaveStringIO'
  <2>1. /\ Top(t).dirs \in Seq(Dirs) /\ Top(t).libs \in Seq(Libs)
        /\ (HasCore => HasStringIO(Top(t).libs))
    BY <1>1, <1>2 DEF FrameOK, Frames
  <2> QED BY <1>1, <2>1, SpecsOfLibs DEF LoadsHaveStringIO
<1>7. \A n \in LibNames : ~Pending(Top(t), n)
  BY <1>1 DEF Pending
<1>8. lock # t
  BY <1>1 DEF IInv, LockBelongsToLibs
<1>9. lock' \in Threads \cup {None} /\ lock' # t /\ \A u \in Threads \ {t} : lock' = u <=> lock = u
  BY <1>1, <1>8, LockKept
<1> QED BY <1>1, <1>5, <1>6, <1>7, <1>9, PopStep

-----------------------------------------------------------------------------
(* The invariant.                                                          *)

(* A loader just made. *)
LEMMA InitHolds == Init => IInv
<1>1. SUFFICES ASSUME Init PROVE IInv
  OBVIOUS
<1>2. <<>> \in Seq(Dirs) /\ <<>> \in Seq(Libs) /\ <<>> \in Seq(Frames) /\ Len(<<>>) = 0
      /\ DOMAIN <<>> = {}
  BY EmptySeq
<1>3. past \in Seq(Values) /\ past # <<>> /\ Len(past) = 1
      /\ past[1] = [dirs |-> dirs, libs |-> libs]
  <2>1. [dirs |-> <<>>, libs |-> <<>>] \in Values
    BY <1>2 DEF Values
  <2> QED BY <1>1, <2>1 DEF Init
<1>4. Typed
  BY <1>1, <1>2, <1>3 DEF Init, Typed
<1>5. StacksGood
  <2>1. ASSUME NEW t \in Threads PROVE Good(stack[t], past, owed, Members(libs))
    <3>1. stack[t] = <<>>
      BY <1>1 DEF Init
    <3>2. Good(<<>>, past, owed, Members(libs))
      BY <1>2 DEF Good
    <3> QED BY <3>1, <3>2
  <2> QED BY <2>1 DEF StacksGood
<1>6. OwedComplete /\ LibsDistinct /\ LoadedAtOneMoment /\ LoadsHaveStringIO
  BY <1>1, <1>2 DEF Init, OwedComplete, LibsDistinct, LoadedAtOneMoment, LoadsHaveStringIO
<1>7. LockBelongsToLibs
  BY <1>1, NoneAssumption DEF Init, LockBelongsToLibs
<1> QED BY <1>4, <1>5, <1>6, <1>7 DEF IInv

(* One step per method's. *)
LEMMA NextPreserves == IInv /\ [Next]_vars => IInv'
<1>1. SUFFICES ASSUME IInv, [Next]_vars PROVE IInv'
  OBVIOUS
<1>2. CASE UNCHANGED vars
  BY <1>1, <1>2 DEF vars, additions, record, IInv, Typed, StacksGood, OwedComplete, LibsDistinct,
                    LockBelongsToLibs, LoadedAtOneMoment, LoadsHaveStringIO, Top
<1>3. ASSUME NEW t \in Threads, Run(t) PROVE IInv'
  <2>1. CASE Block(t)          BY <1>1, <2>1, BlockStep
  <2>2. CASE UnknownLibrary(t) BY <1>1, <2>2, UnwindStep DEF UnknownLibrary
  <2>3. CASE AddPath(t)        BY <1>1, <2>3, AddPathStep
  <2>4. CASE AddLibrary(t)     BY <1>1, <2>4, AddLibraryStep
  <2>5. CASE AddDependency(t)  BY <1>1, <2>5, AddDependencyStep
  <2>6. CASE AddReturn(t) \/ EachDirReturn(t)   BY <1>1, <2>6, ReturnStep
  <2>7. CASE LibsLock(t)       BY <1>1, <2>7, LibsLockStep
  <2>8. CASE LibsConvert(t)    BY <1>1, <2>8, LibsConvertStep
  <2>9. CASE LibsReturn(t)     BY <1>1, <2>9, LibsReturnStep
  <2>10. CASE EachDirLock(t)   BY <1>1, <2>10, EachDirLockStep
  <2>11. CASE EachDirYield(t) \/ EachDirResume(t)   BY <1>1, <2>11, EachDirStep
  <2>12. CASE LoadLibs(t) \/ LoadStringIO(t)   BY <1>1, <2>12, LoadCallStep
  <2>13. CASE LoadLock(t)      BY <1>1, <2>13, LoadLockStep
  <2>14. CASE LoadLookup(t)    BY <1>1, <2>14, LoadLookupStep
  <2>15. CASE LoadEnd(t)       BY <1>1, <2>15, LoadEndStep
  <2> QED BY <1>3, <2>1, <2>2, <2>3, <2>4, <2>5, <2>6, <2>7, <2>8, <2>9, <2>10, <2>11,
             <2>12, <2>13, <2>14, <2>15 DEF Run
<1>4. ASSUME NEW t \in Threads, Switch(t) PROVE IInv'
  BY <1>1, <1>4, SwitchStep
<1>5. ASSUME NEW t \in Threads, Raise(t) PROVE IInv'
  BY <1>1, <1>5, UnwindStep DEF Raise
<1>6. ASSUME NEW t \in Threads, NEW f \in Requests, Request(t, f) PROVE IInv'
  BY <1>1, <1>6, RequestStep
<1> QED BY <1>1, <1>2, <1>3, <1>4, <1>5, <1>6 DEF Next

(* The invariant holds in every state of the loader. *)
THEOREM Invariance == Spec => []IInv
BY InitHolds, NextPreserves, PTL DEF Spec

-----------------------------------------------------------------------------
(* What follows from it.                                                   *)

(* Additions, stacks and history stay well formed. *)
THEOREM TypeCorrect == Spec => []TypeOK
<1>1. IInv => TypeOK
  <2>1. SUFFICES ASSUME IInv, NEW t \in Threads, NEW i \in DOMAIN stack[t]
                 PROVE  /\ stack[t][i].op \in Ops /\ stack[t][i].at \in Points
                        /\ stack[t][i].op = "add" => stack[t][i].arg.lib \in Libs
                        /\ stack[t][i].since \in 1 .. Len(past)
    BY DEF IInv, Typed, TypeOK
  <2>2. Good(stack[t], past, owed, Members(libs)) /\ stack[t] \in Seq(Frames)
    BY <2>1 DEF IInv, StacksGood, Good
  <2>3. i \in 1 .. Len(stack[t]) /\ stack[t][i] \in Frames
    BY <2>1, <2>2, LenProperties, ElementOfSeq
  <2>4. FrameOK(stack[t][i], past, owed, Members(libs))
    BY <2>2, <2>3 DEF Good
  <2> QED BY <2>3, <2>4 DEF Frames, FrameOK, Items
<1> QED BY <1>1, Invariance, PTL

(* No library is in the set twice, however adds of several threads meet. *)
THEOREM NoLibraryTwice == Spec => []LibsDistinct
<1>1. IInv => LibsDistinct
  BY DEF IInv
<1> QED BY <1>1, Invariance, PTL

(* Only a libs that builds its set has the mutex across Ruby code. *)
THEOREM LockDiscipline == Spec => []LockBelongsToLibs
<1>1. IInv => LockBelongsToLibs
  BY DEF IInv
<1> QED BY <1>1, Invariance, PTL

(* The dependencies of a library follow it, whatever depends on what. *)
THEOREM DependenciesArrive == Spec => []DependenciesFollow
<1>1. IInv => DependenciesFollow
  <2>1. SUFFICES ASSUME IInv, NEW l \in owed \ cutShort, ~Adding(l),
                        NEW n \in Members(DependsOn[l.name])
                 PROVE  [name |-> n, version |-> None] \in Members(libs)
    BY DEF DependenciesFollow
  <2>2. \A t \in Threads : l \notin AddsIn(stack[t])
    BY <2>1 DEF Adding, AddsIn
  <2>3. Complete(l, Members(libs))
    BY <2>1, <2>2 DEF IInv, OwedComplete
  <2> QED BY <2>1, <2>3 DEF Complete, Unversioned
<1> QED BY <1>1, Invariance, PTL

(* load and each_dir see additions as they were at one moment. *)
THEOREM SnapshotsAreConsistent == Spec => []SnapshotIsOneMoment
<1>1. IInv => SnapshotIsOneMoment
  <2>1. SUFFICES ASSUME IInv PROVE SnapshotIsOneMoment
    OBVIOUS
  <2>2. ASSUME NEW t \in Threads, NEW f \in Members(stack[t]), f.at \in {"next", "block", "lookup"}
        PROVE  \E k \in f.since .. Len(past) : past[k] = [dirs |-> f.dirs, libs |-> f.libs]
    <3>1. Good(stack[t], past, owed, Members(libs)) /\ stack[t] \in Seq(Frames)
      BY <2>1 DEF IInv, StacksGood, Good
    <3>2. PICK i \in 1 .. Len(stack[t]) : f = stack[t][i]
      BY <3>1, LenProperties DEF Members
    <3>3. FrameOK(f, past, owed, Members(libs))
      BY <3>1, <3>2 DEF Good
    <3> QED BY <2>2, <3>3 DEF FrameOK
  <2> QED BY <2>1, <2>2 DEF SnapshotIsOneMoment, IInv, LoadedAtOneMoment
<1> QED BY <1>1, Invariance, PTL

(* With a core, what is loaded includes stringio. *)
THEOREM StringIOIsLoaded == Spec => []LoadsHaveStringIO
<1>1. IInv => LoadsHaveStringIO
  BY DEF IInv
<1> QED BY <1>1, Invariance, PTL

=============================================================================
