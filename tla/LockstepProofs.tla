---------------------------- MODULE LockstepProofs ----------------------------
(***************************************************************************)
(* The driver records and the materializer consumes in lockstep, for all   *)
(* programs and filters.                                                   *)
(*                                                                         *)
(* What the driver records for a declaration is a function of the tree:    *)
(* the positions of the names in it, outside its nested declarations, in   *)
(* the order of the walk.  At any time of a walk this is what was visited  *)
(* already, followed by what the names still on the stack will give.  To   *)
(* say so, every element of the stack is given an owner, the declaration   *)
(* that will be current when it is visited.                                *)
(***************************************************************************)
EXTENDS PipelineProofs

-----------------------------------------------------------------------------
(* The names in a tree, outside its nested declarations, by their          *)
(* positions, and the declarations in it, both in the order of the walks.  *)

NameHere == [x \in Items |-> IF x.node.k \in NameKinds THEN <<x.at>> ELSE <<>>]
NameKids == [x \in Items |-> IF IsDecl(x.node) THEN <<>> ELSE Children(x, InsertOrder)]

NamesIn ==
  CHOOSE f : /\ Gives(f, Items, Paths)
             /\ \A x \in Items : Unfolds(Items, Paths, NameHere, NameKids, x, f)

DeclHere == [x \in Items |-> IF IsDecl(x.node) THEN <<x>> ELSE <<>>]
DeclKids == [x \in Items |-> IF IsDecl(x.node) THEN Children(x, InsertOrder) ELSE <<>>]

DeclsIn ==
  CHOOSE f : /\ Gives(f, Items, Items)
             /\ \A x \in Items : Unfolds(Items, Items, DeclHere, DeclKids, x, f)

\* The names of a declaration, the declarations of a source.
Inner(x)  == Below(NamesIn, Children(x, InsertOrder))
All(p, s) == Below(DeclsIn, TopItems(s, p[s].decls))

(* Both are what their definitions say. *)
LEMMA KidsAreRanked ==
  ASSUME NEW kids, kids \in {NameKids, DeclKids}
  PROVE  Ranked(Items, kids, ItemDepth)
<1>1. ItemDepth \in [Items -> Nat]
  BY DepthAssumption DEF ItemDepth, Items
<1>2. ASSUME NEW x \in Items PROVE kids[x] = <<>> \/ kids[x] = Children(x, InsertOrder)
  BY DEF NameKids, DeclKids
<1>3. ASSUME NEW x \in Items
      PROVE  kids[x] \in Seq(Items) /\ \A i \in DOMAIN kids[x] : ItemDepth[kids[x][i]] < ItemDepth[x]
  <2>1. <<>> \in Seq(Items) /\ DOMAIN <<>> = {}
    OBVIOUS
  <2> QED BY <1>2, <2>1, ChildrenAreRanked
<1>4. kids = [x \in Items |-> kids[x]]
  BY DEF NameKids, DeclKids
<1>5. kids \in [Items -> Seq(Items)]
  BY <1>3, <1>4
<1> QED BY <1>1, <1>3, <1>5 DEF Ranked

LEMMA NamesInIs ==
  /\ Gives(NamesIn, Items, Paths)
  /\ \A x \in Items : NamesIn[x] = Both(NameHere[x], Below(NamesIn, NameKids[x]))
<1>1. Ranked(Items, NameKids, ItemDepth)
  BY KidsAreRanked
<1>2. Gives(NameHere, Items, Paths)
  <2>1. ASSUME NEW x \in Items PROVE x.at \in Paths
    BY DEF Items, Paths
  <2>2. \A p \in Paths : <<p>> \in Seq(Paths)
    OBVIOUS
  <2>3. \A x \in Items : (IF x.node.k \in NameKinds THEN <<x.at>> ELSE <<>>) \in Seq(Paths)
    BY <2>1, <2>2
  <2> QED BY <2>3 DEF Gives, NameHere
<1>3. \E f : /\ Gives(f, Items, Paths)
             /\ \A x \in Items : Unfolds(Items, Paths, NameHere, NameKids, x, f)
  BY <1>1, <1>2, FoldsTree
<1>4. /\ Gives(NamesIn, Items, Paths)
      /\ \A x \in Items : Unfolds(Items, Paths, NameHere, NameKids, x, NamesIn)
  BY <1>3 DEF NamesIn
<1> QED BY <1>4 DEF Unfolds, Both

LEMMA DeclsInIs ==
  /\ Gives(DeclsIn, Items, Items)
  /\ \A x \in Items : DeclsIn[x] = Both(DeclHere[x], Below(DeclsIn, DeclKids[x]))
<1>1. Ranked(Items, DeclKids, ItemDepth)
  BY KidsAreRanked
<1>2. Gives(DeclHere, Items, Items)
  BY DEF Gives, DeclHere
<1>3. \E f : /\ Gives(f, Items, Items)
             /\ \A x \in Items : Unfolds(Items, Items, DeclHere, DeclKids, x, f)
  BY <1>1, <1>2, FoldsTree
<1>4. /\ Gives(DeclsIn, Items, Items)
      /\ \A x \in Items : Unfolds(Items, Items, DeclHere, DeclKids, x, DeclsIn)
  BY <1>3 DEF DeclsIn
<1> QED BY <1>4 DEF Unfolds, Both

(* Nothing next to something. *)
LEMMA BothOfNone ==
  ASSUME NEW T, NEW s \in Seq(T)
  PROVE  Both(<<>>, s) = s /\ Both(s, <<>>) = s
BY DEF Both

LEMMA BothIsSeq ==
  ASSUME NEW T, NEW s \in Seq(T), NEW t \in Seq(T)
  PROVE  Both(s, t) \in Seq(T)
BY DEF Both

LEMMA BothAssociates ==
  ASSUME NEW T, NEW x \in Seq(T), NEW y \in Seq(T), NEW z \in Seq(T)
  PROVE  Both(Both(x, y), z) = Both(x, Both(y, z))
BY DEF Both

(* Names and declarations are not the same nodes. *)
LEMMA NamesAreNotDecls == \A x \in Items : x.node.k \in NameKinds => ~IsDecl(x.node)
BY DEF NameKinds, DeclKinds, IsDecl

LEMMA InnerIsPaths ==
  ASSUME NEW x \in Items
  PROVE  Inner(x) \in Seq(Paths)
BY ChildrenAreRanked, NamesInIs, BelowIsSeq DEF Inner

LEMMA NameHereIs ==
  ASSUME NEW x \in Items
  PROVE  /\ NameHere[x] \in Seq(Paths)
         /\ x.node.k \in NameKinds => NameHere[x] = <<x.at>>
         /\ x.node.k \notin NameKinds => NameHere[x] = <<>>
<1>1. <<x.at>> \in Seq(Paths) /\ <<>> \in Seq(Paths)
  BY DEF Items, Paths
<1> QED BY <1>1 DEF NameHere

LEMMA NamesOfItem ==
  ASSUME NEW x \in Items
  PROVE  /\ ~IsDecl(x.node) => NamesIn[x] = Both(NameHere[x], Inner(x))
         /\ IsDecl(x.node) => NamesIn[x] = <<>>
<1>1. NamesIn[x] = Both(NameHere[x], Below(NamesIn, NameKids[x]))
  BY NamesInIs
<1>2. CASE IsDecl(x.node)
  <2>1. NameHere[x] = <<>> /\ NameKids[x] = <<>>
    BY <1>2, NamesAreNotDecls, NameHereIs DEF NameKids
  <2>2. Below(NamesIn, <<>>) = <<>> /\ Both(<<>>, <<>>) = <<>>
    BY BelowOfNone DEF Both
  <2> QED BY <1>1, <1>2, <2>1, <2>2
<1>3. CASE ~IsDecl(x.node)
  BY <1>1, <1>3 DEF NameKids, Inner
<1> QED BY <1>2, <1>3

LEMMA DeclsOfItem ==
  ASSUME NEW x \in Items
  PROVE  /\ ~IsDecl(x.node) => DeclsIn[x] = <<>>
         /\ IsDecl(x.node) => DeclsIn[x] = Both(<<x>>, Below(DeclsIn, Children(x, InsertOrder)))
<1>1. DeclsIn[x] = Both(DeclHere[x], Below(DeclsIn, DeclKids[x]))
  BY DeclsInIs
<1>2. CASE ~IsDecl(x.node)
  <2>1. DeclHere[x] = <<>> /\ DeclKids[x] = <<>>
    BY <1>2 DEF DeclHere, DeclKids
  <2>2. Below(DeclsIn, <<>>) = <<>> /\ Both(<<>>, <<>>) = <<>>
    BY BelowOfNone DEF Both
  <2> QED BY <1>1, <1>2, <2>1, <2>2
<1>3. CASE IsDecl(x.node)
  BY <1>1, <1>3 DEF DeclHere, DeclKids
<1> QED BY <1>2, <1>3

(* Items that are not declarations have none in them. *)
LEMMA DeclsOfOthers ==
  ASSUME NEW s \in Seq(Items), \A i \in DOMAIN s : ~IsDecl(s[i].node)
  PROVE  Below(DeclsIn, s) = <<>>
<1>1. ASSUME NEW i \in DOMAIN s PROVE DeclsIn[s[i]] = <<>>
  <2>1. s[i] \in Items
    OBVIOUS
  <2> QED BY <2>1, DeclsOfItem
<1> QED BY <1>1, BelowIsNothing

LEMMA DeclsOfChildren ==
  ASSUME NEW x \in Items, x.node.k \notin Scopes
  PROVE  Below(DeclsIn, Children(x, InsertOrder)) = <<>>
<1>1. Children(x, InsertOrder) \in Seq(KinOf(x)) /\ Children(x, InsertOrder) \in Seq(Items)
  BY ChildrenAreKin, ChildrenAreRanked, InsertOrderIsOrder
<1>2. \A y \in KinOf(x) : ~IsDecl(y.node)
  BY DEF KinOf, Kin
<1>3. \A i \in DOMAIN Children(x, InsertOrder) : ~IsDecl(Children(x, InsertOrder)[i].node)
  BY <1>1, <1>2
<1> QED BY <1>1, <1>3, DeclsOfOthers

(* In a class or module they are in the members. *)
LEMMA DeclsOfMembers ==
  ASSUME NEW x \in Items, x.node.k \in Scopes
  PROVE  Below(DeclsIn, Children(x, InsertOrder)) = Below(DeclsIn, Under(x, "members"))
<1> DEFINE M == Under(x, "members")
           f == IF x.node.k = "class" THEN "super" ELSE "selfs"
<1>1. {"params", f, "members"} \subseteq Fields[x.node.k] /\ f # "members"
  BY DEF Fields, Scopes
<1>2. InsertOrder[x.node.k] = <<"params", f, "members">>
  <2>1. x.node.k \in DOMAIN InsertDeclOrder /\ InsertDeclOrder[x.node.k] = <<"params", f, "members">>
    BY DEF InsertDeclOrder, Scopes
  <2> QED BY <2>1, InsertOrderParts
<1> HIDE DEF f
<1>3. Children(x, InsertOrder) = FlattenSeq(<<Under(x, "params"), Under(x, f), M>>)
  <2> DEFINE fs == <<"params", f, "members">>
  <2>1. [i \in DOMAIN fs |-> Under(x, fs[i])] = <<Under(x, "params"), Under(x, f), M>>
    OBVIOUS
  <2> QED BY <1>2, <2>1 DEF Children
<1>4. M \in Seq(Items) /\ Under(x, "params") \in Seq(Items) /\ Under(x, f) \in Seq(Items)
  BY <1>1, UnderIsItems
<1>5. /\ \A i \in DOMAIN Under(x, "params") : ~IsDecl(Under(x, "params")[i].node)
      /\ \A i \in DOMAIN Under(x, f) : ~IsDecl(Under(x, f)[i].node)
  BY <1>1, UnderIsKin
<1>6. Below(DeclsIn, Under(x, "params")) = <<>> /\ Below(DeclsIn, Under(x, f)) = <<>>
  BY <1>4, <1>5, DeclsOfOthers
<1> HIDE DEF M
<1> DEFINE p == Under(x, "params")
           q == Under(x, f)
<1> HIDE DEF p, q
<1>7. FlattenSeq(<<p, q, M>>) = Both(p, Both(q, M))
  <2>1. p \in Seq(Items) /\ q \in Seq(Items) /\ M \in Seq(Items)
    BY <1>4 DEF p, q
  <2> QED BY <2>1, FlattenOfThree
<1>8. Below(DeclsIn, Both(p, Both(q, M))) = Below(DeclsIn, M)
  <2>1. p \in Seq(Items) /\ q \in Seq(Items) /\ M \in Seq(Items) /\ Both(q, M) \in Seq(Items)
    BY <1>4, BothIsSeq DEF p, q
  <2>2. Below(DeclsIn, Both(p, Both(q, M))) = Both(Below(DeclsIn, p), Below(DeclsIn, Both(q, M)))
    BY <2>1, DeclsInIs, BelowOfBoth
  <2>3. Below(DeclsIn, Both(q, M)) = Both(Below(DeclsIn, q), Below(DeclsIn, M))
    BY <2>1, DeclsInIs, BelowOfBoth
  <2>4. Below(DeclsIn, M) \in Seq(Items)
    BY <2>1, DeclsInIs, BelowIsSeq
  <2> QED BY <1>6, <2>2, <2>3, <2>4, BothOfNone DEF p, q
<1> QED BY <1>3, <1>7, <1>8 DEF p, q, M

(* What is counted in place of a declaration. *)
CountedKin(x) == [count : {y \in KinOf(x) : IsDecl(y.node)}]

DeclsCounted == [w \in [count : Items] |-> DeclsIn[w.count]]

LEMMA CountedBelowIsKin ==
  ASSUME NEW x \in Items
  PROVE  CountedBelow(x) \in Seq(CountedKin(x))
<1> DEFINE members == IF x.node.k \in Scopes THEN Under(x, "members") ELSE <<>>
           C == CountedKin(x)
           one(m) == IF IsDecl(m.node) THEN <<Counted(m)>> ELSE <<>>
           ss == [i \in DOMAIN members |-> one(members[i])]
<1>1. members \in Seq(KinOf(x))
  <2>1. x.node.k \in Scopes => "members" \in Fields[x.node.k]
    BY DEF Fields, Scopes
  <2> QED BY <2>1, UnderIsKin
<1> HIDE DEF members
<1>2. ASSUME NEW m \in KinOf(x) PROVE one(m) \in Seq(C)
  <2>1. IsDecl(m.node) => Counted(m) \in C
    BY DEF Counted, CountedKin
  <2> HIDE DEF C
  <2> QED BY <2>1
<1> HIDE DEF C, one
<1>3. ss \in Seq(Seq(C))
  <2>1. /\ DOMAIN members = 1 .. Len(members) /\ Len(members) \in Nat
        /\ \A i \in DOMAIN members : members[i] \in KinOf(x)
    BY <1>1
  <2> QED BY <1>2, <2>1
<1> HIDE DEF ss
<1>4. FlattenSeq(ss) \in Seq(C)
  BY <1>3, FlattenIsSeq
<1> QED BY <1>4 DEF CountedBelow, ss, members, one, C

LEMMA DeclsOfCounted ==
  ASSUME NEW x \in Items
  PROVE  Below(DeclsCounted, CountedBelow(x)) = Below(DeclsIn, Children(x, InsertOrder))
<1>1. CASE x.node.k \notin Scopes
  <2>1. CountedBelow(x) = <<>>
    <3> DEFINE ss == [i \in DOMAIN <<>> |-> IF IsDecl(<<>>[i].node) THEN <<Counted(<<>>[i])>> ELSE <<>>]
    <3>1. ss = <<>>
      OBVIOUS
    <3>2. CountedBelow(x) = FlattenSeq(ss)
      BY <1>1 DEF CountedBelow
    <3> QED BY <3>1, <3>2, FlattenOfNone
  <2> QED BY <1>1, <2>1, BelowOfNone, DeclsOfChildren
<1>2. CASE x.node.k \in Scopes
  <2> DEFINE members == Under(x, "members")
             C == [count : Items]
             one(m) == IF IsDecl(m.node) THEN <<Counted(m)>> ELSE <<>>
             ss == [i \in DOMAIN members |-> one(members[i])]
  <2>1. members \in Seq(Items)
    BY <1>2, MembersAreItems
  <2>2. CountedBelow(x) = FlattenSeq(ss)
    BY <1>2 DEF CountedBelow
  <2> HIDE DEF members
  <2>3. Gives(DeclsCounted, C, Items)
    BY DeclsInIs DEF DeclsCounted, Gives
  <2>4. ASSUME NEW m \in Items
        PROVE  one(m) \in Seq(C) /\ Below(DeclsCounted, one(m)) = DeclsIn[m]
    <3>1. CASE IsDecl(m.node)
      <4>1. Counted(m) \in C /\ Counted(m).count = m
        BY DEF Counted
      <4>2. DeclsCounted[Counted(m)] = DeclsIn[m]
        BY <4>1 DEF DeclsCounted
      <4> HIDE DEF C
      <4>3. Below(DeclsCounted, <<Counted(m)>>) = DeclsCounted[Counted(m)]
        BY <2>3, <4>1, BelowOfOne
      <4> QED BY <3>1, <4>1, <4>2, <4>3
    <3>2. CASE ~IsDecl(m.node)
      <4>1. one(m) = <<>> /\ <<>> \in Seq(C)
        BY <3>2
      <4> HIDE DEF one, C
      <4> QED BY <3>2, <4>1, BelowOfNone, DeclsOfItem
    <3> QED BY <3>1, <3>2
  <2> HIDE DEF one, C
  <2>5. ss \in Seq(Seq(C)) /\ DOMAIN ss = DOMAIN members
    <3>1. /\ DOMAIN members = 1 .. Len(members) /\ Len(members) \in Nat
          /\ \A i \in DOMAIN members : members[i] \in Items
      BY <2>1
    <3> QED BY <2>4, <3>1
  <2>6. ASSUME NEW i \in DOMAIN members PROVE Below(DeclsCounted, ss[i]) = DeclsIn[members[i]]
    BY <2>1, <2>4
  <2> HIDE DEF ss
  <2>7. Below(DeclsCounted, FlattenSeq(ss)) = FlattenSeq([i \in DOMAIN ss |-> Below(DeclsCounted, ss[i])])
    BY <2>3, <2>5, BelowOfFlatten
  <2>8. [i \in DOMAIN ss |-> Below(DeclsCounted, ss[i])] = [i \in DOMAIN members |-> DeclsIn[members[i]]]
    BY <2>5, <2>6
  <2>9. Below(DeclsCounted, FlattenSeq(ss)) = Below(DeclsIn, members)
    BY <2>7, <2>8 DEF Below
  <2> QED BY <1>2, <2>2, <2>9, DeclsOfMembers DEF members
<1> QED BY <1>1, <1>2

-----------------------------------------------------------------------------
(* The stack of a walk, with owners.                                       *)

Owners == (Nat \X Nat) \cup {None}

\* An element is an item that will be walked, one whose declarations will be
\* counted, or the end of a declaration.  Its owner is the declaration that
\* is current when it is reached, the next one that which is current then.
Cells == [k : {"walk", "count", "leave"}, it : Items, own : Owners, next : Owners]

Walked(x, o)   == [k |-> "walk", it |-> x, own |-> o, next |-> o]
Counting(x, o) == [k |-> "count", it |-> x, own |-> o, next |-> o]
Left(x, o, n)  == [k |-> "leave", it |-> x, own |-> o, next |-> n]

WalkOver(s, o)  == [i \in DOMAIN s |-> Walked(s[i], o)]
CountOver(s, o) == [i \in DOMAIN s |-> Counting(s[i].count, o)]

\* What is still to come on a stack: names with owner r, declarations.
NamesOwned(r) == [e \in Cells |-> IF e.k = "walk" /\ e.own = r THEN NamesIn[e.it] ELSE <<>>]
DeclsHeld     == [e \in Cells |-> IF e.k = "leave" THEN <<>> ELSE DeclsIn[e.it]]

Pending(z, r) == Below(NamesOwned(r), z)
Ahead(z)      == Below(DeclsHeld, z)

LEMMA NamesOwnedGives ==
  ASSUME NEW r
  PROVE  Gives(NamesOwned(r), Cells, Paths)
<1>1. \A e \in Cells : (IF e.k = "walk" /\ e.own = r THEN NamesIn[e.it] ELSE <<>>) \in Seq(Paths)
  <2>1. \A e \in Cells : e.it \in Items
    BY DEF Cells
  <2> QED BY <2>1, NamesInIs DEF Gives
<1> QED BY <1>1 DEF Gives, NamesOwned

LEMMA DeclsHeldGives == Gives(DeclsHeld, Cells, Items)
<1>1. \A e \in Cells : (IF e.k = "leave" THEN <<>> ELSE DeclsIn[e.it]) \in Seq(Items)
  <2>1. \A e \in Cells : e.it \in Items
    BY DEF Cells
  <2> QED BY <2>1, DeclsInIs DEF Gives
<1> QED BY <1>1 DEF Gives, DeclsHeld

LEMMA PendingIsPaths ==
  ASSUME NEW z \in Seq(Cells), NEW r
  PROVE  Pending(z, r) \in Seq(Paths)
BY NamesOwnedGives, BelowIsSeq DEF Pending

LEMMA AheadIsItems ==
  ASSUME NEW z \in Seq(Cells)
  PROVE  Ahead(z) \in Seq(Items)
BY DeclsHeldGives, BelowIsSeq DEF Ahead

LEMMA PendingOfBoth ==
  ASSUME NEW y \in Seq(Cells), NEW z \in Seq(Cells), NEW r
  PROVE  Pending(Both(y, z), r) = Both(Pending(y, r), Pending(z, r))
BY NamesOwnedGives, BelowOfBoth DEF Pending

LEMMA AheadOfBoth ==
  ASSUME NEW y \in Seq(Cells), NEW z \in Seq(Cells)
  PROVE  Ahead(Both(y, z)) = Both(Ahead(y), Ahead(z))
BY DeclsHeldGives, BelowOfBoth DEF Ahead

(* One cell and the others. *)
LEMMA PendingOfFirst ==
  ASSUME NEW z \in Seq(Cells), z # <<>>, NEW r
  PROVE  Pending(z, r) = Both(IF Head(z).k = "walk" /\ Head(z).own = r THEN NamesIn[Head(z).it] ELSE <<>>,
                              Pending(Tail(z), r))
<1>1. Head(z) \in Cells
  OBVIOUS
<1>2. NamesOwned(r)[Head(z)] = IF Head(z).k = "walk" /\ Head(z).own = r THEN NamesIn[Head(z).it] ELSE <<>>
  BY <1>1 DEF NamesOwned
<1>3. Below(NamesOwned(r), z) = Both(NamesOwned(r)[Head(z)], Below(NamesOwned(r), Tail(z)))
  BY NamesOwnedGives, BelowOfFirst
<1> QED BY <1>2, <1>3 DEF Pending

LEMMA AheadOfFirst ==
  ASSUME NEW z \in Seq(Cells), z # <<>>
  PROVE  Ahead(z) = Both(IF Head(z).k = "leave" THEN <<>> ELSE DeclsIn[Head(z).it], Ahead(Tail(z)))
<1>1. Head(z) \in Cells
  OBVIOUS
<1>2. DeclsHeld[Head(z)] = IF Head(z).k = "leave" THEN <<>> ELSE DeclsIn[Head(z).it]
  BY <1>1 DEF DeclsHeld
<1>3. Below(DeclsHeld, z) = Both(DeclsHeld[Head(z)], Below(DeclsHeld, Tail(z)))
  BY DeclsHeldGives, BelowOfFirst
<1> QED BY <1>2, <1>3 DEF Ahead

(* Items about to be walked, items about to be counted. *)
LEMMA WalkOverIs ==
  ASSUME NEW s \in Seq(Items), NEW o \in Owners
  PROVE  /\ WalkOver(s, o) \in Seq(Cells)
         /\ Ahead(WalkOver(s, o)) = Below(DeclsIn, s)
         /\ Pending(WalkOver(s, o), o) = Below(NamesIn, s)
         /\ \A r : r # o => Pending(WalkOver(s, o), r) = <<>>
<1> DEFINE z == WalkOver(s, o)
<1>1. DOMAIN z = DOMAIN s /\ \A i \in DOMAIN s : z[i] = Walked(s[i], o)
  BY DEF WalkOver
<1>2. \A x \in Items : /\ Walked(x, o) \in Cells /\ Walked(x, o).k = "walk"
                       /\ Walked(x, o).it = x /\ Walked(x, o).own = o
  BY DEF Walked, Cells
<1>3. z \in Seq(Cells)
  BY <1>2 DEF WalkOver
<1>4. \A i \in DOMAIN s : s[i] \in Items
  OBVIOUS
<1> HIDE DEF z
<1>5. \A i \in DOMAIN z : DeclsHeld[z[i]] = DeclsIn[s[i]]
  BY <1>1, <1>2, <1>4 DEF DeclsHeld
<1>6. \A i \in DOMAIN z : NamesOwned(o)[z[i]] = NamesIn[s[i]]
  BY <1>1, <1>2, <1>4 DEF NamesOwned
<1>7. ASSUME NEW r, r # o PROVE \A i \in DOMAIN z : NamesOwned(r)[z[i]] = <<>>
  BY <1>1, <1>2, <1>4, <1>7 DEF NamesOwned
<1>8. Ahead(z) = Below(DeclsIn, s)
  BY <1>1, <1>5, BelowIsSame DEF Ahead
<1>9. Pending(z, o) = Below(NamesIn, s)
  BY <1>1, <1>6, BelowIsSame DEF Pending
<1>10. \A r : r # o => Pending(z, r) = <<>>
  BY <1>3, <1>7, BelowIsNothing DEF Pending
<1> QED BY <1>3, <1>8, <1>9, <1>10 DEF z

LEMMA CountOverIs ==
  ASSUME NEW s \in Seq([count : Items]), NEW o \in Owners
  PROVE  /\ CountOver(s, o) \in Seq(Cells)
         /\ Ahead(CountOver(s, o)) = Below(DeclsCounted, s)
         /\ \A r : Pending(CountOver(s, o), r) = <<>>
<1> DEFINE z == CountOver(s, o)
<1>1. DOMAIN z = DOMAIN s /\ \A i \in DOMAIN s : z[i] = Counting(s[i].count, o)
  BY DEF CountOver
<1>2. \A x \in Items : /\ Counting(x, o) \in Cells /\ Counting(x, o).k = "count"
                       /\ Counting(x, o).it = x
  BY DEF Counting, Cells
<1>4. ASSUME NEW i \in DOMAIN s
      PROVE  s[i].count \in Items /\ DeclsCounted[s[i]] = DeclsIn[s[i].count]
  <2> DEFINE C == [count : Items]
  <2>1. s \in Seq(C)
    OBVIOUS
  <2> HIDE DEF C
  <2>2. s[i] \in C
    BY <2>1
  <2> QED BY <2>2 DEF DeclsCounted, C
<1>3. z \in Seq(Cells)
  BY <1>2, <1>4 DEF CountOver
<1> HIDE DEF z
<1>5. \A i \in DOMAIN z : DeclsHeld[z[i]] = DeclsCounted[s[i]]
  BY <1>1, <1>2, <1>4 DEF DeclsHeld
<1>7. ASSUME NEW r PROVE \A i \in DOMAIN z : NamesOwned(r)[z[i]] = <<>>
  BY <1>1, <1>2, <1>4, <1>7 DEF NamesOwned
<1>8. Ahead(z) = Below(DeclsCounted, s)
  BY <1>1, <1>5, BelowIsSame DEF Ahead
<1>10. \A r : Pending(z, r) = <<>>
  BY <1>3, <1>7, BelowIsNothing DEF Pending
<1> QED BY <1>3, <1>8, <1>10 DEF z

-----------------------------------------------------------------------------
(* Steps of a walk.                                                        *)

\* Owners follow each other, from L on; at the end there is none.
Chain(z, L) ==
  IF z = <<>> THEN L = None
  ELSE /\ z[1].own = L /\ z[Len(z)].next = None
       /\ \A i \in 1 .. Len(z) - 1 : z[i + 1].own = z[i].next

LEMMA ChainRest ==
  ASSUME NEW z \in Seq(Cells), NEW L, z # <<>>, Chain(z, L)
  PROVE  Head(z).own = L /\ Chain(Tail(z), Head(z).next)
<1> DEFINE t == Tail(z)
<1>1. /\ t \in Seq(Cells) /\ Len(t) = Len(z) - 1 /\ Len(z) \in Nat \ {0} /\ Head(z) = z[1]
      /\ \A i \in 1 .. Len(t) : t[i] = z[i + 1]
  OBVIOUS
<1>2. /\ z[1].own = L /\ z[Len(z)].next = None
      /\ \A i \in 1 .. Len(z) - 1 : z[i + 1].own = z[i].next
  BY DEF Chain
<1> HIDE DEF t
<1>3. CASE Len(z) = 1
  <2>1. t = <<>> /\ Head(z).next = None
    BY <1>1, <1>2, <1>3
  <2> QED BY <1>1, <1>2, <2>1 DEF Chain, t
<1>4. CASE Len(z) # 1
  <2>1. t # <<>> /\ t[1].own = Head(z).next /\ t[Len(t)].next = None
    BY <1>1, <1>2, <1>4
  <2>2. \A i \in 1 .. Len(t) - 1 : t[i + 1].own = t[i].next
    BY <1>1, <1>2
  <2> QED BY <1>1, <1>2, <2>1, <2>2 DEF Chain, t
<1> QED BY <1>3, <1>4

LEMMA ChainFirst ==
  ASSUME NEW e \in Cells, NEW t \in Seq(Cells), Chain(t, e.next)
  PROVE  Chain(Both(<<e>>, t), e.own)
<1> DEFINE z == Both(<<e>>, t)
<1>1. /\ z \in Seq(Cells) /\ Len(z) = Len(t) + 1 /\ z[1] = e /\ Len(t) \in Nat
      /\ \A i \in 1 .. Len(t) : z[i + 1] = t[i]
  BY DEF Both
<1> HIDE DEF z
<1>2. CASE t = <<>>
  <2>1. e.next = None /\ Len(z) = 1
    BY <1>1, <1>2 DEF Chain
  <2> QED BY <1>1, <2>1 DEF Chain, z
<1>3. CASE t # <<>>
  <2>1. /\ t[1].own = e.next /\ t[Len(t)].next = None /\ Len(t) # 0
        /\ \A i \in 1 .. Len(t) - 1 : t[i + 1].own = t[i].next
    BY <1>3 DEF Chain
  <2>2. z[Len(z)].next = None /\ z # <<>>
    BY <1>1, <2>1
  <2>3. ASSUME NEW i \in 1 .. Len(z) - 1 PROVE z[i + 1].own = z[i].next
    <3>1. CASE i = 1
      BY <1>1, <2>1, <3>1
    <3>2. CASE i # 1
      <4>1. PICK j \in 1 .. Len(t) - 1 : i = j + 1
        BY <1>1, <3>2
      <4>2. z[i] = t[j] /\ z[i + 1] = t[j + 1]
        BY <1>1, <4>1
      <4> QED BY <2>1, <4>1, <4>2
    <3> QED BY <3>1, <3>2
  <2> QED BY <1>1, <2>2, <2>3 DEF Chain, z
<1> QED BY <1>2, <1>3

LEMMA ChainOver ==
  ASSUME NEW L, NEW y \in Seq(Cells), NEW t \in Seq(Cells), Chain(t, L),
         \A i \in DOMAIN y : y[i].own = L /\ y[i].next = L
  PROVE  Chain(Both(y, t), L)
<1> DEFINE z == Both(y, t)
           n == Len(y)
<1>1. /\ z \in Seq(Cells) /\ Len(z) = n + Len(t) /\ n \in Nat /\ Len(t) \in Nat
      /\ \A i \in 1 .. n : z[i] = y[i]
      /\ \A j \in 1 .. Len(t) : z[n + j] = t[j]
  BY DEF Both
<1>2. CASE t = <<>>
  <2>1. L = None /\ z = y
    BY <1>2 DEF Chain, Both
  <2> HIDE DEF z
  <2> QED BY <2>1 DEF Chain, z
<1>3. CASE y = <<>>
  <2>1. z = t
    BY <1>3 DEF Both
  <2> QED BY <2>1
<1>4. CASE t # <<>> /\ y # <<>>
  <2> HIDE DEF z
  <2>1. /\ t[1].own = L /\ t[Len(t)].next = None /\ Len(t) # 0
        /\ \A i \in 1 .. Len(t) - 1 : t[i + 1].own = t[i].next
    BY <1>4 DEF Chain
  <2>2. \A i \in 1 .. n : z[i].own = L /\ z[i].next = L
    BY <1>1
  <2>3. z[Len(z)].next = None /\ z[1].own = L /\ z # <<>>
    BY <1>1, <1>4, <2>1, <2>2
  <2>4. ASSUME NEW i \in 1 .. Len(z) - 1 PROVE z[i + 1].own = z[i].next
    <3>1. CASE i < n
      BY <1>1, <2>2, <3>1
    <3>2. CASE i = n
      BY <1>1, <2>1, <2>2, <3>2
    <3>3. CASE i > n
      <4>1. i - n \in 1 .. Len(t) - 1
        BY <1>1, <3>3
      <4>2. PICK j \in 1 .. Len(t) - 1 : j = i - n
        BY <4>1
      <4>3. i = n + j /\ i + 1 = n + (j + 1) /\ j \in 1 .. Len(t) /\ j + 1 \in 1 .. Len(t)
        BY <1>1, <4>2
      <4> HIDE DEF n
      <4>4. z[n + j] = t[j]
        BY <1>1, <4>3
      <4>5. z[n + (j + 1)] = t[j + 1]
        BY <1>1, <4>3
      <4>6. t[j + 1].own = t[j].next
        BY <2>1
      <4> QED BY <4>3, <4>4, <4>5, <4>6
    <3> QED BY <1>1, <3>1, <3>2, <3>3
  <2> QED BY <2>3, <2>4 DEF Chain, z
<1> QED BY <1>2, <1>3, <1>4

\* The top-level declaration a position is in.
TopOf(at) == <<at[1], at[2]>>

\* Where the items of a source are.
PlacedItems(p, s) ==
  {x \in Items :
     /\ Len(x.at) >= 2 /\ x.at[1] = s /\ x.at[2] \in DOMAIN p[s].decls
     /\ Len(x.at) = 2 => IsDecl(x.node) /\ x.ctx = <<>> /\ x.node = p[s].decls[x.at[2]]}

\* o is one of the first c declarations of the source, in the same top-level
\* declaration as position at.
Around(p, s, c, at, o) ==
  o # None => \E m \in 0 .. c - 1 : o = <<s, m>> /\ TopOf(All(p, s)[m + 1].at) = TopOf(at)

\* Declarations are entered in the order of their numbers.
Rank(o) == IF o = None THEN 0 ELSE o[2] + 1

PlacedCells(p, s, c) ==
  {e \in Cells :
     /\ e.it \in PlacedItems(p, s)
     /\ Around(p, s, c, e.it.at, e.own) /\ Around(p, s, c, e.it.at, e.next)
     /\ e.k = "walk" => (e.own = None <=> Len(e.it.at) = 2)
     /\ e.k # "leave" => e.next = e.own
     /\ e.k = "leave" => e.own # None /\ Rank(e.next) < Rank(e.own)}

\* The first c of the declarations are visited already.
Tally(all, ahead, c) == \E done \in Seq(Items) : Len(done) = c /\ all = Both(done, ahead)

\* z is the stack of a walk over source s of p that has visited c
\* declarations and is in declaration L.
Walk(p, s, z, L, c) ==
  /\ p \in Programs /\ s \in DOMAIN p /\ c \in Nat
  /\ z \in Seq(PlacedCells(p, s, c))
  /\ Chain(z, L)
  /\ Tally(All(p, s), Ahead(z), c)

(* The top of a source. *)
LEMMA TopsArePlaced ==
  ASSUME NEW p \in Programs, NEW s \in DOMAIN p
  PROVE  /\ TopItems(s, p[s].decls) \in Seq(Items)
         /\ \A i \in DOMAIN TopItems(s, p[s].decls) :
              /\ TopItems(s, p[s].decls)[i] \in PlacedItems(p, s)
              /\ Len(TopItems(s, p[s].decls)[i].at) = 2
<1>1. p \in Seq(Sources) /\ \A j \in DOMAIN p[s].decls : IsDecl(p[s].decls[j])
  BY ProgramsAssumption
<1>2. p[s] \in Sources /\ s \in Nat
  BY <1>1
<1>3. p[s].decls \in Seq(Nodes)
  BY <1>2 DEF Sources
<1>4. TopItems(s, p[s].decls) \in Seq(Items)
  BY <1>2, <1>3, TopItemsAreItems
<1>5. ASSUME NEW i \in DOMAIN TopItems(s, p[s].decls)
      PROVE  /\ TopItems(s, p[s].decls)[i] \in PlacedItems(p, s)
             /\ Len(TopItems(s, p[s].decls)[i].at) = 2
  <2>1. i \in DOMAIN p[s].decls
    BY DEF TopItems
  <2>2. TopItems(s, p[s].decls)[i] = Item(p[s].decls[i], <<>>, <<s, i>>)
    BY <2>1 DEF TopItems
  <2>3. TopItems(s, p[s].decls)[i] \in Items
    BY <1>4
  <2>4. /\ Item(p[s].decls[i], <<>>, <<s, i>>).at = <<s, i>>
        /\ Item(p[s].decls[i], <<>>, <<s, i>>).ctx = <<>>
        /\ Item(p[s].decls[i], <<>>, <<s, i>>).node = p[s].decls[i]
    BY DEF Item
  <2> DEFINE x == TopItems(s, p[s].decls)[i]
             at == <<s, i>>
  <2>5. x \in Items /\ x.at = at /\ x.ctx = <<>> /\ x.node = p[s].decls[i] /\ IsDecl(x.node)
    BY <1>1, <2>1, <2>2, <2>3, <2>4
  <2>6. Len(at) = 2 /\ at[1] = s /\ at[2] = i
    OBVIOUS
  <2> HIDE DEF x, at
  <2>7. /\ Len(x.at) >= 2 /\ x.at[1] = s /\ x.at[2] \in DOMAIN p[s].decls
        /\ Len(x.at) = 2 => IsDecl(x.node) /\ x.ctx = <<>> /\ x.node = p[s].decls[x.at[2]]
    BY <2>1, <2>5, <2>6
  <2>8. x \in PlacedItems(p, s) /\ Len(x.at) = 2
    BY <2>5, <2>6, <2>7 DEF PlacedItems
  <2> QED BY <2>8 DEF x
<1> QED BY <1>4, <1>5

(* Kin are in the same place. *)
LEMMA KinArePlaced ==
  ASSUME NEW p, NEW s, NEW x \in PlacedItems(p, s), NEW y \in KinOf(x)
  PROVE  /\ y \in PlacedItems(p, s) /\ Len(y.at) # 2 /\ TopOf(y.at) = TopOf(x.at)
BY DEF PlacedItems, KinOf, Kin, TopOf, Items

LEMMA AroundKin ==
  ASSUME NEW p, NEW s, NEW c, NEW x, NEW y, NEW o, TopOf(y.at) = TopOf(x.at), Around(p, s, c, x.at, o)
  PROVE  Around(p, s, c, y.at, o)
BY DEF Around

LEMMA AroundGrows ==
  ASSUME NEW p, NEW s, NEW c \in Nat, NEW at, NEW o, Around(p, s, c, at, o)
  PROVE  Around(p, s, c + 1, at, o)
BY DEF Around

LEMMA PlacedGrows ==
  ASSUME NEW p, NEW s, NEW c \in Nat
  PROVE  PlacedCells(p, s, c) \subseteq PlacedCells(p, s, c + 1)
BY AroundGrows DEF PlacedCells

LEMMA PlacedAreCells ==
  ASSUME NEW p, NEW s, NEW c, NEW z \in Seq(PlacedCells(p, s, c))
  PROVE  z \in Seq(Cells)
<1>1. PlacedCells(p, s, c) \subseteq Cells
  BY DEF PlacedCells
<1> QED BY <1>1, SeqMonotonic

(* The next declaration. *)
LEMMA TallyNext ==
  ASSUME NEW all, NEW c \in Nat, NEW x \in Items, NEW r \in Seq(Items),
         Tally(all, Both(<<x>>, r), c)
  PROVE  all[c + 1] = x /\ Tally(all, r, c + 1)
<1>1. PICK done \in Seq(Items) : Len(done) = c /\ all = Both(done, Both(<<x>>, r))
  BY DEF Tally
<1>2. all[c + 1] = x
  BY <1>1 DEF Both
<1>3. <<x>> \in Seq(Items) /\ Both(done, <<x>>) \in Seq(Items) /\ Len(Both(done, <<x>>)) = c + 1
  BY <1>1 DEF Both
<1>4. all = Both(Both(done, <<x>>), r)
  <2> DEFINE o == <<x>>
  <2>1. o \in Seq(Items)
    OBVIOUS
  <2> HIDE DEF o
  <2>2. Both(Both(done, o), r) = Both(done, Both(o, r))
    BY <2>1, BothAssociates
  <2> QED BY <1>1, <2>2 DEF o
<1> QED BY <1>2, <1>3, <1>4 DEF Tally

LEMMA WalkHead ==
  ASSUME NEW p, NEW s, NEW z, NEW L, NEW c, Walk(p, s, z, L, c), z # <<>>
  PROVE  /\ z \in Seq(Cells) /\ Tail(z) \in Seq(Cells) /\ Head(z) \in Cells
         /\ Head(z) \in PlacedCells(p, s, c) /\ Tail(z) \in Seq(PlacedCells(p, s, c))
         /\ Head(z).own = L /\ Head(z).it \in PlacedItems(p, s) /\ Head(z).it \in Items
         /\ Chain(Tail(z), Head(z).next)
<1>1. z \in Seq(PlacedCells(p, s, c)) /\ Chain(z, L)
  BY DEF Walk
<1>2. Head(z) \in PlacedCells(p, s, c) /\ Tail(z) \in Seq(PlacedCells(p, s, c))
  BY <1>1
<1>3. z \in Seq(Cells) /\ Tail(z) \in Seq(Cells)
  BY <1>1, <1>2, PlacedAreCells
<1>4. Head(z).own = L /\ Chain(Tail(z), Head(z).next)
  BY <1>1, <1>3, ChainRest
<1> QED BY <1>2, <1>3, <1>4 DEF PlacedCells, PlacedItems

(* A source is entered. *)
LEMMA WalkEnter ==
  ASSUME NEW p \in Programs, NEW s \in DOMAIN p
  PROVE  Walk(p, s, WalkOver(TopItems(s, p[s].decls), None), None, 0)
<1> DEFINE t == TopItems(s, p[s].decls)
           z == WalkOver(t, None)
<1>1. t \in Seq(Items) /\ \A i \in DOMAIN t : t[i] \in PlacedItems(p, s) /\ Len(t[i].at) = 2
  BY TopsArePlaced
<1> HIDE DEF t
<1>2. z \in Seq(Cells) /\ Ahead(z) = Below(DeclsIn, t)
  BY <1>1, WalkOverIs DEF Owners
<1>3. DOMAIN z = DOMAIN t /\ \A i \in DOMAIN t : z[i] = Walked(t[i], None)
  BY DEF WalkOver
<1> HIDE DEF z
<1>4. \A i \in DOMAIN z : z[i] \in PlacedCells(p, s, 0)
  BY <1>1, <1>2, <1>3 DEF PlacedCells, Walked, Around
<1>5. z \in Seq(PlacedCells(p, s, 0))
  BY <1>2, <1>4
<1>6. Chain(z, None)
  <2>1. \A i \in DOMAIN z : z[i].own = None /\ z[i].next = None
    BY <1>3 DEF Walked
  <2> QED BY <1>2, <2>1 DEF Chain
<1>7. Tally(All(p, s), Ahead(z), 0)
  <2>1. <<>> \in Seq(Items) /\ Len(<<>>) = 0
    OBVIOUS
  <2>2. Ahead(z) \in Seq(Items)
    BY <1>2, AheadIsItems
  <2>3. All(p, s) = Both(<<>>, Ahead(z))
    BY <1>2, <2>2, BothOfNone DEF All, t
  <2> QED BY <2>1, <2>3 DEF Tally
<1> QED BY <1>5, <1>6, <1>7 DEF Walk, z, t

(* The stack after each step, with owners. *)
Down(z) == Both(WalkOver(Children(Head(z).it, InsertOrder), Head(z).own), Tail(z))

Into(z, s, c) ==
  Both(WalkOver(Children(Head(z).it, InsertOrder), <<s, c>>),
       Both(<<Left(Head(z).it, <<s, c>>, Head(z).own)>>, Tail(z)))

Past(z) == Both(<<Counting(Head(z).it, Head(z).own)>>, Tail(z))

Over(z) == Both(CountOver(CountedBelow(Head(z).it), Head(z).own), Tail(z))

(* The children of an item on the stack, when o is around it. *)
LEMMA ChildrenArePlaced ==
  ASSUME NEW p, NEW s, NEW c \in Nat, NEW x \in PlacedItems(p, s), NEW o \in Owners, o # None,
         Around(p, s, c, x.at, o)
  PROVE  WalkOver(Children(x, InsertOrder), o) \in Seq(PlacedCells(p, s, c))
<1> DEFINE t == Children(x, InsertOrder)
           z == WalkOver(t, o)
<1>1. x \in Items
  BY DEF PlacedItems
<1>2. t \in Seq(KinOf(x)) /\ t \in Seq(Items)
  BY <1>1, ChildrenAreKin, ChildrenAreItems, InsertOrderIsOrder
<1> HIDE DEF t
<1>3. z \in Seq(Cells)
  BY <1>2, WalkOverIs
<1>4. ASSUME NEW y \in KinOf(x) PROVE Walked(y, o) \in PlacedCells(p, s, c)
  <2>1. y \in PlacedItems(p, s) /\ Len(y.at) # 2 /\ TopOf(y.at) = TopOf(x.at) /\ y \in Items
    BY KinArePlaced DEF PlacedItems
  <2>2. Around(p, s, c, y.at, o)
    BY <2>1, AroundKin
  <2> QED BY <2>1, <2>2 DEF PlacedCells, Cells, Walked
<1>5. \A i \in DOMAIN z : z[i] \in PlacedCells(p, s, c)
  <2>1. \A i \in DOMAIN t : t[i] \in KinOf(x)
    BY <1>2
  <2> QED BY <1>4, <2>1 DEF WalkOver
<1> HIDE DEF z
<1>6. z \in Seq(PlacedCells(p, s, c))
  BY <1>3, <1>5
<1> QED BY <1>6 DEF z, t

(* A node is taken apart. *)
LEMMA WalkDown ==
  ASSUME NEW p, NEW s, NEW z, NEW L, NEW c, Walk(p, s, z, L, c), z # <<>>,
         Head(z).k = "walk", ~IsDecl(Head(z).it.node)
  PROVE  Walk(p, s, Down(z), L, c) /\ L # None
<1> DEFINE x == Head(z).it
           o == Head(z).own
           ch == Children(x, InsertOrder)
           a == WalkOver(ch, o)
           t == Tail(z)
<1>1. /\ z \in Seq(Cells) /\ t \in Seq(Cells) /\ t \in Seq(PlacedCells(p, s, c))
      /\ o = L /\ x \in PlacedItems(p, s) /\ x \in Items /\ Chain(t, Head(z).next)
      /\ Head(z) \in PlacedCells(p, s, c) /\ c \in Nat
  BY WalkHead DEF Walk
<1>2. o # None /\ Head(z).next = o /\ Around(p, s, c, x.at, o) /\ o \in Owners
  BY <1>1 DEF PlacedCells, PlacedItems, Cells
<1> HIDE DEF x, o, t
<1>3. a \in Seq(PlacedCells(p, s, c))
  BY <1>1, <1>2, ChildrenArePlaced
<1>4. ch \in Seq(Items) /\ Below(DeclsIn, ch) = <<>>
  <2>1. x.node.k \notin Scopes
    BY DEF x, IsDecl, DeclKinds, Scopes
  <2> QED BY <1>1, <2>1, DeclsOfChildren, ChildrenAreItems, InsertOrderIsOrder
<1> HIDE DEF ch
<1>5. a \in Seq(Cells) /\ Ahead(a) = <<>>
  BY <1>2, <1>4, WalkOverIs
<1>6. Chain(Both(a, t), L)
  <2>1. \A i \in DOMAIN a : a[i].own = L /\ a[i].next = L
    BY <1>1 DEF WalkOver, Walked
  <2> HIDE DEF a
  <2>2. Chain(t, L)
    BY <1>1, <1>2
  <2> QED BY <1>1, <1>5, <2>1, <2>2, ChainOver
<1> HIDE DEF a
<1>7. Ahead(Both(a, t)) = Ahead(z)
  <2>1. Ahead(Both(a, t)) = Both(<<>>, Ahead(t)) /\ Ahead(t) \in Seq(Items)
    BY <1>1, <1>5, AheadOfBoth, AheadIsItems
  <2>2. Ahead(z) = Both(<<>>, Ahead(t))
    <3>1. DeclsIn[Head(z).it] = <<>>
      BY <1>1, DeclsOfItem DEF x
    <3>2. Ahead(z) = Both(IF Head(z).k = "leave" THEN <<>> ELSE DeclsIn[Head(z).it], Ahead(Tail(z)))
      BY <1>1, AheadOfFirst
    <3> QED BY <3>1, <3>2 DEF t
  <2> QED BY <2>1, <2>2
<1>8. Both(a, t) \in Seq(PlacedCells(p, s, c))
  BY <1>1, <1>3, BothIsSeq
<1>9. Down(z) = Both(a, t)
  BY DEF Down, a, t, ch, x, o
<1> QED BY <1>1, <1>2, <1>6, <1>7, <1>8, <1>9 DEF Walk

(* A declaration is entered. *)
LEMMA WalkInto ==
  ASSUME NEW p, NEW s, NEW z, NEW L, NEW c, Walk(p, s, z, L, c), z # <<>>,
         Head(z).k = "walk", IsDecl(Head(z).it.node)
  PROVE  Walk(p, s, Into(z, s, c), <<s, c>>, c + 1) /\ All(p, s)[c + 1] = Head(z).it
<1> DEFINE x == Head(z).it
           n == Head(z).own
           o == <<s, c>>
           ch == Children(x, InsertOrder)
           a == WalkOver(ch, o)
           e == Left(x, o, n)
           t == Tail(z)
<1>1. /\ z \in Seq(Cells) /\ t \in Seq(Cells) /\ t \in Seq(PlacedCells(p, s, c))
      /\ n = L /\ x \in PlacedItems(p, s) /\ x \in Items /\ Chain(t, Head(z).next)
      /\ Head(z) \in PlacedCells(p, s, c) /\ c \in Nat /\ c + 1 \in Nat
  BY WalkHead DEF Walk
<1>2. Head(z).next = n /\ Around(p, s, c, x.at, n) /\ n \in Owners
  BY <1>1 DEF PlacedCells, PlacedItems, Cells
<1>3. o \in Owners /\ o # None
  <2>1. s \in Nat
    <3>1. p \in Seq(Sources) /\ s \in DOMAIN p
      BY ProgramsAssumption DEF Walk
    <3> QED BY <3>1
  <2> QED BY <1>1, <2>1, NoneAssumption DEF Owners
<1>4. Tally(All(p, s), Both(<<x>>, Both(Below(DeclsIn, ch), Ahead(t))), c) /\ Ahead(t) \in Seq(Items)
        /\ Below(DeclsIn, ch) \in Seq(Items) /\ ch \in Seq(Items)
  <2>1. DeclsIn[x] = Both(<<x>>, Below(DeclsIn, ch))
    BY <1>1, DeclsOfItem
  <2>2. Ahead(z) = Both(DeclsIn[x], Ahead(t))
    BY <1>1, AheadOfFirst
  <2>3. ch \in Seq(Items)
    BY <1>1, ChildrenAreItems, InsertOrderIsOrder
  <2>4. Ahead(t) \in Seq(Items) /\ Below(DeclsIn, ch) \in Seq(Items)
    BY <1>1, <2>3, AheadIsItems, DeclsInIs, BelowIsSeq
  <2> DEFINE f == <<x>>
             b == Below(DeclsIn, ch)
             h == Ahead(t)
  <2>5. f \in Seq(Items)
    BY <1>1
  <2>7. Ahead(z) = Both(Both(f, b), h)
    BY <2>1, <2>2
  <2> HIDE DEF f, b, h, x, ch, t
  <2>6. Both(Both(f, b), h) = Both(f, Both(b, h))
    BY <2>4, <2>5, BothAssociates DEF b, h
  <2>8. Tally(All(p, s), Ahead(z), c)
    BY DEF Walk
  <2> QED BY <2>3, <2>4, <2>6, <2>7, <2>8 DEF f, b, h
<1> HIDE DEF x, n, t, ch
<1>5. All(p, s)[c + 1] = x /\ Tally(All(p, s), Both(Below(DeclsIn, ch), Ahead(t)), c + 1)
  <2>1. Both(Below(DeclsIn, ch), Ahead(t)) \in Seq(Items)
    BY <1>4, BothIsSeq
  <2> QED BY <1>1, <1>4, <2>1, TallyNext
<1>6. Around(p, s, c + 1, x.at, o)
  BY <1>1, <1>5 DEF Around
<1>7. Around(p, s, c + 1, x.at, n)
  BY <1>1, <1>2, AroundGrows
<1> HIDE DEF o
<1>8. a \in Seq(PlacedCells(p, s, c + 1))
  BY <1>1, <1>3, <1>6, ChildrenArePlaced DEF ch
<1>9. /\ e \in Cells /\ e.own = o /\ e.next = n /\ e.k = "leave" /\ e.it = x
      /\ e \in PlacedCells(p, s, c + 1)
  <2>1. Rank(n) < Rank(o)
    BY <1>1, <1>2, <1>3 DEF Around, Rank, o
  <2> QED BY <1>1, <1>2, <1>3, <1>6, <1>7, <2>1 DEF Left, Cells, PlacedCells
<1> HIDE DEF e
<1> DEFINE u == <<e>>
           r == Both(u, t)
<1>10. u \in Seq(Cells) /\ u \in Seq(PlacedCells(p, s, c + 1))
  BY <1>9
<1>11. t \in Seq(PlacedCells(p, s, c + 1))
  BY <1>1, PlacedGrows, SeqMonotonic
<1>12. a \in Seq(Cells) /\ Ahead(a) = Below(DeclsIn, ch)
  BY <1>3, <1>4, WalkOverIs
<1>13. Chain(r, o)
  BY <1>1, <1>2, <1>9, ChainFirst
<1>14. Ahead(r) = Ahead(t)
  <2>1. r # <<>> /\ Head(r) = e /\ Tail(r) = t /\ r \in Seq(Cells)
    BY <1>1, <1>9 DEF Both
  <2>2. Ahead(t) \in Seq(Items)
    BY <1>4
  <2> HIDE DEF r
  <2>3. Ahead(r) = Both(<<>>, Ahead(t))
    BY <1>9, <2>1, AheadOfFirst
  <2> QED BY <2>2, <2>3, BothOfNone
<1> HIDE DEF u
<1>15. r \in Seq(Cells) /\ r \in Seq(PlacedCells(p, s, c + 1))
  BY <1>1, <1>10, <1>11, BothIsSeq
<1>16. Chain(Both(a, r), o)
  <2>1. \A i \in DOMAIN a : a[i].own = o /\ a[i].next = o
    BY DEF WalkOver, Walked
  <2> HIDE DEF a, r
  <2> QED BY <1>12, <1>13, <1>15, <2>1, ChainOver
<1> HIDE DEF a, r
<1>17. Both(a, r) \in Seq(PlacedCells(p, s, c + 1))
  BY <1>8, <1>15, BothIsSeq
<1>18. Ahead(Both(a, r)) = Both(Below(DeclsIn, ch), Ahead(t))
  BY <1>12, <1>14, <1>15, AheadOfBoth
<1>19. Into(z, s, c) = Both(a, r)
  BY DEF Into, a, r, u, e, t, ch, x, n, o
<1>20. p \in Programs /\ s \in DOMAIN p
  BY DEF Walk
<1>21. Walk(p, s, Both(a, r), o, c + 1)
  BY <1>1, <1>5, <1>16, <1>17, <1>18, <1>20 DEF Walk
<1> QED BY <1>5, <1>19, <1>21 DEF o, x

(* A declaration is left. *)
LEMMA WalkOut ==
  ASSUME NEW p, NEW s, NEW z, NEW L, NEW c, Walk(p, s, z, L, c), z # <<>>, Head(z).k = "leave"
  PROVE  Walk(p, s, Tail(z), Head(z).next, c)
<1>1. /\ z \in Seq(Cells) /\ Tail(z) \in Seq(Cells) /\ Tail(z) \in Seq(PlacedCells(p, s, c))
      /\ Chain(Tail(z), Head(z).next)
  BY WalkHead
<1>2. Ahead(z) = Both(<<>>, Ahead(Tail(z))) /\ Ahead(Tail(z)) \in Seq(Items)
  BY <1>1, AheadOfFirst, AheadIsItems
<1>3. Ahead(z) = Ahead(Tail(z))
  BY <1>2, BothOfNone
<1> QED BY <1>1, <1>3 DEF Walk

(* A declaration is only counted. *)
LEMMA WalkPast ==
  ASSUME NEW p, NEW s, NEW z, NEW L, NEW c, Walk(p, s, z, L, c), z # <<>>, Head(z).k = "walk"
  PROVE  Walk(p, s, Past(z), L, c)
<1> DEFINE x == Head(z).it
           e == Counting(x, Head(z).own)
           t == Tail(z)
           r == Both(<<e>>, t)
<1>1. /\ z \in Seq(Cells) /\ t \in Seq(Cells) /\ t \in Seq(PlacedCells(p, s, c)) /\ Head(z) \in Cells
      /\ Head(z).own = L /\ Chain(t, Head(z).next) /\ Head(z) \in PlacedCells(p, s, c)
  BY WalkHead
<1>2. Head(z).next = Head(z).own
  BY <1>1 DEF PlacedCells
<1>3. /\ e \in Cells /\ e.own = L /\ e.next = L /\ e.k = "count" /\ e.it = x
      /\ e \in PlacedCells(p, s, c)
  BY <1>1, <1>2 DEF PlacedCells, Cells, Counting
<1> HIDE DEF e, t
<1>4. /\ r \in Seq(Cells) /\ r # <<>> /\ Head(r) = e /\ Tail(r) = t
  BY <1>1, <1>3 DEF Both
<1>5. Chain(r, L)
  BY <1>1, <1>2, <1>3, ChainFirst
<1>6. r \in Seq(PlacedCells(p, s, c))
  <2>1. <<e>> \in Seq(PlacedCells(p, s, c))
    BY <1>3
  <2> QED BY <1>1, <2>1, BothIsSeq
<1> HIDE DEF r
<1>7. Ahead(r) = Ahead(z)
  <2>1. Ahead(r) = Both(DeclsIn[x], Ahead(t))
    BY <1>3, <1>4, AheadOfFirst
  <2>2. Ahead(z) = Both(DeclsIn[x], Ahead(t))
    BY <1>1, AheadOfFirst DEF t
  <2> QED BY <2>1, <2>2
<1> QED BY <1>5, <1>6, <1>7 DEF Walk, Past, r, e, t

LEMMA WalkCount ==
  ASSUME NEW p, NEW s, NEW z, NEW L, NEW c, Walk(p, s, z, L, c), z # <<>>,
         Head(z).k = "count", IsDecl(Head(z).it.node)
  PROVE  Walk(p, s, Over(z), L, c + 1) /\ All(p, s)[c + 1] = Head(z).it
<1> DEFINE x == Head(z).it
           o == Head(z).own
           cb == CountedBelow(x)
           a == CountOver(cb, o)
           ch == Children(x, InsertOrder)
           t == Tail(z)
<1>1. /\ z \in Seq(Cells) /\ t \in Seq(Cells) /\ t \in Seq(PlacedCells(p, s, c))
      /\ o = L /\ x \in PlacedItems(p, s) /\ x \in Items /\ Chain(t, Head(z).next)
      /\ Head(z) \in PlacedCells(p, s, c) /\ c \in Nat /\ c + 1 \in Nat
  BY WalkHead DEF Walk
<1>2. Head(z).next = o /\ Around(p, s, c, x.at, o) /\ o \in Owners
  BY <1>1 DEF PlacedCells, PlacedItems, Cells
<1>3. Tally(All(p, s), Both(<<x>>, Both(Below(DeclsIn, ch), Ahead(t))), c) /\ Ahead(t) \in Seq(Items)
        /\ Below(DeclsIn, ch) \in Seq(Items) /\ ch \in Seq(Items)
  <2>1. DeclsIn[x] = Both(<<x>>, Below(DeclsIn, ch))
    BY <1>1, DeclsOfItem
  <2>2. Ahead(z) = Both(DeclsIn[x], Ahead(t))
    BY <1>1, AheadOfFirst
  <2>3. ch \in Seq(Items)
    BY <1>1, ChildrenAreItems, InsertOrderIsOrder
  <2>4. Ahead(t) \in Seq(Items) /\ Below(DeclsIn, ch) \in Seq(Items)
    BY <1>1, <2>3, AheadIsItems, DeclsInIs, BelowIsSeq
  <2> DEFINE f == <<x>>
             b == Below(DeclsIn, ch)
             h == Ahead(t)
  <2>5. f \in Seq(Items)
    BY <1>1
  <2>7. Ahead(z) = Both(Both(f, b), h)
    BY <2>1, <2>2
  <2> HIDE DEF f, b, h, x, ch, t
  <2>6. Both(Both(f, b), h) = Both(f, Both(b, h))
    BY <2>4, <2>5, BothAssociates DEF b, h
  <2>8. Tally(All(p, s), Ahead(z), c)
    BY DEF Walk
  <2> QED BY <2>3, <2>4, <2>6, <2>7, <2>8 DEF f, b, h
<1>4. cb \in Seq(CountedKin(x)) /\ cb \in Seq([count : Items])
  BY <1>1, CountedBelowIsKin, CountedBelowIsSeq
<1>5. Below(DeclsCounted, cb) = Below(DeclsIn, ch)
  BY <1>1, DeclsOfCounted
<1> HIDE DEF x, t, ch, o, cb
<1>6. All(p, s)[c + 1] = x /\ Tally(All(p, s), Both(Below(DeclsIn, ch), Ahead(t)), c + 1)
  <2>1. Both(Below(DeclsIn, ch), Ahead(t)) \in Seq(Items)
    BY <1>3, BothIsSeq
  <2> QED BY <1>1, <1>3, <2>1, TallyNext
<1>7. a \in Seq(Cells) /\ Ahead(a) = Below(DeclsIn, ch)
  BY <1>2, <1>4, <1>5, CountOverIs
<1>8. a \in Seq(PlacedCells(p, s, c + 1))
  <2>1. ASSUME NEW y \in KinOf(x) PROVE Counting(y, o) \in PlacedCells(p, s, c + 1)
    <3>1. y \in PlacedItems(p, s) /\ TopOf(y.at) = TopOf(x.at) /\ y \in Items
      BY <1>1, KinArePlaced DEF PlacedItems
    <3>2. Around(p, s, c + 1, y.at, o)
      BY <1>1, <1>2, <3>1, AroundKin, AroundGrows
    <3> QED BY <1>2, <3>1, <3>2 DEF PlacedCells, Cells, Counting
  <2>2. \A i \in DOMAIN cb : cb[i].count \in KinOf(x)
    <3> DEFINE K == CountedKin(x)
    <3>1. cb \in Seq(K)
      BY <1>4
    <3> HIDE DEF K
    <3>2. \A i \in DOMAIN cb : cb[i] \in K
      BY <3>1
    <3> QED BY <3>2 DEF CountedKin, K
  <2>3. \A i \in DOMAIN a : a[i] \in PlacedCells(p, s, c + 1)
    BY <2>1, <2>2 DEF CountOver
  <2> HIDE DEF a
  <2> QED BY <1>7, <2>3
<1>9. t \in Seq(PlacedCells(p, s, c + 1))
  BY <1>1, PlacedGrows, SeqMonotonic
<1>10. Chain(Both(a, t), L)
  <2>1. \A i \in DOMAIN a : a[i].own = L /\ a[i].next = L
    BY <1>1 DEF CountOver, Counting
  <2>2. Chain(t, L)
    BY <1>1, <1>2
  <2> HIDE DEF a
  <2> QED BY <1>1, <1>7, <2>1, <2>2, ChainOver
<1> HIDE DEF a
<1>11. Ahead(Both(a, t)) = Both(Below(DeclsIn, ch), Ahead(t))
  BY <1>1, <1>7, AheadOfBoth
<1>12. Both(a, t) \in Seq(PlacedCells(p, s, c + 1))
  BY <1>8, <1>9, BothIsSeq
<1>13. Over(z) = Both(a, t)
  BY DEF Over, a, t, cb, x, o
<1>14. p \in Programs /\ s \in DOMAIN p
  BY DEF Walk
<1>15. Walk(p, s, Both(a, t), L, c + 1)
  BY <1>1, <1>6, <1>10, <1>11, <1>12, <1>14 DEF Walk
<1> QED BY <1>6, <1>13, <1>15 DEF x

(* The owners on a stack: numbered ever lower, and lower still behind the    *)
(* end of a declaration.                                                   *)
LEMMA Descends ==
  ASSUME NEW p, NEW s, NEW c \in Nat, NEW z \in Seq(PlacedCells(p, s, c)), NEW L, Chain(z, L)
  PROVE  \A i \in DOMAIN z : /\ Rank(z[i].own) \in Nat /\ Rank(z[i].own) <= Rank(L)
                            /\ Rank(z[i].next) \in Nat /\ Rank(z[i].next) <= Rank(z[i].own)
<1>1. ASSUME NEW e \in PlacedCells(p, s, c)
      PROVE  Rank(e.own) \in Nat /\ Rank(e.next) \in Nat /\ Rank(e.next) <= Rank(e.own)
  <2>1. Rank(e.own) \in Nat
    BY DEF PlacedCells, Around, Rank
  <2>2. Rank(e.next) \in Nat
    BY DEF PlacedCells, Around, Rank
  <2>3. e.next = e.own \/ Rank(e.next) < Rank(e.own)
    BY DEF PlacedCells
  <2> QED BY <2>1, <2>2, <2>3
<1> DEFINE n == Len(z)
<1>2. n \in Nat /\ DOMAIN z = 1 .. n /\ \A i \in 1 .. n : z[i] \in PlacedCells(p, s, c)
  OBVIOUS
<1>3. n # 0 => z[1].own = L /\ \A i \in 1 .. n - 1 : z[i + 1].own = z[i].next
  BY <1>2 DEF Chain
<1> DEFINE A == {k \in 0 .. n : k # 0 => Rank(z[k].own) <= Rank(L)}
<1>4. 0 \in A
  BY <1>2
<1>5. ASSUME NEW k \in 0 .. n, k # n, k \in A PROVE k + 1 \in A
  <2>1. k + 1 \in 1 .. n /\ n # 0
    <3> HIDE DEF A, n
    <3> QED BY <1>2, <1>5
  <2>2. CASE k = 0
    <3>1. Rank(L) \in Nat
      BY <1>1, <1>2, <1>3, <2>1
    <3> QED BY <1>3, <2>1, <2>2, <3>1
  <2>3. CASE k # 0
    <3>1. k \in 1 .. n - 1 /\ k \in 1 .. n /\ 1 \in 1 .. n
      <4> HIDE DEF A, n
      <4> QED BY <1>2, <1>5, <2>3
    <3>2. Rank(z[k].own) <= Rank(L) /\ z[k + 1].own = z[k].next
      BY <1>3, <1>5, <2>1, <2>3, <3>1
    <3>3. Rank(z[k].own) \in Nat /\ Rank(z[k].next) \in Nat /\ Rank(z[k].next) <= Rank(z[k].own)
      BY <1>1, <1>2, <3>1
    <3>4. Rank(L) \in Nat
      BY <1>1, <1>2, <1>3, <2>1, <3>1
    <3> QED BY <2>1, <3>2, <3>3, <3>4
  <2> QED BY <2>2, <2>3
<1> HIDE DEF A
<1>6. 0 .. n \subseteq A
  BY <1>2, <1>4, <1>5, UpTo
<1>7. \A i \in 1 .. n : i \in A /\ i # 0
  BY <1>2, <1>6
<1> QED BY <1>1, <1>2, <1>7 DEF A

-----------------------------------------------------------------------------
(* What a step does to the names that are still to come.                   *)

(* Nothing is to come for a declaration whose number is too high. *)
LEMMA NoneBehind ==
  ASSUME NEW p, NEW s, NEW c \in Nat, NEW z \in Seq(PlacedCells(p, s, c)), NEW L, Chain(z, L),
         NEW r, Rank(r) \in Nat, Rank(L) < Rank(r)
  PROVE  Pending(z, r) = <<>>
<1>1. z \in Seq(Cells)
  BY PlacedAreCells
<1>2. ASSUME NEW i \in DOMAIN z PROVE NamesOwned(r)[z[i]] = <<>>
  <2>1. Rank(z[i].own) \in Nat /\ Rank(z[i].own) <= Rank(L)
    BY Descends
  <2>2. Rank(L) \in Nat
    <3>1. z # <<>>
      BY <1>1
    <3>2. L = z[1].own /\ 1 \in DOMAIN z
      BY <1>1, <3>1 DEF Chain
    <3> QED BY <3>2, Descends
  <2>3. z[i].own # r /\ z[i] \in Cells
    BY <1>1, <2>1, <2>2
  <2> QED BY <2>3 DEF NamesOwned
<1> QED BY <1>1, <1>2, BelowIsNothing DEF Pending

(* A node is taken apart: its own name is next. *)
LEMMA PendingDown ==
  ASSUME NEW p, NEW s, NEW z, NEW L, NEW c, NEW r, Walk(p, s, z, L, c), z # <<>>,
         Head(z).k = "walk", ~IsDecl(Head(z).it.node)
  PROVE  /\ Pending(Down(z), r) \in Seq(Paths)
         /\ Pending(z, r) = IF r = L THEN Both(NameHere[Head(z).it], Pending(Down(z), r))
                            ELSE Pending(Down(z), r)
<1> DEFINE x == Head(z).it
           o == Head(z).own
           ch == Children(x, InsertOrder)
           a == WalkOver(ch, o)
           t == Tail(z)
           q == Pending(t, r)
<1>1. /\ z \in Seq(Cells) /\ t \in Seq(Cells) /\ o = L /\ x \in Items /\ o \in Owners /\ q \in Seq(Paths)
  <2>1. z \in Seq(Cells) /\ t \in Seq(Cells) /\ o = L /\ x \in Items /\ Head(z) \in Cells
    BY WalkHead
  <2> QED BY <2>1, PendingIsPaths DEF Cells
<1>2. Pending(z, r) = Both(IF o = r THEN NamesIn[x] ELSE <<>>, q)
  BY <1>1, PendingOfFirst
<1>3. ch \in Seq(Items) /\ Below(NamesIn, ch) = Inner(x) /\ Inner(x) \in Seq(Paths)
  BY <1>1, ChildrenAreItems, InsertOrderIsOrder, InnerIsPaths DEF Inner
<1> HIDE DEF x, o, t, ch
<1>4. a \in Seq(Cells) /\ Pending(a, r) = IF r = o THEN Inner(x) ELSE <<>>
  BY <1>1, <1>3, WalkOverIs
<1> HIDE DEF a
<1>5. Down(z) = Both(a, t)
  BY DEF Down, a, t, ch, x, o
<1>6. Pending(Down(z), r) = Both(Pending(a, r), q)
  BY <1>1, <1>4, <1>5, PendingOfBoth
<1> HIDE DEF q
<1>7. CASE r # o
  BY <1>1, <1>2, <1>4, <1>6, <1>7, BothOfNone DEF o
<1>8. CASE r = o
  <2> DEFINE f == NameHere[x]
             n == Inner(x)
  <2>1. NamesIn[x] = Both(f, n)
    BY <1>1, NamesOfItem DEF x
  <2>2. f \in Seq(Paths)
    BY <1>1, NameHereIs
  <2> HIDE DEF f, n
  <2>3. n \in Seq(Paths)
    BY <1>3 DEF n
  <2>4. Both(Both(f, n), q) = Both(f, Both(n, q))
    BY <1>1, <2>2, <2>3, BothAssociates
  <2>5. Pending(Down(z), r) = Both(n, q)
    BY <1>4, <1>6, <1>8 DEF n
  <2>6. Pending(z, r) = Both(f, Pending(Down(z), r))
    BY <1>2, <1>8, <2>1, <2>4, <2>5
  <2>7. Both(n, q) \in Seq(Paths)
    BY <1>1, <2>3, BothIsSeq
  <2> QED BY <1>1, <1>8, <2>5, <2>6, <2>7 DEF f, x, o
<1> QED BY <1>7, <1>8

(* Nothing is to come from what is no item to walk or a declaration. *)
LEMMA PendingRest ==
  ASSUME NEW p, NEW s, NEW z, NEW L, NEW c, NEW r, Walk(p, s, z, L, c), z # <<>>,
         Head(z).k = "walk" => IsDecl(Head(z).it.node)
  PROVE  Pending(z, r) = Pending(Tail(z), r) /\ Pending(z, r) \in Seq(Paths)
<1>1. z \in Seq(Cells) /\ Tail(z) \in Seq(Cells) /\ Head(z).it \in Items
  BY WalkHead
<1>2. Pending(z, r) = Both(IF Head(z).k = "walk" /\ Head(z).own = r THEN NamesIn[Head(z).it] ELSE <<>>,
                           Pending(Tail(z), r))
  BY <1>1, PendingOfFirst
<1>3. Head(z).k = "walk" => NamesIn[Head(z).it] = <<>>
  BY <1>1, NamesOfItem
<1>4. Pending(z, r) = Both(<<>>, Pending(Tail(z), r))
  BY <1>2, <1>3
<1> QED BY <1>1, <1>4, PendingIsPaths, BothOfNone

(* A declaration is entered: the names in it are next. *)
LEMMA PendingInto ==
  ASSUME NEW p, NEW s, NEW z, NEW L, NEW c, NEW r, Walk(p, s, z, L, c), z # <<>>,
         Head(z).k = "walk", IsDecl(Head(z).it.node)
  PROVE  Pending(Into(z, s, c), r) = IF r = <<s, c>> THEN Inner(Head(z).it) ELSE Pending(z, r)
<1> DEFINE x == Head(z).it
           n == Head(z).own
           o == <<s, c>>
           ch == Children(x, InsertOrder)
           a == WalkOver(ch, o)
           e == Left(x, o, n)
           u == <<e>>
           t == Tail(z)
           w == Both(u, t)
           q == Pending(t, r)
<1>1. /\ z \in Seq(Cells) /\ t \in Seq(Cells) /\ t \in Seq(PlacedCells(p, s, c))
      /\ x \in Items /\ Chain(t, Head(z).next) /\ Head(z) \in PlacedCells(p, s, c) /\ c \in Nat
      /\ q \in Seq(Paths)
  BY WalkHead, PendingIsPaths DEF Walk
<1>2. n \in Owners /\ Head(z).next = n /\ Around(p, s, c, x.at, n)
  BY <1>1 DEF PlacedCells, Cells
<1>3. o \in Owners /\ o # None
  <2>1. s \in Nat
    <3>1. p \in Seq(Sources) /\ s \in DOMAIN p
      BY ProgramsAssumption DEF Walk
    <3> QED BY <3>1
  <2> QED BY <1>1, <2>1, NoneAssumption DEF Owners
<1>4. ch \in Seq(Items) /\ Below(NamesIn, ch) = Inner(x) /\ Inner(x) \in Seq(Paths)
  BY <1>1, ChildrenAreItems, InsertOrderIsOrder, InnerIsPaths DEF Inner
<1>5. Pending(z, r) = q
  BY PendingRest
<1>6. r = o => q = <<>>
  <2>1. Rank(o) = c + 1
    BY <1>3 DEF Rank
  <2>2. Rank(n) < c + 1 /\ c + 1 \in Nat
    BY <1>1, <1>2 DEF Around, Rank
  <2> HIDE DEF o, t
  <2> QED BY <1>1, <1>2, <2>1, <2>2, NoneBehind
<1>7. e \in Cells /\ e.k = "leave"
  BY <1>1, <1>2, <1>3 DEF Left, Cells
<1> HIDE DEF x, n, t, ch, o
<1>8. a \in Seq(Cells) /\ Pending(a, r) = IF r = o THEN Inner(x) ELSE <<>>
  BY <1>3, <1>4, WalkOverIs
<1> HIDE DEF a, e
<1>9. u \in Seq(Cells) /\ w \in Seq(Cells) /\ w # <<>> /\ Head(w) = e /\ Tail(w) = t
  BY <1>1, <1>7 DEF Both
<1> HIDE DEF u, w
<1>10. Pending(w, r) = q
  <2>1. Pending(w, r) = Both(<<>>, q)
    BY <1>7, <1>9, PendingOfFirst
  <2> QED BY <1>1, <2>1, BothOfNone
<1>11. Into(z, s, c) = Both(a, w)
  BY DEF Into, a, w, u, e, t, ch, x, n, o
<1>12. Pending(Into(z, s, c), r) = Both(Pending(a, r), q)
  BY <1>8, <1>9, <1>10, <1>11, PendingOfBoth
<1> HIDE DEF q
<1>13. CASE r = o
  BY <1>4, <1>6, <1>8, <1>12, <1>13, BothOfNone DEF o, x
<1>14. CASE r # o
  BY <1>1, <1>5, <1>8, <1>12, <1>14, BothOfNone DEF o
<1> QED BY <1>13, <1>14

(* Declarations that are only counted have no names. *)
LEMMA PendingPast ==
  ASSUME NEW p, NEW s, NEW z, NEW L, NEW c, NEW r, Walk(p, s, z, L, c), z # <<>>,
         Head(z).k = "walk", IsDecl(Head(z).it.node)
  PROVE  Pending(Past(z), r) = Pending(z, r)
<1> DEFINE e == Counting(Head(z).it, Head(z).own)
           t == Tail(z)
           w == Both(<<e>>, t)
<1>1. /\ z \in Seq(Cells) /\ t \in Seq(Cells) /\ Head(z) \in Cells
      /\ Pending(z, r) = Pending(t, r) /\ Pending(t, r) \in Seq(Paths)
  BY WalkHead, PendingRest
<1>2. e \in Cells /\ e.k = "count"
  BY <1>1 DEF Counting, Cells
<1> HIDE DEF e, t
<1>3. w \in Seq(Cells) /\ w # <<>> /\ Head(w) = e /\ Tail(w) = t
  BY <1>1, <1>2 DEF Both
<1> HIDE DEF w
<1>4. Pending(w, r) = Both(<<>>, Pending(t, r))
  BY <1>2, <1>3, PendingOfFirst
<1>5. Past(z) = w
  BY DEF Past, w, e, t
<1> QED BY <1>1, <1>4, <1>5, BothOfNone

LEMMA PendingOver ==
  ASSUME NEW p, NEW s, NEW z, NEW L, NEW c, NEW r, Walk(p, s, z, L, c), z # <<>>,
         Head(z).k = "count"
  PROVE  Pending(Over(z), r) = Pending(z, r)
<1> DEFINE cb == CountedBelow(Head(z).it)
           o == Head(z).own
           a == CountOver(cb, o)
           t == Tail(z)
<1>1. /\ z \in Seq(Cells) /\ t \in Seq(Cells) /\ Head(z) \in Cells /\ Head(z).it \in Items
      /\ Pending(z, r) = Pending(t, r) /\ Pending(t, r) \in Seq(Paths)
  BY WalkHead, PendingRest
<1>2. cb \in Seq([count : Items]) /\ o \in Owners
  BY <1>1, CountedBelowIsSeq DEF Cells
<1> HIDE DEF cb, o, t
<1>3. a \in Seq(Cells) /\ Pending(a, r) = <<>>
  BY <1>2, CountOverIs
<1> HIDE DEF a
<1>4. Over(z) = Both(a, t)
  BY DEF Over, a, cb, o, t
<1>5. Pending(Over(z), r) = Both(<<>>, Pending(t, r))
  BY <1>1, <1>3, <1>4, PendingOfBoth
<1> QED BY <1>1, <1>5, BothOfNone

-----------------------------------------------------------------------------
(* The stack of work and the stack with owners.                            *)

\* Element by element they are the pairs in M.
Stands(w, z, M) == Len(w) = Len(z) /\ \A i \in DOMAIN z : <<w[i], z[i]>> \in M

LEMMA StandsNone ==
  ASSUME NEW W, NEW w \in Seq(W), NEW z \in Seq(Cells), NEW M, Stands(w, z, M)
  PROVE  w = <<>> <=> z = <<>>
BY DEF Stands

LEMMA StandsFirst ==
  ASSUME NEW W, NEW w \in Seq(W), NEW z \in Seq(Cells), NEW M, Stands(w, z, M), z # <<>>
  PROVE  /\ w # <<>> /\ <<Head(w), Head(z)>> \in M /\ Stands(Tail(w), Tail(z), M)
         /\ Tail(w) \in Seq(W) /\ Head(w) \in W
<1>1. Len(z) \in Nat \ {0} /\ Len(w) = Len(z) /\ 1 \in DOMAIN z /\ DOMAIN z = 1 .. Len(z)
  BY DEF Stands
<1>2. w # <<>> /\ Head(w) = w[1] /\ Head(z) = z[1]
  BY <1>1
<1>3. <<w[1], z[1]>> \in M
  BY <1>1 DEF Stands
<1>4. Len(Tail(w)) = Len(Tail(z)) /\ DOMAIN Tail(z) = 1 .. Len(z) - 1
  BY <1>1, <1>2
<1>5. ASSUME NEW i \in DOMAIN Tail(z) PROVE <<Tail(w)[i], Tail(z)[i]>> \in M
  <2>1. i + 1 \in DOMAIN z /\ Tail(z)[i] = z[i + 1] /\ Tail(w)[i] = w[i + 1]
    BY <1>1, <1>2, <1>4
  <2> QED BY <2>1 DEF Stands
<1> QED BY <1>2, <1>3, <1>4, <1>5 DEF Stands

LEMMA StandsBoth ==
  ASSUME NEW W, NEW v \in Seq(W), NEW w \in Seq(W), NEW y \in Seq(Cells), NEW z \in Seq(Cells),
         NEW M, Stands(v, y, M), Stands(w, z, M)
  PROVE  Stands(v \o w, Both(y, z), M)
<1> DEFINE a == v \o w
           b == Both(y, z)
           n == Len(y)
<1>1. Len(v) = n /\ Len(w) = Len(z) /\ n \in Nat /\ Len(z) \in Nat
  BY DEF Stands
<1>2. /\ Len(a) = n + Len(z) /\ Len(b) = n + Len(z) /\ DOMAIN b = 1 .. n + Len(z)
      /\ \A i \in 1 .. n : a[i] = v[i] /\ b[i] = y[i]
      /\ \A j \in 1 .. Len(z) : a[n + j] = w[j] /\ b[n + j] = z[j]
  <2>1. /\ Len(a) = Len(v) + Len(w) /\ \A i \in 1 .. Len(v) : a[i] = v[i]
        /\ \A j \in 1 .. Len(w) : a[Len(v) + j] = w[j]
    OBVIOUS
  <2>2. /\ b \in Seq(Cells) /\ Len(b) = Len(y) + Len(z) /\ \A i \in 1 .. Len(y) : b[i] = y[i]
        /\ \A j \in 1 .. Len(z) : b[Len(y) + j] = z[j]
    BY DEF Both
  <2>3. DOMAIN b = 1 .. Len(b)
    BY <2>2
  <2> HIDE DEF a, b
  <2> QED BY <1>1, <2>1, <2>2, <2>3
<1>3. ASSUME NEW i \in DOMAIN b PROVE <<a[i], b[i]>> \in M
  <2>1. CASE i <= n
    <3>1. i \in 1 .. n /\ i \in DOMAIN y
      <4>1. i \in 1 .. n
        <5> HIDE DEF b, n
        <5> QED BY <1>1, <1>2, <2>1
      <4> QED BY <4>1
    <3> QED BY <1>2, <3>1 DEF Stands
  <2>2. CASE i > n
    <3>1. PICK j \in 1 .. Len(z) : i = n + j
      <4>1. i - n \in 1 .. Len(z) /\ i = n + (i - n)
        <5> HIDE DEF b, n
        <5> QED BY <1>1, <1>2, <2>2
      <4> QED BY <4>1
    <3>2. j \in DOMAIN z /\ a[i] = w[j] /\ b[i] = z[j]
      BY <1>2, <3>1
    <3> QED BY <3>2 DEF Stands
  <2>3. i <= n \/ i > n
    <3> HIDE DEF a, b, n
    <3>1. i \in 1 .. n + Len(z) /\ n \in Nat /\ Len(z) \in Nat
      BY <1>1, <1>2
    <3> QED BY <3>1
  <2> QED BY <2>1, <2>2, <2>3
<1> QED BY <1>2, <1>3 DEF Stands

LEMMA StandsOne ==
  ASSUME NEW w, NEW e, NEW M, <<w, e>> \in M
  PROVE  Stands(<<w>>, <<e>>, M)
BY DEF Stands

(* Children stand for themselves. *)
LEMMA StandsOver ==
  ASSUME NEW T, NEW s \in Seq(T), NEW o, NEW M, \A x \in T : <<x, Walked(x, o)>> \in M
  PROVE  Stands(s, WalkOver(s, o), M)
<1>1. /\ DOMAIN WalkOver(s, o) = DOMAIN s /\ DOMAIN s = 1 .. Len(s) /\ Len(s) \in Nat
      /\ \A i \in DOMAIN s : WalkOver(s, o)[i] = Walked(s[i], o)
  BY DEF WalkOver
<1>2. Len(WalkOver(s, o)) = Len(s)
  BY <1>1
<1>3. \A i \in DOMAIN s : s[i] \in T
  OBVIOUS
<1> QED BY <1>1, <1>2, <1>3 DEF Stands

-----------------------------------------------------------------------------
(* The driver's stack.                                                     *)

\* The filter o leaves out the top-level declaration a position is in.
Omits(p, o, at) ==
  /\ o # None
  /\ LET d == p[at[1]].decls[at[2]]
     IN  d.k = "global" \/ WithPrefix(RootAbsolute, d.name) \notin o

DriverPairs(p, o) ==
  {m \in Marked(Nat \X Nat) \X Cells :
     LET w == m[1]  e == m[2]
     IN  /\ e.k = "walk"  => w = e.it /\ (e.own # None => ~Omits(p, o, e.it.at))
         /\ e.k = "count" => w = Counted(e.it) /\ Omits(p, o, e.it.at) /\ IsDecl(e.it.node)
         /\ e.k = "leave" => w = Leave(e.next)}

LEMMA OmitsKin ==
  ASSUME NEW p, NEW o, NEW x, NEW y, TopOf(x) = TopOf(y)
  PROVE  Omits(p, o, x) <=> Omits(p, o, y)
BY DEF Omits, TopOf

LEMMA DriverPairIs ==
  ASSUME NEW p, NEW o, NEW w, NEW e \in Cells, <<w, e>> \in DriverPairs(p, o)
  PROVE  /\ IsWalked(w) <=> e.k = "walk"
         /\ IsCounted(w) <=> e.k = "count"
         /\ IsLeave(w) <=> e.k = "leave"
         /\ e.k = "walk"  => w = e.it /\ (e.own # None => ~Omits(p, o, e.it.at))
         /\ e.k = "count" => w = Counted(e.it) /\ Omits(p, o, e.it.at) /\ IsDecl(e.it.node)
         /\ e.k = "leave" => w = Leave(e.next)
<1> DEFINE m == <<w, e>>
           C == Marked(Nat \X Nat) \X Cells
<1>1. m[1] = w /\ m[2] = e /\ m \in C
  BY DEF DriverPairs
<1>2. /\ e.k = "walk"  => w = e.it /\ (e.own # None => ~Omits(p, o, e.it.at))
      /\ e.k = "count" => w = Counted(e.it) /\ Omits(p, o, e.it.at) /\ IsDecl(e.it.node)
      /\ e.k = "leave" => w = Leave(e.next)
  <2> HIDE DEF m, C
  <2> QED BY <1>1 DEF DriverPairs, m
<1>3. e.k \in {"walk", "count", "leave"} /\ e.it \in Items
  BY DEF Cells
<1>4. \A x \in Items : DOMAIN x = {"node", "ctx", "at"}
  BY DEF Items
<1>5. \A x : DOMAIN Leave(x) = {"leave"} /\ DOMAIN Counted(x) = {"count"}
  BY DEF Leave, Counted
<1> HIDE DEF m, C
<1>6. CASE e.k = "walk"
  BY <1>2, <1>3, <1>4, <1>6 DEF IsWalked, IsCounted, IsLeave
<1>7. CASE e.k = "count"
  BY <1>2, <1>5, <1>7 DEF IsWalked, IsCounted, IsLeave
<1>8. CASE e.k = "leave"
  BY <1>2, <1>5, <1>8 DEF IsWalked, IsCounted, IsLeave
<1> QED BY <1>3, <1>6, <1>7, <1>8

LEMMA DriverPairOf ==
  ASSUME NEW p, NEW o, NEW w, NEW e \in Cells,
         e.k = "walk"  => w = e.it /\ (e.own # None => ~Omits(p, o, e.it.at)),
         e.k = "count" => w = Counted(e.it) /\ Omits(p, o, e.it.at) /\ IsDecl(e.it.node),
         e.k = "leave" => w = Leave(e.next)
  PROVE  <<w, e>> \in DriverPairs(p, o)
<1>1. e.k \in {"walk", "count", "leave"} /\ e.it \in Items /\ e.next \in Owners
  BY DEF Cells
<1>2. w \in Marked(Nat \X Nat)
  <2>1. CASE e.k = "walk"
    BY <1>1, <2>1 DEF Marked
  <2>2. CASE e.k = "count"
    <3>1. w \in [count : Items]
      BY <1>1, <2>2 DEF Counted
    <3> QED BY <3>1 DEF Marked
  <2>3. CASE e.k = "leave"
    <3>1. w \in [leave : (Nat \X Nat) \cup {None}]
      BY <1>1, <2>3 DEF Leave, Owners
    <3> QED BY <3>1 DEF Marked
  <2> QED BY <1>1, <2>1, <2>2, <2>3
<1> DEFINE m == <<w, e>>
<1>3. m[1] = w /\ m[2] = e /\ m \in Marked(Nat \X Nat) \X Cells
  BY <1>2
<1>4. m \in DriverPairs(p, o)
  <2> HIDE DEF m
  <2> QED BY <1>3 DEF DriverPairs
<1> QED BY <1>4

(* The children of an item, inside a declaration that is not left out. *)
LEMMA ChildrenStand ==
  ASSUME NEW p, NEW s, NEW f, NEW x \in PlacedItems(p, s), NEW o \in Owners, ~Omits(p, f, x.at)
  PROVE  Stands(Children(x, InsertOrder), WalkOver(Children(x, InsertOrder), o), DriverPairs(p, f))
<1>1. Children(x, InsertOrder) \in Seq(KinOf(x))
  BY ChildrenAreKin, InsertOrderIsOrder DEF PlacedItems
<1>2. ASSUME NEW y \in KinOf(x) PROVE <<y, Walked(y, o)>> \in DriverPairs(p, f)
  <2>1. y \in Items /\ TopOf(y.at) = TopOf(x.at)
    BY KinArePlaced DEF PlacedItems
  <2>2. ~Omits(p, f, y.at)
    BY <2>1, OmitsKin
  <2>3. Walked(y, o) \in Cells /\ Walked(y, o).k = "walk" /\ Walked(y, o).it = y
    BY <2>1 DEF Walked, Cells
  <2> QED BY <2>2, <2>3, DriverPairOf
<1> QED BY <1>1, <1>2, StandsOver

-----------------------------------------------------------------------------
(* What the driver has recorded.                                           *)

\* The positions of the names recorded for a declaration.
Ats(T, r) == IF r \in DOMAIN T THEN [i \in DOMAIN T[r] |-> T[r][i].at] ELSE <<>>

Positions(T) == \A r : Ats(T, r) \in Seq(Paths)

\* For the first c declarations of source s, what is recorded and what is
\* still to come is what there is; nothing for those that are left out.
Recorded(p, o, T, s, z, c) ==
  \A m \in 0 .. c - 1 :
    IF Omits(p, o, All(p, s)[m + 1].at) THEN <<s, m>> \notin DOMAIN T
    ELSE Both(Ats(T, <<s, m>>), Pending(z, <<s, m>>)) = Inner(All(p, s)[m + 1])

LEMMA RecordedOf ==
  ASSUME NEW p, NEW o, NEW T, NEW s, NEW z, NEW c, Recorded(p, o, T, s, z, c),
         NEW m \in 0 .. c - 1
  PROVE  IF Omits(p, o, All(p, s)[m + 1].at) THEN <<s, m>> \notin DOMAIN T
         ELSE Both(Ats(T, <<s, m>>), Pending(z, <<s, m>>)) = Inner(All(p, s)[m + 1])
BY DEF Recorded

(* Nothing changes as long as the same names are to come. *)
LEMMA RecordedStays ==
  ASSUME NEW p, NEW o, NEW T, NEW s, NEW z, NEW c, Recorded(p, o, T, s, z, c),
         NEW y, \A m \in 0 .. c - 1 : Pending(y, <<s, m>>) = Pending(z, <<s, m>>)
  PROVE  Recorded(p, o, T, s, y, c)
BY DEF Recorded

(* One entry more. *)
LEMMA AtsOfRecord ==
  ASSUME IsTable(table), Positions(table), NEW ref, NEW entry, entry.at \in Paths,
         Record(ref, entry)
  PROVE  /\ Positions(table)' /\ IsTable(table)' /\ DOMAIN table' = DOMAIN table \cup {ref}
         /\ Ats(table', ref) = Both(Ats(table, ref), <<entry.at>>)
         /\ \A r : r # ref => Ats(table', r) = Ats(table, r)
<1>1. /\ IsTable(table') /\ DOMAIN table' = DOMAIN table \cup {ref}
      /\ \A r \in DOMAIN table : r # ref => table'[r] = table[r]
      /\ IF ref \in DOMAIN table THEN table'[ref] = Append(table[ref], entry)
         ELSE table'[ref] = <<entry>>
  BY RecordIsTable
<1> DEFINE o == <<entry.at>>
<1>2. Ats(table', ref) = Both(Ats(table, ref), o) /\ Ats(table, ref) \in Seq(Paths) /\ o \in Seq(Paths)
  <2>1. Ats(table, ref) \in Seq(Paths)
    BY DEF Positions
  <2>2. CASE ref \in DOMAIN table
    <3> DEFINE t == table[ref]
               u == Append(t, entry)
               a == [i \in DOMAIN t |-> t[i].at]
               b == [i \in DOMAIN u |-> u[i].at]
    <3>1. Ats(table, ref) = a
      BY <2>2 DEF Ats
    <3>2. Ats(table', ref) = b
      BY <1>1, <2>2 DEF Ats
    <3>3. PICK S : t \in Seq(S)
      BY <2>2 DEF IsTable
    <3>4. Len(u) = Len(t) + 1 /\ DOMAIN u = 1 .. Len(t) + 1 /\ DOMAIN t = 1 .. Len(t)
          /\ (\A i \in 1 .. Len(t) : u[i] = t[i]) /\ u[Len(t) + 1] = entry /\ Len(t) \in Nat
      <4>1. t \in Seq(S \cup {entry}) /\ entry \in S \cup {entry}
        BY <3>3, SeqMonotonic
      <4> HIDE DEF t
      <4> QED BY <4>1
    <3> HIDE DEF t, u
    <3>5. a \in Seq(Paths) /\ Len(a) = Len(t) /\ \A i \in 1 .. Len(t) : a[i] = t[i].at
      BY <2>1, <3>1, <3>4
    <3>6. /\ DOMAIN b = 1 .. Len(t) + 1 /\ b[Len(t) + 1] = entry.at
          /\ \A i \in 1 .. Len(t) : b[i] = a[i]
      BY <3>4, <3>5
    <3>7. b = [i \in 1 .. Len(t) + 1 |-> b[i]] /\ \A i \in 1 .. Len(t) + 1 : b[i] \in Paths
      <4>1. \A i \in 1 .. Len(t) : a[i] \in Paths
        BY <3>5
      <4>2. \A i \in 1 .. Len(t) + 1 : i \in 1 .. Len(t) \/ i = Len(t) + 1
        BY <3>4
      <4> QED BY <3>4, <3>6, <4>1, <4>2
    <3>8. b \in Seq(Paths) /\ Len(b) = Len(t) + 1
      <4> HIDE DEF a, b
      <4> QED BY <3>4, <3>7
    <3> HIDE DEF a, b
    <3>9. o \in Seq(Paths) /\ Len(o) = 1 /\ o[1] = entry.at
      OBVIOUS
    <3> HIDE DEF o
    <3>10. \A i \in Len(a) + 1 .. Len(a) + Len(o) : b[i] = o[i - Len(a)]
      BY <3>4, <3>5, <3>6, <3>9
    <3>11. Len(b) = Len(a) + Len(o) /\ \A i \in 1 .. Len(a) : b[i] = a[i]
      BY <3>4, <3>5, <3>6, <3>8, <3>9
    <3>12. b = Both(a, o)
      <4>1. a \in Seq(Paths) /\ b \in Seq(Paths) /\ o \in Seq(Paths)
        BY <3>5, <3>8, <3>9
      <4> QED BY <4>1, <3>10, <3>11, SeqOfBoth
    <3> QED BY <2>1, <3>1, <3>2, <3>9, <3>12
  <2>3. CASE ref \notin DOMAIN table
    <3>1. Ats(table, ref) = <<>>
      BY <2>3 DEF Ats
    <3>2. Ats(table', ref) = [i \in DOMAIN <<entry>> |-> <<entry>>[i].at]
      BY <1>1, <2>3 DEF Ats
    <3>3. [i \in DOMAIN <<entry>> |-> <<entry>>[i].at] = o
      OBVIOUS
    <3>4. o \in Seq(Paths)
      OBVIOUS
    <3> HIDE DEF o
    <3>5. Both(<<>>, o) = o
      BY <3>4, BothOfNone
    <3> QED BY <2>1, <3>1, <3>2, <3>3, <3>4, <3>5
  <2> QED BY <2>2, <2>3
<1>3. ASSUME NEW r, r # ref PROVE Ats(table', r) = Ats(table, r)
  <2>1. r \in DOMAIN table' <=> r \in DOMAIN table
    BY <1>1, <1>3
  <2>2. r \in DOMAIN table => table'[r] = table[r]
    BY <1>1, <1>3
  <2> QED BY <2>1, <2>2 DEF Ats
<1>4. Positions(table')
  <2> SUFFICES ASSUME NEW r PROVE Ats(table', r) \in Seq(Paths)
    BY DEF Positions
  <2>1. CASE r = ref
    <3> HIDE DEF o
    <3> QED BY <1>2, <2>1, BothIsSeq
  <2>2. CASE r # ref
    BY <1>3, <2>2 DEF Positions
  <2> QED BY <2>1, <2>2
<1> QED BY <1>1, <1>2, <1>3, <1>4

-----------------------------------------------------------------------------
(* The driver in a source.                                                 *)

\* z is the driver's stack with owners.
DriverAt(z) ==
  /\ ~Disabled(program[source].head)
  /\ Walk(program, source, z, current, counter)
  /\ Stands(work, z, DriverPairs(program, only))
  /\ Recorded(program, only, table, source, z, counter)
  /\ \A r \in DOMAIN table : r \in Nat \X Nat /\ (r[1] = source => r[2] < counter)

LEMMA DriverHead ==
  ASSUME TypeInv, phase = "resolve", work # <<>>, NEW z, DriverAt(z)
  PROVE  /\ z # <<>> /\ z \in Seq(Cells) /\ Tail(z) \in Seq(Cells) /\ Head(z) \in Cells
         /\ work \in Seq(Marked(Refs)) /\ Tail(work) \in Seq(Marked(Refs))
         /\ Items \subseteq Marked(Refs)
         /\ Stands(Tail(work), Tail(z), DriverPairs(program, only))
         /\ IsWalked(Head(work)) <=> Head(z).k = "walk"
         /\ IsCounted(Head(work)) <=> Head(z).k = "count"
         /\ IsLeave(Head(work)) <=> Head(z).k = "leave"
         /\ Head(z).k = "walk"  => /\ Head(work) = Head(z).it
                                   /\ Head(z).own # None => ~Omits(program, only, Head(z).it.at)
         /\ Head(z).k = "count" => /\ Head(work) = Counted(Head(z).it)
                                   /\ Omits(program, only, Head(z).it.at) /\ IsDecl(Head(z).it.node)
         /\ Head(z).k = "leave" => Head(work) = Leave(Head(z).next)
<1> DEFINE M == DriverPairs(program, only)
           R == Marked(Refs)
<1>1. work \in Seq(R) /\ Items \subseteq R
  BY DEF TypeInv, WorkOK, Marked
<1>2. z \in Seq(Cells)
  BY PlacedAreCells DEF DriverAt, Walk
<1>3. Stands(work, z, M)
  BY DEF DriverAt
<1> HIDE DEF M, R
<1>4. z # <<>>
  BY <1>1, <1>2, <1>3, StandsNone
<1>5. <<Head(work), Head(z)>> \in M /\ Stands(Tail(work), Tail(z), M) /\ Tail(work) \in Seq(R)
  BY <1>1, <1>2, <1>3, <1>4, StandsFirst
<1>6. Head(z) \in Cells /\ Tail(z) \in Seq(Cells)
  BY <1>2, <1>4
<1> QED BY <1>1, <1>2, <1>4, <1>5, <1>6, DriverPairIs DEF M, R

(* The children of a node take its place. *)
LEMMA DriverDescends ==
  ASSUME TypeInv, phase = "resolve", work # <<>>, NEW z, DriverAt(z),
         IsWalked(Head(work)), ~IsDecl(Head(work).node), Descend(DriverOrder),
         UNCHANGED <<program, source, only, counter, current>>
  PROVE  /\ Walk(program, source, Down(z), current, counter)'
         /\ Stands(work, Down(z), DriverPairs(program, only))'
<1> DEFINE x == Head(z).it
           ch == Children(x, InsertOrder)
           M == DriverPairs(program, only)
           o == Head(z).own
           R == Marked(Refs)
           w == Tail(work)
           y == Tail(z)
<1>1. /\ Tail(z) \in Seq(Cells) /\ z # <<>> /\ Head(z) \in Cells
      /\ w \in Seq(R) /\ Items \subseteq R /\ Stands(w, Tail(z), M) /\ Head(z).k = "walk"
      /\ Head(work) = x /\ (o # None => ~Omits(program, only, x.at))
  BY DriverHead
<1>2. Walk(program, source, z, current, counter)
  BY DEF DriverAt
<1>3. Walk(program, source, Down(z), current, counter) /\ current # None
  BY <1>1, <1>2, WalkDown
<1>4. o = current /\ x \in PlacedItems(program, source) /\ x \in Items /\ o \in Owners
  <2>1. o = current /\ x \in PlacedItems(program, source) /\ x \in Items
    BY <1>1, <1>2, WalkHead
  <2> QED BY <1>1, <2>1 DEF Cells
<1>5. ch \in Seq(Items) /\ WalkOver(ch, o) \in Seq(Cells)
  <2>1. ch \in Seq(Items)
    BY <1>4, ChildrenAreItems, InsertOrderIsOrder
  <2> QED BY <1>4, <2>1, WalkOverIs
<1>6. Stands(ch, WalkOver(ch, o), M)
  BY <1>1, <1>3, <1>4, ChildrenStand
<1>7. work' = ch \o w
  BY <1>1, DriverOrderIsInsertOrder DEF Descend
<1>8. ch \in Seq(R)
  BY <1>1, <1>5, SeqMonotonic
<1>9. Down(z) = Both(WalkOver(ch, o), y)
  BY DEF Down
<1> HIDE DEF ch, M, R, o, w, y
<1>10. Stands(ch \o w, Both(WalkOver(ch, o), y), M)
  BY <1>1, <1>5, <1>6, <1>8, StandsBoth DEF y
<1> QED BY <1>3, <1>7, <1>9, <1>10 DEF M

(* An entry is recorded for the name that is next. *)
LEMMA DriverRecords ==
  ASSUME TypeInv, Positions(table), NEW z, DriverAt(z), work # <<>>, WalkName, ~IsDecl(Head(work).node)
  PROVE  DriverAt(Down(z))' /\ Positions(table)'
         /\ \A t, m : t # source => /\ <<t, m>> \in DOMAIN table' <=> <<t, m>> \in DOMAIN table
                                    /\ Ats(table', <<t, m>>) = Ats(table, <<t, m>>)
         /\ \A r \in DOMAIN table' : r \in DOMAIN table \/ r[1] = source
<1> DEFINE item == Head(work)
           L == current
           mapped == Mapped(useMap, item.node.name)
           answer == Asked(mapped, item.ctx)
           entry == [at |-> item.at, resolved |-> answer # None,
                     name |-> IF answer # None THEN answer ELSE mapped]
<1>1. /\ phase = "resolve" /\ IsWalked(item) /\ item.node.k \in NameKinds
      /\ UNCHANGED <<program, source, only, counter, current>>
      /\ Record(L, entry) /\ Descend(DriverOrder)
  BY DEF WalkName, Resolving, RecordName
<1>2. /\ z # <<>> /\ Head(z).k = "walk" /\ item = Head(z).it /\ item \in Items
      /\ Head(z).own = L /\ (L # None => ~Omits(program, only, item.at))
      /\ item \in PlacedItems(program, source) /\ Head(z) \in PlacedCells(program, source, counter)
  <2>1. Walk(program, source, z, current, counter)
    BY DEF DriverAt
  <2>2. /\ z # <<>> /\ Head(z).k = "walk" /\ item = Head(z).it
        /\ Head(z).own # None => ~Omits(program, only, item.at)
    BY <1>1, DriverHead
  <2> QED BY <2>1, <2>2, WalkHead
<1>3. Walk(program, source, z, L, counter) /\ ~IsDecl(Head(z).it.node)
  BY <1>2 DEF DriverAt
<1>4. L # None
  BY <1>2, <1>3, WalkDown
<1>5. PICK m \in 0 .. counter - 1 : /\ L = <<source, m>>
                                    /\ TopOf(All(program, source)[m + 1].at) = TopOf(item.at)
  BY <1>2, <1>4 DEF PlacedCells, Around
<1>6. ~Omits(program, only, All(program, source)[m + 1].at)
  BY <1>2, <1>4, <1>5, OmitsKin
<1> DEFINE y == Down(z)
<1>7. /\ Walk(program, source, y, current, counter)'
      /\ Stands(work, y, DriverPairs(program, only))'
  BY <1>1, DriverDescends
<1>8. entry.at = item.at /\ item.at \in Paths
  BY <1>2 DEF Items, Paths
<1> HIDE DEF entry
<1>9. /\ Positions(table)' /\ DOMAIN table' = DOMAIN table \cup {L}
      /\ Ats(table', L) = Both(Ats(table, L), <<item.at>>)
      /\ \A r : r # L => Ats(table', r) = Ats(table, r)
  <2>1. IsTable(table)
    BY DEF TypeInv, StateOK
  <2>2. Record(L, entry)
    BY <1>1
  <2> DEFINE at == item.at
  <2>3. entry.at = at /\ at \in Paths
    BY <1>8
  <2> HIDE DEF item, L, at
  <2>4. /\ Positions(table)' /\ DOMAIN table' = DOMAIN table \cup {L}
        /\ Ats(table', L) = Both(Ats(table, L), <<entry.at>>)
        /\ \A r : r # L => Ats(table', r) = Ats(table, r)
    BY <2>1, <2>2, <2>3, AtsOfRecord
  <2> QED BY <2>3, <2>4 DEF at
<1>10. Pending(z, L) = Both(<<item.at>>, Pending(y, L)) /\ Pending(y, L) \in Seq(Paths)
  <2>1. NameHere[item] = <<item.at>>
    BY <1>1, <1>2, NameHereIs
  <2>2. Pending(z, L) = Both(NameHere[item], Pending(y, L)) /\ Pending(y, L) \in Seq(Paths)
    BY <1>2, <1>3, PendingDown
  <2> QED BY <2>1, <2>2
<1>11. ASSUME NEW r, r # L PROVE Pending(z, r) = Pending(y, r)
  BY <1>2, <1>3, <1>11, PendingDown
<1>12. Recorded(program, only, table, source, z, counter) /\ counter \in Nat
  BY DEF DriverAt, Walk
<1> HIDE DEF y, item
<1>13. Both(Ats(table', L), Pending(y, L)) = Both(Ats(table, L), Pending(z, L))
  <2> DEFINE o == <<item.at>>
             a == Ats(table, L)
             q == Pending(y, L)
  <2>1. o \in Seq(Paths) /\ a \in Seq(Paths) /\ q \in Seq(Paths)
    BY <1>8, <1>10 DEF Positions
  <2>2. Ats(table', L) = Both(a, o) /\ Pending(z, L) = Both(o, q)
    BY <1>9, <1>10
  <2> HIDE DEF o, a, q
  <2>3. Both(Both(a, o), q) = Both(a, Both(o, q))
    BY <2>1, BothAssociates
  <2> QED BY <2>2, <2>3 DEF a, q
<1>14. ASSUME NEW k \in 0 .. counter - 1
       PROVE  IF Omits(program, only, All(program, source)[k + 1].at) THEN <<source, k>> \notin DOMAIN table'
              ELSE Both(Ats(table', <<source, k>>), Pending(y, <<source, k>>))
                     = Inner(All(program, source)[k + 1])
  <2>1. IF Omits(program, only, All(program, source)[k + 1].at) THEN <<source, k>> \notin DOMAIN table
        ELSE Both(Ats(table, <<source, k>>), Pending(z, <<source, k>>))
               = Inner(All(program, source)[k + 1])
    BY <1>12, RecordedOf
  <2>2. CASE k = m
    BY <1>5, <1>6, <1>13, <2>1, <2>2
  <2>3. CASE k # m
    <3>1. <<source, k>> # L
      BY <1>5, <2>3
    <3> QED BY <1>9, <1>11, <2>1, <3>1
  <2> QED BY <2>2, <2>3
<1>15. Recorded(program, only, table, source, y, counter)'
  BY <1>1, <1>14 DEF Recorded
<1>16. \A r \in DOMAIN table' : r \in Nat \X Nat /\ (r[1] = source => r[2] < counter)
  <2>1. L[1] = source /\ L[2] < counter /\ L \in Nat \X Nat
    BY <1>5, <1>12 DEF TypeInv, TypeOK
  <2> QED BY <1>9, <2>1 DEF DriverAt
<1>17. (\A r \in DOMAIN table : r \in Nat \X Nat /\ (r[1] = source => r[2] < counter))'
  BY <1>1, <1>16
<1>18. (~Disabled(program[source].head))'
  BY <1>1 DEF DriverAt
<1>19. DriverAt(y)'
  BY <1>7, <1>15, <1>17, <1>18 DEF DriverAt
<1>20. L[1] = source
  BY <1>5
<1>21. \A t, k : t # source => <<t, k>> # L
  BY <1>5
<1> QED BY <1>9, <1>19, <1>20, <1>21 DEF y

LEMMA DriverPasses ==
  ASSUME TypeInv, NEW z, DriverAt(z), work # <<>>, WalkNode
  PROVE  DriverAt(Down(z))'
<1>1. /\ phase = "resolve" /\ IsWalked(Head(work)) /\ ~IsDecl(Head(work).node)
      /\ Head(work).node.k \notin NameKinds
      /\ UNCHANGED <<program, source, only, counter, current, table>> /\ Descend(DriverOrder)
  BY DEF WalkNode, Resolving, envVars, driverVars
<1> DEFINE y == Down(z)
<1>2. /\ Walk(program, source, y, current, counter)'
      /\ Stands(work, y, DriverPairs(program, only))'
  BY <1>1, DriverDescends
<1>3. /\ Walk(program, source, z, current, counter) /\ z # <<>>
      /\ Head(z).k = "walk" /\ Head(work) = Head(z).it /\ Head(z).it \in Items
  <2>1. /\ z # <<>> /\ Head(z).k = "walk" /\ Head(work) = Head(z).it
    BY <1>1, DriverHead
  <2> QED BY <2>1, WalkHead DEF DriverAt
<1>4. ASSUME NEW r PROVE Pending(y, r) = Pending(z, r)
  <2>1. NameHere[Head(z).it] = <<>>
    BY <1>1, <1>3, NameHereIs
  <2>2. /\ Pending(y, r) \in Seq(Paths)
        /\ Pending(z, r) = IF r = current THEN Both(<<>>, Pending(y, r)) ELSE Pending(y, r)
    BY <1>1, <1>3, <2>1, PendingDown
  <2> QED BY <2>2, BothOfNone
<1>5. Recorded(program, only, table, source, y, counter)
  BY <1>4, RecordedStays DEF DriverAt
<1> HIDE DEF y
<1>6. Recorded(program, only, table, source, y, counter)'
  BY <1>1, <1>5 DEF Recorded
<1>7. (/\ ~Disabled(program[source].head)
       /\ \A r \in DOMAIN table : r \in Nat \X Nat /\ (r[1] = source => r[2] < counter))'
  BY <1>1 DEF DriverAt
<1> QED BY <1>2, <1>6, <1>7 DEF DriverAt, y

(* A declaration is entered: nothing is recorded for it yet. *)
LEMMA DriverEnters ==
  ASSUME TypeInv, Positions(table), NEW z, DriverAt(z), work # <<>>, WalkDeclaration
  PROVE  \E y : DriverAt(y)'
<1>1. /\ phase = "resolve" /\ IsWalked(Head(work)) /\ IsDecl(Head(work).node)
      /\ UNCHANGED <<program, source, only, table>>
      /\ IsTop(Head(work)) => Selected(Head(work))
      /\ work' = Children(Head(work), InsertOrder) \o <<Leave(current)>> \o Tail(work)
      /\ counter' = counter + 1 /\ current' = <<source, counter>>
  BY DriverOrderIsInsertOrder DEF WalkDeclaration, Resolving, envVars, DeclRef
<1>2. PICK s, c, L : s = source /\ c = counter /\ L = current
  OBVIOUS
<1> DEFINE x == Head(z).it
           n == Head(z).own
           o == <<s, c>>
           ch == Children(x, InsertOrder)
           M == DriverPairs(program, only)
           R == Marked(Owners)
           w == Tail(work)
           y == Into(z, s, c)
<1>3. /\ z # <<>> /\ Head(z).k = "walk" /\ Head(work) = x /\ Head(z) \in Cells /\ Tail(z) \in Seq(Cells)
      /\ n # None => ~Omits(program, only, x.at)
      /\ Stands(w, Tail(z), M) /\ w \in Seq(R)
  <2>1. /\ z # <<>> /\ Head(z).k = "walk" /\ Head(work) = x /\ Head(z) \in Cells /\ Tail(z) \in Seq(Cells)
        /\ n # None => ~Omits(program, only, x.at)
        /\ Stands(w, Tail(z), M) /\ w \in Seq(Marked(Refs))
    BY <1>1, DriverHead
  <2>2. Marked(Refs) \subseteq R
    <3>1. Refs \subseteq Owners
      BY ProgramsAssumption DEF TypeInv, StateOK, Refs, Owners
    <3>2. [leave : Refs \cup {None}] \subseteq [leave : Owners \cup {None}]
      BY <3>1
    <3> QED BY <3>2 DEF Marked
  <2> HIDE DEF R
  <2> QED BY <2>1, <2>2, SeqMonotonic
<1>4. Walk(program, s, z, L, c) /\ s \in Nat /\ c \in Nat /\ n = L
  <2>1. Walk(program, s, z, L, c)
    BY <1>2 DEF DriverAt
  <2>2. s \in Nat /\ c \in Nat
    BY <1>2, <2>1 DEF Walk, TypeInv, TypeOK
  <2> QED BY <1>3, <2>1, <2>2, WalkHead
<1>5. Walk(program, s, y, o, c + 1) /\ All(program, s)[c + 1] = x
  BY <1>1, <1>3, <1>4, WalkInto
<1>6. /\ x \in Items /\ x \in PlacedItems(program, s) /\ n \in Owners
      /\ n = None <=> Len(x.at) = 2
  BY <1>3, <1>4, WalkHead DEF Cells, PlacedCells
<1>7. ~Omits(program, only, x.at)
  <2>1. CASE n # None
    BY <1>3, <2>1
  <2>2. CASE n = None
    <3>1. Len(x.at) = 2 /\ x.ctx = <<>> /\ x.node = program[x.at[1]].decls[x.at[2]]
      BY <1>6, <2>2 DEF PlacedItems
    <3>2. Selected(x)
      BY <1>1, <1>3, <3>1 DEF IsTop
    <3>3. FullName(x) = WithPrefix(RootAbsolute, x.node.name)
      BY <3>1 DEF FullName, Scope
    <3> QED BY <3>1, <3>2, <3>3 DEF Selected, Omits
  <2> QED BY <2>1, <2>2
<1>8. o \in Owners /\ o # None
  BY <1>4, NoneAssumption DEF Owners
<1>9. Stands(ch, WalkOver(ch, o), M)
  BY <1>6, <1>7, <1>8, ChildrenStand
<1>10. ch \in Seq(Items) /\ WalkOver(ch, o) \in Seq(Cells)
  <2>1. ch \in Seq(Items)
    BY <1>6, ChildrenAreItems, InsertOrderIsOrder
  <2> QED BY <1>8, <2>1, WalkOverIs
<1> DEFINE e == Left(x, o, n)
           l == Leave(L)
<1>11. <<l, e>> \in M /\ e \in Cells /\ l \in R
  <2>1. e \in Cells /\ e.k = "leave" /\ e.next = L
    BY <1>4, <1>6, <1>8 DEF Left, Cells
  <2>2. l \in [leave : Owners \cup {None}]
    BY <1>4, <1>6 DEF Leave
  <2>3. l \in R
    BY <2>2 DEF Marked
  <2> HIDE DEF e
  <2> QED BY <2>1, <2>3, DriverPairOf
<1>12. ch \in Seq(R)
  <2>1. Items \subseteq R
    BY DEF Marked
  <2> HIDE DEF R, ch
  <2> QED BY <1>10, <2>1, SeqMonotonic
<1>13. work' = (ch \o <<l>>) \o w
  BY <1>1, <1>2, <1>3
<1> DEFINE t == Tail(z)
           u == <<e>>
           v == <<l>>
           a == WalkOver(ch, o)
<1>14. y = Both(a, Both(u, t))
  BY DEF Into
<1>15. t \in Seq(Cells) /\ Stands(w, t, M)
  BY <1>3
<1> HIDE DEF e, l, M, R, w, t, ch, o, a
<1>16. u \in Seq(Cells) /\ v \in Seq(R) /\ Stands(v, u, M)
  BY <1>11, StandsOne
<1>17. work' = ch \o (v \o w)
  <2> HIDE DEF v
  <2>1. (ch \o v) \o w = ch \o (v \o w)
    BY <1>3, <1>12, <1>16, Associates, SMTT(30)
  <2> QED BY <1>13, <2>1 DEF v
<1> HIDE DEF u, v
<1>18. Stands(work', y, M)
  <2>1. Stands(v \o w, Both(u, t), M)
    BY <1>3, <1>15, <1>16, StandsBoth
  <2>2. v \o w \in Seq(R) /\ Both(u, t) \in Seq(Cells)
    BY <1>3, <1>15, <1>16, BothIsSeq
  <2>3. Stands(ch, a, M) /\ a \in Seq(Cells)
    BY <1>9, <1>10 DEF a
  <2> HIDE DEF y
  <2>4. Stands(ch \o (v \o w), Both(a, Both(u, t)), M)
    BY <1>12, <2>1, <2>2, <2>3, StandsBoth
  <2> QED BY <1>14, <1>17, <2>4
<1>19. Recorded(program, only, table, s, y, c + 1)
  <2> SUFFICES ASSUME NEW m \in 0 .. (c + 1) - 1
               PROVE  IF Omits(program, only, All(program, s)[m + 1].at) THEN <<s, m>> \notin DOMAIN table
                      ELSE Both(Ats(table, <<s, m>>), Pending(y, <<s, m>>)) = Inner(All(program, s)[m + 1])
    BY DEF Recorded
  <2>1. Pending(y, <<s, m>>) = IF m = c THEN Inner(x) ELSE Pending(z, <<s, m>>)
    <3> HIDE DEF x
    <3> QED BY <1>1, <1>3, <1>4, PendingInto DEF x
  <2>2. CASE m = c
    <3>1. <<s, c>> \notin DOMAIN table
      BY <1>2, <1>4 DEF DriverAt
    <3>2. Ats(table, <<s, c>>) = <<>>
      BY <3>1 DEF Ats
    <3>3. Both(<<>>, Inner(x)) = Inner(x)
      BY <1>6, InnerIsPaths, BothOfNone
    <3> QED BY <1>5, <1>7, <2>1, <2>2, <3>2, <3>3
  <2>3. CASE m # c
    <3>1. m \in 0 .. c - 1
      BY <1>4, <2>3
    <3>2. Recorded(program, only, table, s, z, c)
      BY <1>2 DEF DriverAt
    <3> QED BY <2>1, <2>3, <3>1, <3>2, RecordedOf
  <2> QED BY <2>2, <2>3
<1> HIDE DEF y
<1>20. /\ source' = s /\ counter' = c + 1 /\ current' = o /\ program' = program /\ only' = only
       /\ table' = table
  BY <1>1, <1>2 DEF o
<1>21. Walk(program, source, y, current, counter)'
  BY <1>5, <1>20
<1>22. Recorded(program, only, table, source, y, counter)'
  BY <1>19, <1>20
<1>23. Stands(work, y, DriverPairs(program, only))'
  BY <1>18, <1>20 DEF M
<1>24. (~Disabled(program[source].head))'
  BY <1>2, <1>20 DEF DriverAt
<1>25. (\A r \in DOMAIN table : r \in Nat \X Nat /\ (r[1] = source => r[2] < counter))'
  <2>1. \A r \in DOMAIN table : r \in Nat \X Nat /\ (r[1] = s => r[2] < c)
    BY <1>2 DEF DriverAt
  <2>2. \A r \in DOMAIN table : r \in Nat \X Nat /\ (r[1] = s => r[2] < c + 1)
    BY <1>4, <2>1
  <2> QED BY <1>20, <2>2
<1>26. DriverAt(y)'
  BY <1>21, <1>22, <1>23, <1>24, <1>25 DEF DriverAt
<1> QED BY <1>26

(* The filter leaves a declaration out: it is going to be counted. *)
LEMMA DriverSkips ==
  ASSUME TypeInv, NEW z, DriverAt(z), work # <<>>, SkipDecl, Found(Head(work))
  PROVE  DriverAt(Past(z))'
<1>1. /\ phase = "resolve" /\ IsWalked(Head(work)) /\ IsTop(Head(work)) /\ ~Selected(Head(work))
      /\ UNCHANGED <<program, source, only, counter, current, table>>
      /\ work' = <<Counted(Head(work))>> \o Tail(work)
  BY DEF SkipDecl, Resolving, envVars, driverVars
<1> DEFINE x == Head(z).it
           M == DriverPairs(program, only)
           R == Marked(Refs)
           e == Counting(x, Head(z).own)
           k == Counted(x)
           u == <<e>>
           v == <<k>>
           t == Tail(z)
           w == Tail(work)
           y == Past(z)
<1>2. /\ z # <<>> /\ Head(z).k = "walk" /\ Head(work) = x /\ Head(z) \in Cells /\ t \in Seq(Cells)
      /\ Stands(w, t, M) /\ w \in Seq(R)
  BY <1>1, DriverHead
<1>3. Walk(program, source, z, current, counter)
  BY DEF DriverAt
<1>4. x \in Items /\ x \in PlacedItems(program, source)
  BY <1>2, <1>3, WalkHead
<1>5. IsDecl(x.node) /\ x.ctx = <<>> /\ x.node = program[x.at[1]].decls[x.at[2]]
  BY <1>1, <1>2, <1>4 DEF PlacedItems, IsTop
<1>6. Omits(program, only, x.at)
  <2>1. FullName(x) = WithPrefix(RootAbsolute, x.node.name)
    BY <1>5 DEF FullName, Scope
  <2> QED BY <1>1, <1>2, <1>5, <2>1 DEF Selected, Omits
<1>7. Walk(program, source, y, current, counter)
  BY <1>2, <1>3, WalkPast
<1>8. \A r : Pending(y, r) = Pending(z, r)
  <2> HIDE DEF M, R, e, k, u, v, t, w
  <2>1. z # <<>> /\ Head(z).k = "walk" /\ IsDecl(Head(z).it.node)
    BY <1>2, <1>5
  <2> HIDE DEF x
  <2> QED BY <1>3, <2>1, PendingPast
<1>9. Recorded(program, only, table, source, y, counter)
  <2> HIDE DEF y
  <2>1. Recorded(program, only, table, source, z, counter)
    BY DEF DriverAt
  <2>2. \A m \in 0 .. counter - 1 : Pending(y, <<source, m>>) = Pending(z, <<source, m>>)
    BY <1>8
  <2> QED BY <2>1, <2>2, RecordedStays
<1>10. e \in Cells /\ e.k = "count" /\ e.it = x
  BY <1>2, <1>4 DEF Counting, Cells
<1>11. <<k, e>> \in M
  <2> HIDE DEF e
  <2> QED BY <1>5, <1>6, <1>10, DriverPairOf
<1>12. k \in R
  <2>1. k \in [count : Items]
    BY <1>4 DEF Counted
  <2> QED BY <2>1 DEF Marked
<1> HIDE DEF e, k, M, R, t, w
<1>13. u \in Seq(Cells) /\ v \in Seq(R) /\ Stands(v, u, M)
  BY <1>10, <1>11, <1>12, StandsOne
<1>14. work' = v \o w
  BY <1>1, <1>2 DEF w, k
<1>15. y = Both(u, t)
  BY DEF Past, t, e
<1> HIDE DEF u, v
<1>16. Stands(v \o w, Both(u, t), M)
  BY <1>2, <1>13, StandsBoth
<1> HIDE DEF y
<1>17. Stands(work', y, M)
  BY <1>14, <1>15, <1>16
<1>18. (/\ Walk(program, source, y, current, counter)
        /\ Stands(work, y, DriverPairs(program, only)))'
  BY <1>1, <1>7, <1>17 DEF M
<1>19. (/\ Recorded(program, only, table, source, y, counter)
        /\ ~Disabled(program[source].head)
        /\ \A r \in DOMAIN table : r \in Nat \X Nat /\ (r[1] = source => r[2] < counter))'
  BY <1>1, <1>9 DEF DriverAt
<1> QED BY <1>18, <1>19 DEF DriverAt, y

(* A declaration is counted: nothing is recorded for it. *)
LEMMA DriverCounts ==
  ASSUME TypeInv, NEW z, DriverAt(z), work # <<>>, ConsumeDeclRef
  PROVE  DriverAt(Over(z))'
<1>1. /\ phase = "resolve" /\ IsCounted(Head(work)) /\ counter' = counter + 1
      /\ UNCHANGED <<program, source, only, current, table>>
      /\ work' = CountedBelow(Head(work).count) \o Tail(work)
  BY DEF ConsumeDeclRef, Resolving, envVars
<1> DEFINE x == Head(z).it
           o == Head(z).own
           M == DriverPairs(program, only)
           R == Marked(Refs)
           cb == CountedBelow(x)
           a == CountOver(cb, o)
           t == Tail(z)
           w == Tail(work)
           y == Over(z)
<1>2. /\ z # <<>> /\ Head(z).k = "count" /\ Head(work) = Counted(x) /\ Head(z) \in Cells
      /\ t \in Seq(Cells) /\ Stands(w, t, M) /\ w \in Seq(R)
      /\ Omits(program, only, x.at) /\ IsDecl(x.node)
  BY <1>1, DriverHead
<1>3. Walk(program, source, z, current, counter) /\ counter \in Nat
  BY DEF DriverAt, Walk
<1>4. x \in Items /\ x \in PlacedItems(program, source) /\ o \in Owners
  BY <1>2, <1>3, WalkHead DEF Cells
<1>5. Walk(program, source, y, current, counter + 1) /\ All(program, source)[counter + 1] = x
  BY <1>2, <1>3, WalkCount
<1>6. \A r : Pending(y, r) = Pending(z, r)
  BY <1>2, <1>3, PendingOver
<1>7. work' = cb \o w
  <2>1. Head(work).count = x
    BY <1>2 DEF Counted
  <2>2. work' = CountedBelow(Head(work).count) \o w
    BY <1>1 DEF w
  <2> QED BY <2>1, <2>2 DEF cb
<1>8. cb \in Seq(CountedKin(x)) /\ cb \in Seq([count : Items])
  BY <1>4, CountedBelowIsKin, CountedBelowIsSeq
<1>9. a \in Seq(Cells)
  <2> HIDE DEF cb
  <2> QED BY <1>4, <1>8, CountOverIs
<1>10. cb \in Seq(R)
  <2>1. [count : Items] \subseteq R
    BY DEF Marked
  <2> HIDE DEF R, cb
  <2> QED BY <1>8, <2>1, SeqMonotonic
<1>11. ASSUME NEW v \in CountedKin(x) PROVE <<v, Counting(v.count, o)>> \in M
  <2>1. v.count \in KinOf(x) /\ IsDecl(v.count.node) /\ v = Counted(v.count)
    BY DEF CountedKin, Counted
  <2>2. v.count \in Items /\ TopOf(v.count.at) = TopOf(x.at)
    <3> DEFINE m == v.count
    <3>1. m \in KinOf(x)
      BY <2>1
    <3> HIDE DEF m, x
    <3>2. m \in PlacedItems(program, source) /\ TopOf(m.at) = TopOf(x.at)
      BY <1>4, <3>1, KinArePlaced
    <3>3. m \in Items
      BY <3>2 DEF PlacedItems
    <3> QED BY <3>2, <3>3 DEF m
  <2>3. Omits(program, only, v.count.at)
    BY <1>2, <2>2, OmitsKin
  <2>4. /\ Counting(v.count, o) \in Cells /\ Counting(v.count, o).k = "count"
        /\ Counting(v.count, o).it = v.count
    BY <1>4, <2>2 DEF Counting, Cells
  <2> QED BY <2>1, <2>3, <2>4, DriverPairOf
<1>12. Stands(cb, a, M)
  <2> DEFINE K == CountedKin(x)
  <2>1. cb \in Seq(K) /\ \A v \in K : <<v, Counting(v.count, o)>> \in M
    BY <1>8, <1>11
  <2> HIDE DEF K, M, cb, o
  <2>2. DOMAIN cb = 1 .. Len(cb) /\ Len(cb) \in Nat /\ \A i \in DOMAIN cb : cb[i] \in K
    BY <2>1
  <2>3. DOMAIN a = DOMAIN cb /\ \A i \in DOMAIN cb : a[i] = Counting(cb[i].count, o)
    BY DEF CountOver
  <2>4. Len(a) = Len(cb)
    BY <2>2, <2>3
  <2> HIDE DEF a
  <2>5. \A i \in DOMAIN a : <<cb[i], a[i]>> \in M
    BY <2>1, <2>2, <2>3
  <2> QED BY <2>4, <2>5 DEF Stands
<1>13. y = Both(a, t)
  BY DEF Over
<1> HIDE DEF cb, a, t, w, M, R, o
<1>14. Stands(cb \o w, Both(a, t), M)
  BY <1>2, <1>9, <1>10, <1>12, StandsBoth
<1> HIDE DEF y, x
<1>15. Stands(work', y, M)
  BY <1>7, <1>13, <1>14
<1>16. Recorded(program, only, table, source, y, counter + 1)
  <2> SUFFICES ASSUME NEW m \in 0 .. (counter + 1) - 1
               PROVE  IF Omits(program, only, All(program, source)[m + 1].at)
                      THEN <<source, m>> \notin DOMAIN table
                      ELSE Both(Ats(table, <<source, m>>), Pending(y, <<source, m>>))
                             = Inner(All(program, source)[m + 1])
    BY DEF Recorded
  <2>1. CASE m = counter
    <3>1. <<source, counter>> \notin DOMAIN table
      BY <1>3 DEF DriverAt
    <3> QED BY <1>2, <1>5, <2>1, <3>1
  <2>2. CASE m # counter
    <3>1. m \in 0 .. counter - 1
      BY <1>3, <2>2
    <3>2. Recorded(program, only, table, source, z, counter)
      BY DEF DriverAt
    <3> QED BY <1>6, <3>1, <3>2, RecordedOf
  <2> QED BY <2>1, <2>2
<1>17. \A r \in DOMAIN table : r \in Nat \X Nat /\ (r[1] = source => r[2] < counter + 1)
  <2>1. \A r \in DOMAIN table : r \in Nat \X Nat /\ (r[1] = source => r[2] < counter)
    BY DEF DriverAt
  <2> QED BY <1>3, <2>1
<1>18. (/\ Walk(program, source, y, current, counter)
        /\ Stands(work, y, DriverPairs(program, only)))'
  BY <1>1, <1>5, <1>15 DEF M
<1>19. (/\ Recorded(program, only, table, source, y, counter)
        /\ ~Disabled(program[source].head)
        /\ \A r \in DOMAIN table : r \in Nat \X Nat /\ (r[1] = source => r[2] < counter))'
  BY <1>1, <1>16, <1>17 DEF DriverAt
<1> QED BY <1>18, <1>19 DEF DriverAt, y

(* A declaration is left for the one around it. *)
LEMMA DriverLeaves ==
  ASSUME TypeInv, NEW z, DriverAt(z), work # <<>>, LeaveDeclaration
  PROVE  DriverAt(Tail(z))'
<1>1. /\ phase = "resolve" /\ IsLeave(Head(work)) /\ current' = Head(work).leave
      /\ UNCHANGED <<program, source, only, counter, table>> /\ work' = Tail(work)
  BY DEF LeaveDeclaration, Resolving, envVars
<1> DEFINE y == Tail(z)
           n == Head(z).next
<1>2. /\ z # <<>> /\ Head(z).k = "leave" /\ Head(work) = Leave(n)
      /\ Stands(Tail(work), y, DriverPairs(program, only))
  BY <1>1, DriverHead
<1>3. Walk(program, source, z, current, counter)
  BY DEF DriverAt
<1>4. Walk(program, source, y, n, counter)
  BY <1>2, <1>3, WalkOut
<1>5. \A r : Pending(z, r) = Pending(y, r)
  BY <1>2, <1>3, PendingRest
<1>6. Recorded(program, only, table, source, y, counter)
  <2> HIDE DEF y
  <2> QED BY <1>5, RecordedStays DEF DriverAt
<1>7. current' = n
  BY <1>1, <1>2 DEF Leave
<1> HIDE DEF y, n
<1>8. (/\ Walk(program, source, y, current, counter)
       /\ Stands(work, y, DriverPairs(program, only)))'
  BY <1>1, <1>2, <1>4, <1>7
<1>9. (/\ Recorded(program, only, table, source, y, counter)
       /\ ~Disabled(program[source].head)
       /\ \A r \in DOMAIN table : r \in Nat \X Nat /\ (r[1] = source => r[2] < counter))'
  BY <1>1, <1>6 DEF DriverAt
<1> QED BY <1>8, <1>9 DEF DriverAt, y

(* A source is entered: nothing is recorded for it. *)
LEMMA DriverStarts ==
  ASSUME TypeInv, \A r \in DOMAIN table : r \in Nat \X Nat /\ r[1] <= source, ResolveSource
  PROVE  \E z : DriverAt(z)'
<1>1. /\ source' = source + 1 /\ counter' = 0 /\ current' = None
      /\ UNCHANGED <<program, only, table>> /\ ~Disabled(program[source + 1].head)
      /\ work' = TopItems(source + 1, program[source + 1].decls)
      /\ source < Len(program)
  BY DEF ResolveSource, Enter, NextSource
<1>2. /\ program \in Programs /\ source \in Nat /\ source + 1 \in DOMAIN program
      /\ program[source + 1].decls = program[source + 1].decls
  <2>1. program \in Programs /\ source \in 0 .. Len(program)
    BY DEF TypeInv, StateOK, TypeOK
  <2>2. program \in Seq(Sources)
    BY <2>1, ProgramsAssumption
  <2> QED BY <1>1, <2>1, <2>2
<1>3. PICK s : s = source + 1
  OBVIOUS
<1>4. PICK t : t = TopItems(s, program[s].decls)
  OBVIOUS
<1>5. PICK z : z = WalkOver(t, None)
  OBVIOUS
<1>6. t \in Seq(Items)
  BY <1>2, <1>3, <1>4, TopsArePlaced
<1>7. Walk(program, s, z, None, 0)
  BY <1>2, <1>3, <1>4, <1>5, WalkEnter
<1>8. Stands(t, z, DriverPairs(program, only))
  <2>1. ASSUME NEW x \in Items PROVE <<x, Walked(x, None)>> \in DriverPairs(program, only)
    <3>1. /\ Walked(x, None) \in Cells /\ Walked(x, None).k = "walk" /\ Walked(x, None).it = x
          /\ Walked(x, None).own = None
      BY DEF Walked, Cells, Owners
    <3> QED BY <3>1, DriverPairOf
  <2> QED BY <1>5, <1>6, <2>1, StandsOver
<1>9. Recorded(program, only, table, s, z, 0)
  BY DEF Recorded
<1>10. \A r \in DOMAIN table : r \in Nat \X Nat /\ (r[1] = s => r[2] < 0)
  BY <1>2, <1>3
<1>11. DriverAt(z)'
  BY <1>1, <1>3, <1>4, <1>7, <1>8, <1>9, <1>10 DEF DriverAt
<1> QED BY <1>11

-----------------------------------------------------------------------------
(* What a resolution leaves.                                               *)

\* For source t, the names of each declaration are recorded, or none of them.
Settled(p, o, T, t) ==
  \A m \in 0 .. Len(All(p, t)) - 1 :
    IF Disabled(p[t].head) \/ Omits(p, o, All(p, t)[m + 1].at) THEN <<t, m>> \notin DOMAIN T
    ELSE Ats(T, <<t, m>>) = Inner(All(p, t)[m + 1])

LEMMA SettledStays ==
  ASSUME NEW p, NEW o, NEW T, NEW t, Settled(p, o, T, t),
         NEW U, \A m : /\ <<t, m>> \in DOMAIN U <=> <<t, m>> \in DOMAIN T
                       /\ Ats(U, <<t, m>>) = Ats(T, <<t, m>>)
  PROVE  Settled(p, o, U, t)
BY DEF Settled

LEMMA BelowNone == ASSUME NEW f PROVE Below(f, <<>>) = <<>>
<1>1. PICK s : s = <<>>
  OBVIOUS
<1>2. s \in Seq({}) /\ \A i \in DOMAIN s : f[s[i]] = <<>>
  BY <1>1
<1> QED BY <1>1, <1>2, BelowIsNothing

(* The driver has finished a source. *)
LEMMA DriverEnds ==
  ASSUME TypeInv, Positions(table), phase = "resolve", work = <<>>, NEW z, DriverAt(z)
  PROVE  Settled(program, only, table, source)
<1>1. /\ Walk(program, source, z, current, counter) /\ ~Disabled(program[source].head)
      /\ Recorded(program, only, table, source, z, counter)
      /\ Stands(work, z, DriverPairs(program, only))
  BY DEF DriverAt
<1>2. z = <<>>
  <2>1. z \in Seq(Cells)
    BY <1>1, PlacedAreCells DEF Walk
  <2> QED BY <1>1, <2>1 DEF Stands
<1>3. Len(All(program, source)) = counter /\ counter \in Nat
  <2>1. Ahead(z) = <<>>
    BY <1>2, BelowNone DEF Ahead
  <2>2. PICK done \in Seq(Items) : Len(done) = counter /\ All(program, source) = Both(done, <<>>)
    BY <1>1, <2>1 DEF Walk, Tally
  <2> QED BY <1>1, <2>2, BothOfNone DEF Walk
<1>4. \A r : Pending(z, r) = <<>>
  BY <1>2, BelowNone DEF Pending
<1>5. ASSUME NEW m \in 0 .. counter - 1
      PROVE  IF Omits(program, only, All(program, source)[m + 1].at) THEN <<source, m>> \notin DOMAIN table
             ELSE Ats(table, <<source, m>>) = Inner(All(program, source)[m + 1])
  <2>1. IF Omits(program, only, All(program, source)[m + 1].at) THEN <<source, m>> \notin DOMAIN table
        ELSE Both(Ats(table, <<source, m>>), Pending(z, <<source, m>>))
               = Inner(All(program, source)[m + 1])
    BY <1>1, <1>5, RecordedOf
  <2>2. Both(Ats(table, <<source, m>>), <<>>) = Ats(table, <<source, m>>)
    BY BothOfNone DEF Positions
  <2> QED BY <1>4, <2>1, <2>2
<1> QED BY <1>1, <1>3, <1>5 DEF Settled

\* Nothing is recorded before the driver runs; it settles one source after
\* the other.
ResolveInv ==
  /\ phase \in {"insert", "loaded"} => DOMAIN table = {}
  /\ phase = "resolve" =>
       /\ Positions(table) /\ \A r \in DOMAIN table : r \in Nat \X Nat /\ r[1] <= source
       /\ \A t \in 1 .. source - 1 : Settled(program, only, table, t)
       /\ source # 0 => \/ work = <<>> /\ Settled(program, only, table, source)
                        \/ \E z : DriverAt(z)
  /\ phase = "resolved" =>
       /\ Positions(table) /\ None \notin DOMAIN table
       /\ \A t \in DOMAIN program : Settled(program, only, table, t)

\* The driver is between two sources.
LEMMA DriverBetween ==
  ASSUME TypeInv, ResolveInv, phase = "resolve", work = <<>>, NEW t \in 1 .. source
  PROVE  Settled(program, only, table, t)
<1>1. source \in Nat /\ source # 0
  BY DEF TypeInv, TypeOK
<1>2. CASE t = source
  <2>1. Positions(table)
    BY DEF ResolveInv
  <2> QED BY <1>1, <1>2, <2>1, DriverEnds DEF ResolveInv
<1>3. CASE t # source
  BY <1>1, <1>3 DEF ResolveInv
<1> QED BY <1>2, <1>3

LEMMA DriverWalks ==
  ASSUME TypeInv, InternInv, ResolveInv, Resolving,
         SkipDecl \/ ConsumeDeclRef \/ WalkDeclaration \/ LeaveDeclaration \/ WalkName \/ WalkNode
  PROVE  /\ UNCHANGED <<phase, source, program, only>> /\ \E z : DriverAt(z)'
         /\ Positions(table)' /\ \A r \in DOMAIN table' : r \in DOMAIN table \/ r[1] = source
         /\ \A t, m : t # source => /\ <<t, m>> \in DOMAIN table' <=> <<t, m>> \in DOMAIN table
                                    /\ Ats(table', <<t, m>>) = Ats(table, <<t, m>>)
<1>1. phase = "resolve" /\ work # <<>> /\ source # 0 /\ Positions(table)
  BY DEF Resolving, TypeInv, WorkOK, ResolveInv
<1>2. PICK z : DriverAt(z)
  BY <1>1 DEF ResolveInv
<1>3. IsWalked(Head(work)) => Head(work) \in Items /\ Found(Head(work))
  <2> DEFINE R == Marked(Refs)
  <2>1. work \in Seq(R)
    BY <1>1 DEF TypeInv, WorkOK
  <2> HIDE DEF R
  <2>2. Head(work) \in Range(work)
    BY <1>1, <2>1, RangeOfRest
  <2>3. Occurrences \subseteq Items
    BY OccurrencesAre DEF TypeInv, StateOK
  <2> QED BY <1>1, <2>2, <2>3 DEF InternInv, Walkable
<1>4. UNCHANGED table => /\ Positions(table)' /\ \A r \in DOMAIN table' : r \in DOMAIN table
                         /\ \A t, m : /\ <<t, m>> \in DOMAIN table' <=> <<t, m>> \in DOMAIN table
                                      /\ Ats(table', <<t, m>>) = Ats(table, <<t, m>>)
  BY <1>1 DEF Positions
<1>5. CASE SkipDecl
  <2>1. UNCHANGED <<phase, source, program, only, table>> /\ IsWalked(Head(work))
    BY <1>5 DEF SkipDecl, envVars, driverVars
  <2>2. DriverAt(Past(z))'
    BY <1>1, <1>2, <1>3, <1>5, <2>1, DriverSkips
  <2> QED BY <1>4, <2>1, <2>2
<1>6. CASE ConsumeDeclRef
  <2>1. UNCHANGED <<phase, source, program, only, table>>
    BY <1>6 DEF ConsumeDeclRef, envVars
  <2>2. DriverAt(Over(z))'
    BY <1>1, <1>2, <1>6, DriverCounts
  <2> QED BY <1>4, <2>1, <2>2
<1>7. CASE WalkDeclaration
  <2>1. UNCHANGED <<phase, source, program, only, table>>
    BY <1>3, <1>7 DEF WalkDeclaration, envVars, Expect
  <2>2. \E y : DriverAt(y)'
    BY <1>1, <1>2, <1>7, DriverEnters
  <2> QED BY <1>4, <2>1, <2>2
<1>8. CASE LeaveDeclaration
  <2>1. UNCHANGED <<phase, source, program, only, table>>
    BY <1>8 DEF LeaveDeclaration, envVars
  <2>2. DriverAt(Tail(z))'
    BY <1>1, <1>2, <1>8, DriverLeaves
  <2> QED BY <1>4, <2>1, <2>2
<1>9. CASE WalkName
  <2>1. UNCHANGED <<phase, source, program, only>>
    BY <1>3, <1>9 DEF WalkName, Expect
  <2>2. ~IsDecl(Head(work).node)
    BY <1>3, <1>9, NamesAreNotDecls DEF WalkName
  <2> QED BY <1>1, <1>2, <1>9, <2>1, <2>2, DriverRecords
<1>10. CASE WalkNode
  <2>1. UNCHANGED <<phase, source, program, only, table>>
    BY <1>10 DEF WalkNode, envVars, driverVars
  <2>2. DriverAt(Down(z))'
    BY <1>1, <1>2, <1>10, DriverPasses
  <2> QED BY <1>4, <2>1, <2>2
<1> QED BY <1>5, <1>6, <1>7, <1>8, <1>9, <1>10

LEMMA DriverKeeps ==
  ASSUME TypeInv, InternInv, ResolveInv, DriverNext
  PROVE  ResolveInv'
<1>1. /\ source \in Nat /\ program \in Seq(Sources) /\ source \in 0 .. Len(program)
      /\ Len(program) \in Nat /\ DOMAIN program = 1 .. Len(program)
  <2>1. program \in Seq(Sources) /\ source \in 0 .. Len(program)
    BY ProgramsAssumption DEF TypeInv, StateOK, TypeOK
  <2> QED BY <2>1
<1>2. CASE \E f \in Filters : StartResolve(f)
  <2>1. phase' = "resolve" /\ source' = 0 /\ table' = table /\ DOMAIN table = {}
    BY <1>2 DEF StartResolve, ResolveInv
  <2>2. Positions(table)'
    BY <2>1 DEF Positions, Ats
  <2> QED BY <2>1, <2>2 DEF ResolveInv
<1>3. CASE SkipSource
  <2>1. /\ phase = "resolve" /\ work = <<>> /\ source' = source + 1
        /\ UNCHANGED <<phase, work, program, only, table>>
        /\ Disabled(program[source + 1].head)
    BY <1>3 DEF SkipSource, NextSource, envVars, driverVars
  <2>2. /\ Positions(table) /\ \A r \in DOMAIN table : r \in Nat \X Nat /\ r[1] <= source
    BY <2>1 DEF ResolveInv
  <2>3. \A t \in 1 .. source : Settled(program, only, table, t)
    BY <2>1, DriverBetween
  <2>4. Settled(program, only, table, source + 1)
    <3>1. \A m : <<source + 1, m>> \notin DOMAIN table
      BY <1>1, <2>2
    <3> QED BY <2>1, <3>1 DEF Settled
  <2>5. /\ Positions(table)' /\ \A r \in DOMAIN table' : r \in Nat \X Nat /\ r[1] <= source'
    <3>1. Positions(table)'
      BY <2>1, <2>2 DEF Positions
    <3> QED BY <1>1, <2>1, <2>2, <3>1
  <2>6. /\ \A t \in 1 .. source' - 1 : Settled(program', only', table', t)
        /\ Settled(program', only', table', source')
    BY <1>1, <2>1, <2>3, <2>4
  <2> QED BY <2>1, <2>5, <2>6 DEF ResolveInv
<1>4. CASE ResolveSource
  <2>1. /\ phase = "resolve" /\ work = <<>> /\ source' = source + 1
        /\ UNCHANGED <<phase, program, only, table>>
    BY <1>4 DEF ResolveSource, NextSource, Enter
  <2>2. /\ Positions(table) /\ \A r \in DOMAIN table : r \in Nat \X Nat /\ r[1] <= source
    BY <2>1 DEF ResolveInv
  <2>3. \A t \in 1 .. source : Settled(program, only, table, t)
    BY <2>1, DriverBetween
  <2>4. \E z : DriverAt(z)'
    BY <1>4, <2>2, DriverStarts
  <2>5. /\ Positions(table)' /\ \A r \in DOMAIN table' : r \in Nat \X Nat /\ r[1] <= source'
    <3>1. Positions(table)'
      BY <2>1, <2>2 DEF Positions
    <3> QED BY <1>1, <2>1, <2>2, <3>1
  <2>6. \A t \in 1 .. source' - 1 : Settled(program', only', table', t)
    BY <1>1, <2>1, <2>3
  <2> QED BY <2>1, <2>4, <2>5, <2>6 DEF ResolveInv
<1>5. CASE ResolveEnd
  <2>1. /\ phase = "resolve" /\ work = <<>> /\ source = Len(program) /\ phase' = "resolved"
        /\ UNCHANGED <<program, only, table>>
    BY <1>5 DEF ResolveEnd, envVars, driverVars
  <2>2. \A t \in 1 .. source : Settled(program, only, table, t)
    BY <2>1, DriverBetween
  <2>3. Positions(table)'
    BY <2>1 DEF ResolveInv, Positions
  <2>4. None \notin DOMAIN table
    BY <2>1, NoneAssumption DEF ResolveInv
  <2> QED BY <1>1, <2>1, <2>2, <2>3, <2>4 DEF ResolveInv
<1>6. CASE Resolving /\ (SkipDecl \/ ConsumeDeclRef \/ WalkDeclaration \/ LeaveDeclaration
                            \/ WalkName \/ WalkNode)
  <2>1. phase = "resolve"
    BY <1>6 DEF Resolving
  <2>2. /\ UNCHANGED <<phase, source, program, only>> /\ \E z : DriverAt(z)'
        /\ Positions(table)' /\ \A r \in DOMAIN table' : r \in DOMAIN table \/ r[1] = source
        /\ \A t, m : t # source => /\ <<t, m>> \in DOMAIN table' <=> <<t, m>> \in DOMAIN table
                                   /\ Ats(table', <<t, m>>) = Ats(table, <<t, m>>)
    BY <1>6, DriverWalks
  <2>3. /\ \A r \in DOMAIN table : r[1] <= source
        /\ \A t \in 1 .. source - 1 : Settled(program, only, table, t)
    BY <2>1 DEF ResolveInv
  <2>4. ASSUME NEW t \in 1 .. source - 1 PROVE Settled(program, only, table', t)
    <3>1. t # source /\ Settled(program, only, table, t)
      BY <1>1, <2>3
    <3> QED BY <2>2, <3>1, SettledStays
  <2>5. \A r \in DOMAIN table' : r \in Nat \X Nat /\ r[1] <= source
    <3>1. \A r \in DOMAIN table' : r[1] <= source
      BY <1>1, <2>2, <2>3
    <3>2. \A r \in DOMAIN table' : r \in Nat \X Nat
      <4>1. PICK z : DriverAt(z)'
        BY <2>2
      <4> QED BY <4>1 DEF DriverAt
    <3> QED BY <3>1, <3>2
  <2> QED BY <2>1, <2>2, <2>4, <2>5 DEF ResolveInv
<1> QED BY <1>2, <1>3, <1>4, <1>5, <1>6
           DEF DriverNext, SkipDecl, ConsumeDeclRef, WalkDeclaration, LeaveDeclaration, WalkName,
               WalkNode

-----------------------------------------------------------------------------
(* The materializer's stack.                                               *)

\* The slice of declaration o, when D are those that have one.
SliceOf(D, o) == IF o \in D THEN o ELSE None

\* For a declaration o that is due (in E), k entries of its slice are taken
\* and those that are left are for the names in q.
Reads(T, E, o, k, q) ==
  o \in E => \E taken \in Seq(Paths) : Len(taken) = k /\ Ats(T, o) = Both(taken, q)

\* The mark w saves the slice of o, and how far it is read.
Saves(T, D, E, z, w, o) ==
  \E k \in Nat : w = Leave([slice |-> SliceOf(D, o), cursor |-> k]) /\ Reads(T, E, o, k, Pending(z, o))

BuilderPairs(T, D, E, z) ==
  {m \in Marks(T) \X Cells :
     LET w == m[1]  e == m[2]
     IN  /\ e.k # "count"
         /\ e.k = "walk"  => w = e.it
         /\ e.k = "leave" => Saves(T, D, E, z, w, e.next)}

LEMMA BuilderPairIs ==
  ASSUME NEW T, NEW D, NEW E, NEW z, NEW w, NEW e \in Cells, <<w, e>> \in BuilderPairs(T, D, E, z)
  PROVE  /\ IsWalked(w) <=> e.k = "walk"
         /\ IsLeave(w) <=> e.k = "leave"
         /\ e.k # "count"
         /\ e.k = "walk"  => w = e.it
         /\ e.k = "leave" => Saves(T, D, E, z, w, e.next)
<1> DEFINE m == <<w, e>>
           C == Marks(T) \X Cells
<1>1. m[1] = w /\ m[2] = e /\ m \in C
  BY DEF BuilderPairs
<1>2. /\ e.k # "count"
      /\ e.k = "walk"  => w = e.it
      /\ e.k = "leave" => Saves(T, D, E, z, w, e.next)
  <2> HIDE DEF m, C
  <2> QED BY <1>1 DEF BuilderPairs, m
<1>3. e.k \in {"walk", "leave"} /\ e.it \in Items
  BY <1>2 DEF Cells
<1>4. \A x \in Items : DOMAIN x = {"node", "ctx", "at"}
  BY DEF Items
<1>5. \A x : DOMAIN Leave(x) = {"leave"}
  BY DEF Leave
<1> HIDE DEF m, C
<1>6. CASE e.k = "walk"
  BY <1>2, <1>3, <1>4, <1>6 DEF IsWalked, IsLeave
<1>7. CASE e.k = "leave"
  <2>1. DOMAIN w = {"leave"}
    BY <1>2, <1>5, <1>7 DEF Saves
  <2> QED BY <1>2, <1>7, <2>1 DEF IsWalked, IsLeave
<1> QED BY <1>3, <1>6, <1>7

LEMMA BuilderPairOf ==
  ASSUME NEW T, NEW D, NEW E, NEW z, NEW w \in Marks(T), NEW e \in Cells,
         e.k # "count",
         e.k = "walk"  => w = e.it,
         e.k = "leave" => Saves(T, D, E, z, w, e.next)
  PROVE  <<w, e>> \in BuilderPairs(T, D, E, z)
<1> DEFINE m == <<w, e>>
<1>1. m[1] = w /\ m[2] = e /\ m \in Marks(T) \X Cells
  OBVIOUS
<1>2. m \in BuilderPairs(T, D, E, z)
  <2> HIDE DEF m
  <2> QED BY <1>1 DEF BuilderPairs
<1> QED BY <1>2

(* What is saved on a stack stays right as long as the same names are to   *)
(* come for the declarations it is saved for.                              *)
LEMMA SavedStays ==
  ASSUME NEW T, NEW D, NEW E, NEW x, NEW y, NEW w, NEW z \in Seq(Cells),
         Stands(w, z, BuilderPairs(T, D, E, x)),
         \A i \in DOMAIN z : z[i].k = "leave" => Pending(y, z[i].next) = Pending(x, z[i].next)
  PROVE  Stands(w, z, BuilderPairs(T, D, E, y))
<1>1. ASSUME NEW i \in DOMAIN z PROVE <<w[i], z[i]>> \in BuilderPairs(T, D, E, y)
  <2> DEFINE v == w[i]
             e == z[i]
  <2>1. <<v, e>> \in BuilderPairs(T, D, E, x) /\ e \in Cells
    BY DEF Stands
  <2>2. e.k = "leave" => Pending(y, e.next) = Pending(x, e.next)
    OBVIOUS
  <2> HIDE DEF v, e
  <2>3. v \in Marks(T)
    BY <2>1 DEF BuilderPairs
  <2>4. /\ e.k # "count"
        /\ e.k = "walk"  => v = e.it
        /\ e.k = "leave" => Saves(T, D, E, x, v, e.next)
    BY <2>1, BuilderPairIs
  <2>5. e.k = "leave" => Saves(T, D, E, y, v, e.next)
    BY <2>2, <2>4 DEF Saves
  <2>6. <<v, e>> \in BuilderPairs(T, D, E, y)
    BY <2>1, <2>3, <2>4, <2>5, BuilderPairOf
  <2> QED BY <2>6 DEF v, e
<1> QED BY <1>1 DEF Stands

(* Items stand for themselves. *)
LEMMA ItemsStand ==
  ASSUME NEW T, NEW D, NEW E, NEW z, NEW s \in Seq(Items), NEW o \in Owners
  PROVE  Stands(s, WalkOver(s, o), BuilderPairs(T, D, E, z))
<1>1. ASSUME NEW x \in Items PROVE <<x, Walked(x, o)>> \in BuilderPairs(T, D, E, z)
  <2>1. Walked(x, o) \in Cells /\ Walked(x, o).k = "walk" /\ Walked(x, o).it = x /\ x \in Marks(T)
    BY DEF Walked, Cells, Marks
  <2> QED BY <2>1, BuilderPairOf
<1> QED BY <1>1, StandsOver

(* Nothing is saved for the declaration that is current, or for one that   *)
(* is still to come.                                                       *)
LEMMA SavedForOthers ==
  ASSUME NEW p, NEW s, NEW z, NEW L, NEW c, Walk(p, s, z, L, c),
         NEW i \in DOMAIN z, z[i].k = "leave"
  PROVE  z[i].next # L /\ z[i].next # <<s, c>>
<1>1. z \in Seq(PlacedCells(p, s, c)) /\ c \in Nat /\ Chain(z, L)
  BY DEF Walk
<1>2. z[i] \in PlacedCells(p, s, c)
  BY <1>1
<1>3. Rank(z[i].own) \in Nat /\ Rank(z[i].own) <= Rank(L) /\ Rank(z[i].next) \in Nat
  BY <1>1, Descends
<1>4. Rank(z[i].next) < Rank(z[i].own)
  BY <1>2 DEF PlacedCells
<1>5. Rank(z[i].next) # Rank(L)
  <2>1. Rank(L) \in Nat
    <3>1. z # <<>>
      BY <1>1
    <3>2. L = z[1].own /\ 1 \in DOMAIN z
      BY <1>1, <3>1 DEF Chain
    <3> QED BY <1>1, <3>2, Descends
  <2> QED BY <1>3, <1>4, <2>1
<1>6. z[i].next # <<s, c>>
  <2>1. Around(p, s, c, z[i].it.at, z[i].next)
    BY <1>2 DEF PlacedCells
  <2>2. CASE z[i].next = None
    <3>1. p \in Seq(Sources) /\ s \in DOMAIN p
      BY ProgramsAssumption DEF Walk
    <3>2. <<s, c>> \in Nat \X Nat
      BY <1>1, <3>1
    <3> QED BY <2>2, <3>2, NoneAssumption
  <2>3. CASE z[i].next # None
    BY <1>1, <2>1, <2>3 DEF Around
  <2> QED BY <2>2, <2>3
<1> QED BY <1>5, <1>6

LEMMA WalkedSome ==
  ASSUME NEW p, NEW s, NEW z, NEW L, NEW c, Walk(p, s, z, L, c)
  PROVE  Len(All(p, s)) \in Nat /\ c <= Len(All(p, s)) /\ c \in Nat
<1>1. PICK done \in Seq(Items) : Len(done) = c /\ All(p, s) = Both(done, Ahead(z))
  BY DEF Walk, Tally
<1>2. Ahead(z) \in Seq(Items)
  <2>1. z \in Seq(Cells)
    BY PlacedAreCells DEF Walk
  <2> QED BY <2>1, AheadIsItems
<1> DEFINE a == Ahead(z)
<1> HIDE DEF a
<1>3. a \in Seq(Items)
  BY <1>2 DEF a
<1>4. Len(Both(done, a)) = Len(done) + Len(a) /\ Len(a) \in Nat /\ Len(done) \in Nat
  BY <1>1, <1>3 DEF Both
<1>5. All(p, s) = Both(done, a) /\ c \in Nat
  BY <1>1, <1>4 DEF a
<1> QED BY <1>1, <1>4, <1>5

-----------------------------------------------------------------------------
(* The materializer in a source.                                           *)

\* The declarations that have a slice, and those that are due one.
Attached == IF attached THEN DOMAIN table ELSE {}

Due ==
  {r \in Nat \X Nat :
     /\ attached /\ r[1] = source /\ ~Disabled(program[source].head)
     /\ ~Omits(program, only, All(program, source)[r[2] + 1].at)}

\* The resolution that is attached is complete.
Complete ==
  attached => /\ Positions(table) /\ None \notin DOMAIN table
              /\ \A t \in DOMAIN program : Settled(program, only, table, t)

\* z is the materializer's stack with owners, L the current declaration.
BuilderAt(z, L) ==
  /\ Walk(program, source, z, L, index)
  /\ Stands(work, z, BuilderPairs(table, Attached, Due, z))
  /\ slice = SliceOf(Attached, L)
  /\ Reads(table, Due, L, cursor, Pending(z, L))

(* A slice is there exactly where one is due and has entries. *)
LEMMA SliceWhereDue ==
  ASSUME TypeInv, Complete, source # 0, NEW m \in 0 .. Len(All(program, source)) - 1
  PROVE  /\ <<source, m>> \in Due => Ats(table, <<source, m>>) = Inner(All(program, source)[m + 1])
         /\ <<source, m>> \notin Due => <<source, m>> \notin Attached
         /\ None \notin Due /\ None \notin Attached
<1> DEFINE r == <<source, m>>
           head == program[source].head
           at == All(program, source)[m + 1].at
<1>1. source \in DOMAIN program /\ source \in Nat
  <2>1. program \in Seq(Sources) /\ source \in 0 .. Len(program)
    BY ProgramsAssumption DEF TypeInv, StateOK, TypeOK
  <2> QED BY <2>1
<1>2. r \in Nat \X Nat /\ r[1] = source /\ r[2] = m
  BY <1>1
<1>3. r \in Due <=> attached /\ ~Disabled(head) /\ ~Omits(program, only, at)
  <2> HIDE DEF r
  <2> QED BY <1>2 DEF Due
<1>4. None \notin Due
  BY NoneAssumption DEF Due
<1>5. None \notin Attached
  BY DEF Complete, Attached
<1>6. CASE ~attached
  BY <1>3, <1>4, <1>5, <1>6 DEF Attached
<1>7. CASE attached
  <2>1. Settled(program, only, table, source)
    BY <1>1, <1>7 DEF Complete
  <2>2. IF Disabled(head) \/ Omits(program, only, at) THEN r \notin DOMAIN table
        ELSE Ats(table, r) = Inner(All(program, source)[m + 1])
    BY <2>1 DEF Settled
  <2> QED BY <1>3, <1>4, <1>5, <1>7, <2>2 DEF Attached
<1> QED BY <1>6, <1>7

LEMMA BuilderHead ==
  ASSUME TypeInv, phase = "materialize", work # <<>>, NEW z, NEW L, BuilderAt(z, L)
  PROVE  /\ z # <<>> /\ z \in Seq(Cells) /\ Tail(z) \in Seq(Cells) /\ Head(z) \in Cells
         /\ work \in Seq(Marks(table)) /\ Tail(work) \in Seq(Marks(table)) /\ Head(work) \in Marks(table)
         /\ Items \subseteq Marks(table)
         /\ Stands(Tail(work), Tail(z), BuilderPairs(table, Attached, Due, z))
         /\ Head(z).k \in {"walk", "leave"}
         /\ IsWalked(Head(work)) <=> Head(z).k = "walk"
         /\ IsLeave(Head(work)) <=> Head(z).k = "leave"
         /\ Head(z).k = "walk"  => Head(work) = Head(z).it
         /\ Head(z).k = "leave" => Saves(table, Attached, Due, z, Head(work), Head(z).next)
<1> DEFINE M == BuilderPairs(table, Attached, Due, z)
           R == Marks(table)
<1>1. work \in Seq(R) /\ Items \subseteq R
  BY DEF TypeInv, WorkOK, Marks
<1>2. z \in Seq(Cells)
  BY PlacedAreCells DEF BuilderAt, Walk
<1>3. Stands(work, z, M)
  BY DEF BuilderAt
<1> HIDE DEF M, R
<1>4. z # <<>>
  BY <1>1, <1>2, <1>3, StandsNone
<1>5. <<Head(work), Head(z)>> \in M /\ Stands(Tail(work), Tail(z), M) /\ Tail(work) \in Seq(R)
      /\ Head(work) \in R
  BY <1>1, <1>2, <1>3, <1>4, StandsFirst
<1>6. Head(z) \in Cells /\ Tail(z) \in Seq(Cells)
  BY <1>2, <1>4
<1>7. /\ IsWalked(Head(work)) <=> Head(z).k = "walk"
      /\ IsLeave(Head(work)) <=> Head(z).k = "leave"
      /\ Head(z).k # "count"
      /\ Head(z).k = "walk"  => Head(work) = Head(z).it
      /\ Head(z).k = "leave" => Saves(table, Attached, Due, z, Head(work), Head(z).next)
  BY <1>5, <1>6, BuilderPairIs DEF M
<1>8. Head(z).k \in {"walk", "leave"}
  BY <1>6, <1>7 DEF Cells
<1> QED BY <1>1, <1>2, <1>4, <1>5, <1>6, <1>7, <1>8 DEF M, R

(* What is saved behind the head is right for the new stack, too. *)
LEMMA SavedBehind ==
  ASSUME NEW p, NEW s, NEW z, NEW L, NEW c, Walk(p, s, z, L, c), z # <<>>,
         NEW T, NEW D, NEW E, NEW w, Stands(w, Tail(z), BuilderPairs(T, D, E, z)),
         NEW y, \A r : r # L /\ r # <<s, c>> => Pending(y, r) = Pending(z, r)
  PROVE  Stands(w, Tail(z), BuilderPairs(T, D, E, y))
<1> DEFINE t == Tail(z)
<1>1. t \in Seq(Cells) /\ z \in Seq(Cells)
  BY WalkHead
<1>2. ASSUME NEW i \in DOMAIN t, t[i].k = "leave" PROVE Pending(y, t[i].next) = Pending(z, t[i].next)
  <2>1. PICK j : j = i + 1
    OBVIOUS
  <2>2. j \in DOMAIN z /\ z[j] = t[i]
    BY <1>1, <2>1
  <2>3. z[j].k = "leave"
    BY <1>2, <2>2
  <2>4. z[j].next # L /\ z[j].next # <<s, c>>
    BY <2>2, <2>3, SavedForOthers
  <2> QED BY <2>2, <2>4
<1> HIDE DEF t
<1>3. Stands(w, t, BuilderPairs(T, D, E, z))
  BY DEF t
<1>4. Stands(w, t, BuilderPairs(T, D, E, y))
  BY <1>1, <1>2, <1>3, SavedStays
<1> QED BY <1>4 DEF t

(* The children of a node take its place. *)
LEMMA BuilderDescends ==
  ASSUME NoSingletonArgs, TypeInv, phase = "materialize", work # <<>>, NEW z, NEW L, BuilderAt(z, L),
         IsWalked(Head(work)), ~IsDecl(Head(work).node), Descend(MaterializerOrder)
  PROVE  /\ Walk(program, source, Down(z), L, index) /\ L # None
         /\ Stands(work', Down(z), BuilderPairs(table, Attached, Due, Down(z)))
<1> DEFINE x == Head(z).it
           ch == Children(x, InsertOrder)
           y == Down(z)
           M == BuilderPairs(table, Attached, Due, y)
           o == Head(z).own
           R == Marks(table)
           w == Tail(work)
           t == Tail(z)
<1>1. /\ t \in Seq(Cells) /\ z # <<>> /\ Head(z) \in Cells
      /\ w \in Seq(R) /\ Items \subseteq R
      /\ Stands(w, t, BuilderPairs(table, Attached, Due, z))
      /\ Head(z).k = "walk" /\ Head(work) = x
  BY BuilderHead
<1>2. Walk(program, source, z, L, index)
  BY DEF BuilderAt
<1>3. Walk(program, source, y, L, index) /\ L # None
  BY <1>1, <1>2, WalkDown
<1>4. x \in Items /\ o \in Owners
  BY <1>1, <1>2, WalkHead DEF Cells
<1>5. ch \in Seq(Items) /\ WalkOver(ch, o) \in Seq(Cells)
  <2>1. ch \in Seq(Items)
    BY <1>4, ChildrenAreItems, InsertOrderIsOrder
  <2> QED BY <1>4, <2>1, WalkOverIs
<1>6. work' = ch \o w
  <2>1. Children(x, MaterializerOrder) = ch
    BY <1>4, SameChildren
  <2> QED BY <1>1, <2>1 DEF Descend
<1>7. Stands(ch, WalkOver(ch, o), M)
  <2> HIDE DEF ch, o, y
  <2> QED BY <1>4, <1>5, ItemsStand
<1>8. \A r : r # L => Pending(y, r) = Pending(z, r)
  BY <1>1, <1>2, PendingDown
<1>9. Stands(w, t, M)
  <2> HIDE DEF w, y
  <2> QED BY <1>1, <1>2, <1>8, SavedBehind
<1>10. ch \in Seq(R)
  BY <1>1, <1>5, SeqMonotonic
<1>11. y = Both(WalkOver(ch, o), t)
  BY DEF Down
<1> HIDE DEF ch, M, R, o, w, t, y
<1>12. Stands(ch \o w, Both(WalkOver(ch, o), t), M)
  BY <1>1, <1>5, <1>7, <1>9, <1>10, StandsBoth
<1> QED BY <1>3, <1>6, <1>11, <1>12 DEF M, y

(* What is read stays the same, so does what is due. *)
LEMMA BuilderNext ==
  ASSUME UNCHANGED <<program, source, only, table, attached>>, NEW y, NEW L,
         Walk(program, source, y, L, index'),
         Stands(work', y, BuilderPairs(table, Attached, Due, y)),
         slice' = SliceOf(Attached, L), Reads(table, Due, L, cursor', Pending(y, L))
  PROVE  BuilderAt(y, L)'
<1>1. Attached' = Attached
  BY DEF Attached
<1>2. Due' = Due
  BY DEF Due
<1>3. (Walk(program, source, y, L, index))'
  OBVIOUS
<1>4. (Stands(work, y, BuilderPairs(table, Attached, Due, y)))'
  BY <1>1, <1>2
<1>5. (slice = SliceOf(Attached, L) /\ Reads(table, Due, L, cursor, Pending(y, L)))'
  BY <1>1, <1>2
<1> QED BY <1>3, <1>4, <1>5 DEF BuilderAt

(* The number of the current declaration. *)
LEMMA BuilderIn ==
  ASSUME TypeInv, NEW z, NEW L, BuilderAt(z, L), z # <<>>, L # None
  PROVE  \E m \in 0 .. index - 1 :
           /\ L = <<source, m>> /\ m \in 0 .. Len(All(program, source)) - 1
           /\ TopOf(All(program, source)[m + 1].at) = TopOf(Head(z).it.at)
<1>1. Walk(program, source, z, L, index)
  BY DEF BuilderAt
<1>2. Head(z) \in PlacedCells(program, source, index) /\ Head(z).own = L
  BY <1>1, WalkHead
<1>3. Around(program, source, index, Head(z).it.at, L)
  BY <1>2 DEF PlacedCells
<1>4. Len(All(program, source)) \in Nat /\ index <= Len(All(program, source)) /\ index \in Nat
  BY <1>1, WalkedSome
<1> QED BY <1>3, <1>4 DEF Around

LEMMA OneMore ==
  ASSUME NEW T, NEW s \in Seq(T), NEW x \in T
  PROVE  /\ Both(s, <<x>>) \in Seq(T) /\ Len(Both(s, <<x>>)) = Len(s) + 1
         /\ Both(s, <<x>>)[Len(s) + 1] = x
BY DEF Both

(* The name that is next takes the entry that was recorded for it. *)
LEMMA BuilderTakes ==
  ASSUME NoSingletonArgs, TypeInv, Complete, source # 0, work # <<>>, NEW z, NEW L, BuilderAt(z, L),
         MaterializeName, UNCHANGED driverVars, ~IsDecl(Head(work).node)
  PROVE  /\ BuilderAt(Down(z), L)' /\ L # None
         /\ ~made'.own /\ made'.at[1] = source
         /\ made'.entry # NoEntry => made'.entry.at = made'.at
         /\ attached => (made'.entry = NoEntry <=> \/ Disabled(program[source].head)
                                                   \/ Omits(program, only, made'.at))
<1> DEFINE item == Head(work)
           entry == Pull(item)
<1>1. /\ phase = "materialize" /\ IsWalked(item) /\ item.node.k \in NameKinds
      /\ UNCHANGED <<program, source, only, table, attached, index, slice>>
      /\ Descend(MaterializerOrder)
      /\ made' = [at |-> item.at, own |-> FALSE, entry |-> entry,
                  name |-> IF entry = NoEntry THEN item.node.name ELSE entry.name]
      /\ cursor' = IF entry = NoEntry THEN cursor ELSE cursor + 1
  <2>1. /\ phase = "materialize" /\ IsWalked(item) /\ item.node.k \in NameKinds
        /\ UNCHANGED <<program, source, only, table, attached, index, slice>>
        /\ Descend(MaterializerOrder)
    BY DEF MaterializeName, Building, envVars, driverVars
  <2>2. /\ made' = [at |-> item.at, own |-> FALSE, entry |-> entry,
                    name |-> IF entry = NoEntry THEN item.node.name ELSE entry.name]
        /\ cursor' = IF entry = NoEntry THEN cursor ELSE cursor + 1
    BY DEF MaterializeName
  <2> QED BY <2>1, <2>2
<1> DEFINE y == Down(z)
<1>2. /\ Walk(program, source, y, L, index) /\ L # None
      /\ Stands(work', y, BuilderPairs(table, Attached, Due, y))
  BY <1>1, BuilderDescends
<1>3. /\ z # <<>> /\ Head(z).k = "walk" /\ item = Head(z).it /\ item \in Items
      /\ item \in PlacedItems(program, source) /\ Walk(program, source, z, L, index)
  <2>1. z # <<>> /\ Head(z).k = "walk" /\ item = Head(z).it
    BY <1>1, BuilderHead
  <2>2. Walk(program, source, z, L, index)
    BY DEF BuilderAt
  <2> QED BY <2>1, <2>2, WalkHead
<1>4. PICK m \in 0 .. index - 1 : /\ L = <<source, m>> /\ m \in 0 .. Len(All(program, source)) - 1
                                  /\ TopOf(All(program, source)[m + 1].at) = TopOf(item.at)
  BY <1>2, <1>3, BuilderIn
<1>5. /\ Pending(z, L) = Both(<<item.at>>, Pending(y, L)) /\ Pending(y, L) \in Seq(Paths)
      /\ item.at \in Paths
  <2>1. NameHere[item] = <<item.at>>
    BY <1>1, <1>3, NameHereIs
  <2>2. Pending(z, L) = Both(NameHere[item], Pending(y, L)) /\ Pending(y, L) \in Seq(Paths)
    BY <1>3, PendingDown
  <2>3. item.at \in Paths
    BY <1>3 DEF Items, Paths
  <2> QED BY <2>1, <2>2, <2>3
<1>6. slice = SliceOf(Attached, L) /\ Reads(table, Due, L, cursor, Pending(z, L))
  BY DEF BuilderAt
<1>7. /\ None \notin Due /\ None \notin Attached
      /\ L \notin Due => L \notin Attached
  BY <1>4, SliceWhereDue
<1>8. L \in Due <=> attached /\ ~Disabled(program[source].head) /\ ~Omits(program, only, item.at)
  <2>1. L \in Nat \X Nat /\ L[1] = source /\ L[2] = m
    BY <1>4 DEF TypeInv, TypeOK
  <2>2. L \in Due <=> attached /\ ~Disabled(program[source].head)
                        /\ ~Omits(program, only, All(program, source)[m + 1].at)
    BY <2>1 DEF Due
  <2> QED BY <1>4, <2>2, OmitsKin
<1>9. item.at # <<>> /\ item.at[1] = source
  BY <1>3 DEF PlacedItems, Items
<1>10. NoEntry.at = <<>>
  BY DEF NoEntry
<1> HIDE DEF y
<1>11. CASE L \notin Due
  <2>1. slice = None /\ slice' = None
    BY <1>1, <1>6, <1>7, <1>11 DEF SliceOf
  <2>2. entry = NoEntry
    BY <2>1 DEF Pull
  <2>3. cursor' = cursor /\ Reads(table, Due, L, cursor', Pending(y, L))
    BY <1>1, <1>11, <2>2 DEF Reads
  <2>4. BuilderAt(y, L)'
    BY <1>1, <1>2, <1>6, <2>3, BuilderNext
  <2>5. /\ made'.own = FALSE /\ made'.at = item.at /\ made'.entry = NoEntry
    BY <1>1, <2>2
  <2> QED BY <1>2, <1>8, <1>9, <1>11, <2>4, <2>5 DEF y
<1>12. CASE L \in Due
  <2> DEFINE o == <<item.at>>
             a == Ats(table, L)
             q == Pending(y, L)
  <2>1. PICK taken \in Seq(Paths) : Len(taken) = cursor /\ a = Both(taken, Pending(z, L))
    BY <1>6, <1>12 DEF Reads
  <2>2. /\ o \in Seq(Paths) /\ q \in Seq(Paths) /\ Pending(z, L) = Both(o, q)
        /\ Len(o) = 1 /\ o[1] = item.at /\ o # <<>>
    BY <1>5
  <2> DEFINE k == cursor + 1
  <2>3. cursor \in Nat /\ k \in Nat
    BY DEF TypeInv, StateOK
  <2> HIDE DEF o, q, a
  <2>4. a = Both(Both(taken, o), q)
    BY <2>1, <2>2, BothAssociates
  <2>5. Both(taken, o) \in Seq(Paths) /\ Len(Both(taken, o)) = k /\ Both(taken, o)[k] = item.at
    <3> DEFINE at == item.at
    <3>1. o = <<at>> /\ at \in Paths
      BY <1>5 DEF o
    <3> HIDE DEF at
    <3>2. /\ Both(taken, o) \in Seq(Paths) /\ Len(Both(taken, o)) = Len(taken) + 1
          /\ Both(taken, o)[Len(taken) + 1] = at
      BY <2>1, <3>1, OneMore
    <3> QED BY <2>1, <3>2 DEF at
  <2> DEFINE b == Both(taken, o)
  <2> HIDE DEF b, item
  <2>6. k <= Len(a) /\ a[k] = item.at /\ a \in Seq(Paths) /\ Len(a) \in Nat
    BY <2>2, <2>3, <2>4, <2>5 DEF b, Both
  <2>7. L \in DOMAIN table /\ DOMAIN a = DOMAIN table[L] /\ \A i \in DOMAIN a : a[i] = table[L][i].at
    <3>1. L \in DOMAIN table
      BY <2>3, <2>6 DEF a, Ats
    <3>2. a = [i \in DOMAIN table[L] |-> table[L][i].at]
      BY <3>1 DEF a, Ats
    <3> QED BY <3>1, <3>2
  <2>8. Len(table[L]) = Len(a)
    <3>1. PICK S : table[L] \in Seq(S)
      BY <2>7 DEF TypeInv, StateOK, IsTable
    <3> QED BY <2>6, <2>7, <3>1
  <2>9. slice = L /\ cursor < Len(table[slice]) /\ slice # None
    <3>1. L \in Attached
      BY <1>8, <1>12, <2>7 DEF Attached, item
    <3>2. slice = L /\ slice # None
      BY <1>2, <1>6, <3>1 DEF SliceOf
    <3>3. cursor < Len(a)
      BY <2>3, <2>6
    <3> QED BY <2>8, <3>2, <3>3
  <2>10. entry = table[L][k] /\ k \in DOMAIN a
    BY <2>3, <2>6, <2>9 DEF Pull
  <2>11. entry.at = item.at
    BY <2>6, <2>7, <2>10
  <2>12. entry # NoEntry
    BY <1>9, <1>10, <2>11 DEF item
  <2>13. cursor' = k
    BY <1>1, <2>12
  <2>14. Reads(table, Due, L, cursor', Pending(y, L))
    BY <2>4, <2>5, <2>13 DEF Reads, a, q
  <2>15. BuilderAt(y, L)'
    BY <1>1, <1>2, <1>6, <2>14, BuilderNext
  <2> HIDE DEF entry
  <2>16. made'.own = FALSE /\ made'.at = item.at /\ made'.entry = entry
    BY <1>1 DEF item
  <2> QED BY <1>2, <1>8, <1>9, <1>12, <2>11, <2>12, <2>15, <2>16 DEF y, item
<1> QED BY <1>11, <1>12
(* A node that is no name takes no entry. *)
LEMMA BuilderPasses ==
  ASSUME NoSingletonArgs, TypeInv, work # <<>>, NEW z, NEW L, BuilderAt(z, L),
         MaterializeNode, UNCHANGED driverVars
  PROVE  BuilderAt(Down(z), L)' /\ L # None /\ made' = made
<1>1. /\ phase = "materialize" /\ IsWalked(Head(work)) /\ Head(work).node.k \notin NameKinds
      /\ ~IsDecl(Head(work).node)
      /\ UNCHANGED <<program, source, only, table, attached, index, slice, cursor, made>>
      /\ Descend(MaterializerOrder)
  BY DEF MaterializeNode, Building, envVars, driverVars, materializerVars
<1> DEFINE y == Down(z)
<1>2. /\ Walk(program, source, y, L, index) /\ L # None
      /\ Stands(work', y, BuilderPairs(table, Attached, Due, y))
  BY <1>1, BuilderDescends
<1>3. /\ z # <<>> /\ Head(z).k = "walk" /\ Head(work) = Head(z).it /\ Head(z).it \in Items
      /\ Walk(program, source, z, L, index)
  <2>1. z # <<>> /\ Head(z).k = "walk" /\ Head(work) = Head(z).it
    BY <1>1, BuilderHead
  <2>2. Walk(program, source, z, L, index)
    BY DEF BuilderAt
  <2> QED BY <2>1, <2>2, WalkHead
<1>4. Pending(y, L) = Pending(z, L)
  <2>1. NameHere[Head(z).it] = <<>>
    BY <1>1, <1>3, NameHereIs
  <2>2. Pending(z, L) = Both(NameHere[Head(z).it], Pending(y, L)) /\ Pending(y, L) \in Seq(Paths)
    BY <1>1, <1>3, PendingDown
  <2> QED BY <2>1, <2>2, BothOfNone
<1>5. slice = SliceOf(Attached, L) /\ Reads(table, Due, L, cursor, Pending(z, L))
  BY DEF BuilderAt
<1> HIDE DEF y
<1>6. BuilderAt(y, L)'
  BY <1>1, <1>2, <1>4, <1>5, BuilderNext
<1> QED BY <1>1, <1>2, <1>6 DEF y

(* A declaration is entered: its slice is read from the start, and how far *)
(* that of the enclosing one is read is saved.                             *)
LEMMA BuilderEnters ==
  ASSUME NoSingletonArgs, TypeInv, Complete, source # 0, work # <<>>, NEW z, NEW L, BuilderAt(z, L),
         MaterializeDecl, UNCHANGED driverVars, Found(Head(work))
  PROVE  /\ \E y, r : r # None /\ BuilderAt(y, r)'
         /\ made'.own /\ made'.at[1] = source /\ made'.entry = NoEntry
<1>1. PICK s, c : s = source /\ c = index
  OBVIOUS
<1> DEFINE x == Head(z).it
           n == Head(z).own
           o == <<s, c>>
           ch == Children(x, InsertOrder)
           y == Into(z, s, c)
           M == BuilderPairs(table, Attached, Due, y)
           R == Marks(table)
           w == Tail(work)
           t == Tail(z)
           e == Left(x, o, n)
           l == Leave([slice |-> slice, cursor |-> cursor])
<1>2. /\ phase = "materialize" /\ IsWalked(Head(work)) /\ IsDecl(Head(work).node)
      /\ UNCHANGED <<program, source, only, table, attached>>
      /\ work' = Children(Head(work), MaterializerOrder) \o <<l>> \o w
      /\ made' = [at |-> Head(work).at, own |-> TRUE, entry |-> NoEntry,
                  name |-> IF Head(work).node.k = "global" THEN None ELSE OwnName(Head(work))]
      /\ slice' = SliceOf(Attached, o) /\ cursor' = 0 /\ index' = c + 1
  <2>1. /\ phase = "materialize" /\ IsWalked(Head(work)) /\ IsDecl(Head(work).node)
        /\ UNCHANGED <<program, source, only, table, attached>> /\ index' = c + 1
    BY <1>1 DEF MaterializeDecl, Building, envVars, driverVars
  <2>2. /\ work' = Children(Head(work), MaterializerOrder) \o <<l>> \o w
        /\ made' = [at |-> Head(work).at, own |-> TRUE, entry |-> NoEntry,
                    name |-> IF Head(work).node.k = "global" THEN None ELSE OwnName(Head(work))]
    BY DEF MaterializeDecl
  <2>3. slice' = (IF attached /\ o \in DOMAIN table THEN o ELSE None) /\ cursor' = 0
    BY <1>1 DEF MaterializeDecl, EnterDecl, DeclRef
  <2>4. slice' = SliceOf(Attached, o)
    <3> HIDE DEF o
    <3> QED BY <2>3 DEF SliceOf, Attached
  <2> QED BY <2>1, <2>2, <2>3, <2>4
<1>3. /\ z # <<>> /\ Head(z).k = "walk" /\ Head(work) = x /\ Head(z) \in Cells /\ t \in Seq(Cells)
      /\ w \in Seq(R) /\ Items \subseteq R
      /\ Stands(w, t, BuilderPairs(table, Attached, Due, z))
  BY <1>2, BuilderHead
<1>4. Walk(program, s, z, L, c) /\ s \in Nat /\ c \in Nat /\ n = L
  <2>1. Walk(program, s, z, L, c)
    BY <1>1 DEF BuilderAt
  <2>2. s \in Nat /\ c \in Nat
    BY <1>1, <2>1 DEF Walk, TypeInv, TypeOK
  <2> QED BY <1>3, <2>1, <2>2, WalkHead
<1>5. Walk(program, s, y, o, c + 1) /\ All(program, s)[c + 1] = x
  BY <1>2, <1>3, <1>4, WalkInto
<1>6. /\ x \in Items /\ x \in PlacedItems(program, s) /\ n \in Owners /\ n # o
      /\ o \in Owners /\ o # None
  <2>1. x \in Items /\ x \in PlacedItems(program, s) /\ n \in Owners /\ Around(program, s, c, x.at, n)
    BY <1>3, <1>4, WalkHead DEF Cells, PlacedCells
  <2>2. o \in Owners /\ o # None
    BY <1>4, NoneAssumption DEF Owners
  <2>3. n # o
    BY <1>4, <2>1, <2>2 DEF Around
  <2> QED BY <2>1, <2>2, <2>3
<1>7. \A r : Pending(y, r) = IF r = o THEN Inner(x) ELSE Pending(z, r)
  <2> HIDE DEF x, y, o
  <2> QED BY <1>2, <1>3, <1>4, PendingInto DEF x, y, o
<1>8. slice = SliceOf(Attached, L) /\ Reads(table, Due, L, cursor, Pending(z, L))
  BY DEF BuilderAt
<1>9. <<l, e>> \in M /\ e \in Cells /\ l \in R
  <2>1. e \in Cells /\ e.k = "leave" /\ e.next = L
    BY <1>4, <1>6 DEF Left, Cells
  <2>2. l \in R
    <3>1. [slice |-> slice, cursor |-> cursor] \in Saved(table)
      BY DEF TypeInv, TypeOK, StateOK, Saved
    <3> QED BY <3>1 DEF Leave, Marks
  <2>3. Pending(y, L) = Pending(z, L)
    BY <1>4, <1>6, <1>7
  <2> HIDE DEF y, e
  <2>4. Saves(table, Attached, Due, y, l, L)
    <3>1. cursor \in Nat
      BY DEF TypeInv, StateOK
    <3> QED BY <1>8, <2>3, <3>1 DEF Saves
  <2> HIDE DEF l
  <2> QED BY <2>1, <2>2, <2>4, BuilderPairOf
<1>10. ch \in Seq(Items) /\ WalkOver(ch, o) \in Seq(Cells) /\ ch \in Seq(R)
  <2>1. ch \in Seq(Items)
    BY <1>6, ChildrenAreItems, InsertOrderIsOrder
  <2>2. WalkOver(ch, o) \in Seq(Cells)
    BY <1>6, <2>1, WalkOverIs
  <2> HIDE DEF R, ch
  <2> QED BY <1>3, <2>1, <2>2, SeqMonotonic
<1>11. Stands(ch, WalkOver(ch, o), M)
  <2> HIDE DEF ch, o, y
  <2> QED BY <1>6, <1>10, ItemsStand
<1>12. Stands(w, t, M)
  <2>1. \A r : r # L /\ r # <<s, c>> => Pending(y, r) = Pending(z, r)
    BY <1>7
  <2> HIDE DEF w, y
  <2> QED BY <1>3, <1>4, <2>1, SavedBehind
<1>13. work' = (ch \o <<l>>) \o w
  <2>1. Children(x, MaterializerOrder) = ch
    BY <1>6, SameChildren
  <2> QED BY <1>2, <1>3, <2>1
<1> DEFINE u == <<e>>
           v == <<l>>
           a == WalkOver(ch, o)
<1>14. y = Both(a, Both(u, t))
  BY DEF Into
<1> HIDE DEF e, l, M, R, w, t, ch, a, y
<1>15. u \in Seq(Cells) /\ v \in Seq(R) /\ Stands(v, u, M)
  BY <1>9, StandsOne
<1>16. work' = ch \o (v \o w)
  <2> HIDE DEF v
  <2>1. ch \in Seq(R) /\ v \in Seq(R) /\ w \in Seq(R)
    BY <1>3, <1>10, <1>15
  <2>2. (ch \o v) \o w = ch \o (v \o w)
    BY <2>1, Associates, SMTT(30)
  <2> QED BY <1>13, <2>2 DEF v
<1> HIDE DEF u, v
<1>17. Stands(work', y, M)
  <2>1. Stands(v \o w, Both(u, t), M)
    BY <1>3, <1>12, <1>15, StandsBoth
  <2>2. v \o w \in Seq(R) /\ Both(u, t) \in Seq(Cells)
    BY <1>3, <1>15, BothIsSeq
  <2>3. Stands(ch, a, M) /\ a \in Seq(Cells)
    BY <1>10, <1>11 DEF a
  <2>4. Stands(ch \o (v \o w), Both(a, Both(u, t)), M)
    BY <1>10, <2>1, <2>2, <2>3, StandsBoth
  <2> QED BY <1>14, <1>16, <2>4
<1>18. Reads(table, Due, o, 0, Pending(y, o))
  <2> SUFFICES ASSUME o \in Due PROVE Ats(table, o) = Both(<<>>, Pending(y, o))
    <3>1. <<>> \in Seq(Paths) /\ Len(<<>>) = 0
      OBVIOUS
    <3> QED BY <3>1 DEF Reads
  <2>1. c \in 0 .. Len(All(program, s)) - 1
    <3>1. Len(All(program, s)) \in Nat /\ c + 1 <= Len(All(program, s))
      BY <1>5, WalkedSome
    <3> QED BY <1>4, <3>1
  <2>2. Ats(table, o) = Inner(x)
    BY <1>1, <1>5, <2>1, SliceWhereDue
  <2>3. Inner(x) \in Seq(Paths) /\ Pending(y, o) = Inner(x)
    BY <1>6, <1>7, InnerIsPaths
  <2> QED BY <2>2, <2>3, BothOfNone
<1>19. /\ Walk(program, source, y, o, index')
       /\ Stands(work', y, BuilderPairs(table, Attached, Due, y))
       /\ slice' = SliceOf(Attached, o) /\ Reads(table, Due, o, cursor', Pending(y, o))
  BY <1>1, <1>2, <1>5, <1>17, <1>18 DEF M
<1> HIDE DEF o
<1>20. BuilderAt(y, o)'
  BY <1>2, <1>19, BuilderNext
<1>21. x.at[1] = source
  BY <1>1, <1>6 DEF PlacedItems
<1>22. made'.own = TRUE /\ made'.at = x.at /\ made'.entry = NoEntry
  BY <1>2, <1>3
<1> QED BY <1>6, <1>20, <1>21, <1>22
(* A declaration is left: what was saved is right again. *)
LEMMA BuilderLeaves ==
  ASSUME TypeInv, work # <<>>, NEW z, NEW L, BuilderAt(z, L), FinishDecl, UNCHANGED driverVars
  PROVE  (\E y, r : BuilderAt(y, r)') /\ made' = None
<1>1. /\ phase = "materialize" /\ IsLeave(Head(work)) /\ work' = Tail(work)
      /\ slice' = Head(work).leave.slice /\ cursor' = Head(work).leave.cursor /\ made' = None
      /\ UNCHANGED <<program, source, only, table, attached, index>>
  BY DEF FinishDecl, Building, envVars, driverVars
<1> DEFINE t == Tail(z)
           w == Tail(work)
           o == Head(z).next
<1>2. /\ z # <<>> /\ t \in Seq(Cells) /\ Head(z).k = "leave"
      /\ Stands(w, t, BuilderPairs(table, Attached, Due, z))
      /\ Saves(table, Attached, Due, z, Head(work), o)
  BY <1>1, BuilderHead
<1>3. Walk(program, source, z, L, index)
  BY DEF BuilderAt
<1>4. Walk(program, source, t, o, index)
  BY <1>2, <1>3, WalkOut
<1>5. \A r : Pending(t, r) = Pending(z, r)
  BY <1>2, <1>3, PendingRest
<1> HIDE DEF t, w, o
<1>6. Stands(w, t, BuilderPairs(table, Attached, Due, t))
  <2>1. \A i \in DOMAIN t : t[i].k = "leave" => Pending(t, t[i].next) = Pending(z, t[i].next)
    BY <1>5
  <2> QED BY <1>2, <2>1, SavedStays
<1>7. slice' = SliceOf(Attached, o) /\ Reads(table, Due, o, cursor', Pending(t, o))
  <2>1. PICK k \in Nat : /\ Head(work) = Leave([slice |-> SliceOf(Attached, o), cursor |-> k])
                         /\ Reads(table, Due, o, k, Pending(z, o))
    BY <1>2 DEF Saves
  <2>2. Head(work).leave.slice = SliceOf(Attached, o) /\ Head(work).leave.cursor = k
    BY <2>1 DEF Leave
  <2> QED BY <1>1, <1>5, <2>1, <2>2
<1>8. BuilderAt(t, o)'
  BY <1>1, <1>4, <1>6, <1>7, BuilderNext DEF w
<1> QED BY <1>1, <1>8

(* When a declaration is left, its entries are used up. *)
LEMMA BuilderUsesUp ==
  ASSUME TypeInv, Complete, source # 0, phase = "materialize", work # <<>>, NEW z, NEW L,
         BuilderAt(z, L), IsLeave(Head(work)), slice # None
  PROVE  cursor = Len(table[slice])
<1>1. /\ Walk(program, source, z, L, index) /\ slice = SliceOf(Attached, L)
      /\ Reads(table, Due, L, cursor, Pending(z, L))
  BY DEF BuilderAt
<1>2. slice = L /\ L \in Attached /\ L # None
  BY <1>1 DEF SliceOf
<1>3. L \in DOMAIN table
  BY <1>2 DEF Attached
<1>4. z # <<>> /\ Head(z).k = "leave" /\ z \in Seq(Cells) /\ Tail(z) \in Seq(Cells)
  BY BuilderHead
<1>5. L \in Due
  <2>1. PICK m \in 0 .. index - 1 : L = <<source, m>> /\ m \in 0 .. Len(All(program, source)) - 1
    BY <1>2, <1>4, BuilderIn
  <2> QED BY <1>2, <2>1, SliceWhereDue
<1>6. Pending(z, L) = <<>>
  <2>1. Pending(z, L) = Pending(Tail(z), L)
    BY <1>1, <1>4, PendingRest
  <2>2. /\ Head(z) \in PlacedCells(program, source, index) /\ Head(z).own = L
        /\ Tail(z) \in Seq(PlacedCells(program, source, index)) /\ Chain(Tail(z), Head(z).next)
        /\ index \in Nat
    BY <1>1, <1>4, WalkHead DEF Walk
  <2>3. Rank(L) \in Nat /\ Rank(Head(z).next) < Rank(L)
    <3>1. Rank(Head(z).next) < Rank(L)
      BY <1>4, <2>2 DEF PlacedCells
    <3>2. L \in Nat \X Nat
      BY <1>5 DEF Due
    <3> QED BY <1>2, <3>1, <3>2 DEF Rank
  <2> DEFINE t == Tail(z)
  <2> HIDE DEF t
  <2>4. Pending(t, L) = <<>>
    BY <2>2, <2>3, NoneBehind DEF t
  <2> QED BY <2>1, <2>4 DEF t
<1>7. PICK taken \in Seq(Paths) : Len(taken) = cursor /\ Ats(table, L) = Both(taken, <<>>)
  BY <1>1, <1>5, <1>6 DEF Reads
<1>8. Ats(table, L) = taken
  BY <1>7, BothOfNone
<1>9. DOMAIN table[L] = 1 .. cursor /\ cursor \in Nat
  <2>1. DOMAIN Ats(table, L) = DOMAIN table[L]
    BY <1>3 DEF Ats
  <2> QED BY <1>7, <1>8, <2>1 DEF TypeInv, StateOK
<1>10. PICK S : table[L] \in Seq(S)
  BY <1>3 DEF TypeInv, StateOK, IsTable
<1>11. Len(table[L]) = cursor
  BY <1>9, <1>10
<1> QED BY <1>2, <1>11

(* A source is entered. *)
LEMMA BuilderStarts ==
  ASSUME TypeInv, slice = None, MaterializeSource, UNCHANGED driverVars
  PROVE  \E z : BuilderAt(z, None)'
<1>1. /\ source' = source + 1 /\ index' = 0 /\ slice' = None
      /\ UNCHANGED <<program, only, table, attached>>
      /\ work' = TopItems(source + 1, program[source + 1].decls)
      /\ source < Len(program)
  BY DEF MaterializeSource, Enter, envVars, driverVars
<1>2. program \in Programs /\ source + 1 \in DOMAIN program
  <2>1. program \in Programs /\ source \in 0 .. Len(program)
    BY DEF TypeInv, StateOK, TypeOK
  <2>2. program \in Seq(Sources)
    BY <2>1, ProgramsAssumption
  <2> QED BY <1>1, <2>1, <2>2
<1>3. PICK s, t, z : /\ s = source + 1 /\ t = TopItems(s, program[s].decls)
                     /\ z = WalkOver(t, None)
  OBVIOUS
<1>4. t \in Seq(Items)
  BY <1>2, <1>3, TopsArePlaced
<1>5. Walk(program, s, z, None, 0)
  BY <1>2, <1>3, WalkEnter
<1>6. \A D, E : Stands(t, z, BuilderPairs(table, D, E, z))
  <2>1. None \in Owners
    BY DEF Owners
  <2> QED BY <1>3, <1>4, <2>1, ItemsStand
<1>7. Walk(program, source, z, None, index)'
  BY <1>1, <1>3, <1>5
<1>8. Stands(work, z, BuilderPairs(table, Attached, Due, z))'
  BY <1>1, <1>3, <1>6
<1>9. (slice = SliceOf(Attached, None))'
  BY <1>1 DEF SliceOf
<1>10. Reads(table, Due, None, cursor, Pending(z, None))'
  <2>1. None \notin Due'
    BY NoneAssumption DEF Due
  <2> QED BY <2>1 DEF Reads
<1>11. BuilderAt(z, None)'
  BY <1>7, <1>8, <1>9, <1>10 DEF BuilderAt
<1> QED BY <1>11

(* At the end of a source no declaration is left open. *)
LEMMA BuilderEnds ==
  ASSUME TypeInv, Complete, work = <<>>, NEW z, NEW L, BuilderAt(z, L)
  PROVE  L = None /\ slice = None
<1>1. /\ Walk(program, source, z, L, index) /\ slice = SliceOf(Attached, L)
      /\ Stands(work, z, BuilderPairs(table, Attached, Due, z))
  BY DEF BuilderAt
<1>2. z = <<>>
  <2>1. z \in Seq(Cells)
    BY <1>1, PlacedAreCells DEF Walk
  <2> QED BY <1>1, <2>1 DEF Stands
<1>3. L = None
  BY <1>1, <1>2 DEF Walk, Chain
<1> QED BY <1>1, <1>3 DEF SliceOf
-----------------------------------------------------------------------------
(* The three walks.                                                        *)

\* What is said of the name that was built last.
MadeOK ==
  made # None =>
    /\ made.at[1] = source
    /\ made.entry # NoEntry => made.entry.at = made.at
    /\ ~made.own /\ attached =>
         (made.entry = NoEntry <=> \/ Disabled(program[source].head)
                                   \/ Omits(program, only, made.at))

\* Nothing is built before the materializer runs; it follows the driver.
BuildInv ==
  /\ phase # "materialize" => made = None
  /\ phase = "materialize" =>
       /\ Complete /\ MadeOK
       /\ source = 0 => work = <<>> /\ slice = None /\ made = None
       /\ source # 0 => /\ directives = Directives(program[source])
                        /\ \E z, L : BuilderAt(z, L) /\ (L = None => made = None)

LEMMA BuilderBetween ==
  ASSUME TypeInv, BuildInv, phase = "materialize", work = <<>>
  PROVE  slice = None /\ made = None
<1>1. CASE source = 0
  BY <1>1 DEF BuildInv
<1>2. CASE source # 0
  <2>1. PICK z, L : BuilderAt(z, L) /\ (L = None => made = None)
    BY <1>2 DEF BuildInv
  <2> QED BY <2>1, BuilderEnds DEF BuildInv
<1> QED BY <1>1, <1>2

LEMMA BuilderWalks ==
  ASSUME NoSingletonArgs, TypeInv, InternInv, BuildInv, Building, UNCHANGED driverVars,
         MaterializeDecl \/ FinishDecl \/ MaterializeName \/ MaterializeNode
  PROVE  /\ phase' = phase /\ MadeOK' /\ UNCHANGED <<program, source, only, table, attached, directives>>
         /\ source # 0 /\ \E z, L : BuilderAt(z, L)' /\ (L = None => made' = None)
<1>1. /\ phase = "materialize" /\ work # <<>> /\ source # 0 /\ Complete /\ MadeOK
  BY DEF Building, BuildInv
<1>2. PICK z, L : BuilderAt(z, L)
  BY <1>1 DEF BuildInv
<1>3. IsWalked(Head(work)) => Head(work) \in Items /\ Found(Head(work))
  <2> DEFINE R == Marks(table)
  <2>1. work \in Seq(R)
    BY <1>1 DEF TypeInv, WorkOK
  <2> HIDE DEF R
  <2>2. Head(work) \in Range(work)
    BY <1>1, <2>1, RangeOfRest
  <2>3. Occurrences \subseteq Items
    BY OccurrencesAre DEF TypeInv, StateOK
  <2> QED BY <1>1, <2>2, <2>3 DEF InternInv, Walkable
<1>4. UNCHANGED <<program, source, only, table, attached, directives>>
  BY DEF MaterializeDecl, FinishDecl, MaterializeName, MaterializeNode, envVars, driverVars,
         materializerVars
<1>5. CASE MaterializeDecl
  <2>1. phase' = phase /\ Found(Head(work))
    BY <1>3, <1>5 DEF MaterializeDecl, Expect
  <2>2. /\ \E y, r : r # None /\ BuilderAt(y, r)'
        /\ made'.own /\ made'.at[1] = source /\ made'.entry = NoEntry
    BY <1>1, <1>2, <1>5, <2>1, BuilderEnters
  <2> QED BY <1>1, <1>4, <2>1, <2>2 DEF MadeOK
<1>6. CASE FinishDecl
  <2>1. phase' = phase
    BY <1>6 DEF FinishDecl
  <2>2. (\E y, r : BuilderAt(y, r)') /\ made' = None
    BY <1>1, <1>2, <1>6, BuilderLeaves
  <2> QED BY <1>1, <1>4, <2>1, <2>2 DEF MadeOK
<1>7. CASE MaterializeName
  <2>1. phase' = phase /\ ~IsDecl(Head(work).node)
    BY <1>3, <1>7, NamesAreNotDecls DEF MaterializeName, Expect
  <2>2. /\ BuilderAt(Down(z), L)' /\ L # None
        /\ ~made'.own /\ made'.at[1] = source
        /\ made'.entry # NoEntry => made'.entry.at = made'.at
        /\ attached => (made'.entry = NoEntry <=> \/ Disabled(program[source].head)
                                                  \/ Omits(program, only, made'.at))
    BY <1>1, <1>2, <1>7, <2>1, BuilderTakes
  <2>3. MadeOK'
    BY <1>4, <2>2 DEF MadeOK
  <2> QED BY <1>1, <1>4, <2>1, <2>2, <2>3
<1>8. CASE MaterializeNode
  <2>1. phase' = phase
    BY <1>8 DEF MaterializeNode
  <2>2. BuilderAt(Down(z), L)' /\ L # None /\ made' = made
    BY <1>1, <1>2, <1>8, BuilderPasses
  <2>3. MadeOK'
    BY <1>1, <1>4, <2>2 DEF MadeOK
  <2> QED BY <1>1, <1>4, <2>1, <2>2, <2>3
<1> QED BY <1>5, <1>6, <1>7, <1>8

LEMMA BuilderKeeps ==
  ASSUME NoSingletonArgs, TypeInv, InternInv, ResolveInv, BuildInv, MaterializerNext,
         UNCHANGED driverVars
  PROVE  ResolveInv' /\ BuildInv'
<1>1. UNCHANGED <<program, only, table>> /\ source \in Nat
  <2>1. UNCHANGED <<program, only, table>>
    BY DEF MaterializerNext, StartMaterialize, MaterializeSource, MaterializeDecl, FinishDecl,
           MaterializeName, MaterializeNode, MaterializeEnd, envVars, driverVars
  <2> QED BY <2>1 DEF TypeInv, TypeOK
<1>2. Complete /\ attached' = attached => Complete'
  BY <1>1 DEF Complete
<1>3. phase' \in {"materialize", "done"} => ResolveInv'
  BY DEF ResolveInv
<1>4. CASE StartMaterialize
  <2>1. /\ phase \in {"loaded", "resolved"} /\ attached' = (phase = "resolved") /\ phase' = "materialize"
        /\ source' = 0 /\ work' = <<>> /\ UNCHANGED <<slice, made>>
    BY <1>4 DEF StartMaterialize
  <2>2. slice = None /\ made = None
    BY <2>1 DEF TypeInv, StateOK, BuildInv
  <2>3. Complete'
    BY <1>1, <2>1 DEF Complete, ResolveInv
  <2> QED BY <1>3, <2>1, <2>2, <2>3 DEF BuildInv, MadeOK
<1>5. CASE MaterializeSource
  <2>1. /\ phase = "materialize" /\ phase' = phase /\ work = <<>> /\ source' = source + 1
        /\ directives' = Directives(program[source + 1]) /\ UNCHANGED <<attached, made>>
    BY <1>5 DEF MaterializeSource, Enter
  <2>2. slice = None /\ made = None /\ Complete
    BY <2>1, BuilderBetween DEF BuildInv
  <2>3. \E z : BuilderAt(z, None)'
    BY <1>5, <2>2, BuilderStarts
  <2>4. source' # 0 /\ directives' = Directives(program'[source'])
    BY <1>1, <2>1
  <2> QED BY <1>2, <1>3, <2>1, <2>2, <2>3, <2>4 DEF BuildInv, MadeOK
<1>6. CASE MaterializeEnd
  <2>1. phase = "materialize" /\ phase' = "done" /\ work = <<>> /\ made' = made
    BY <1>6 DEF MaterializeEnd, materializerVars
  <2> QED BY <1>3, <2>1, BuilderBetween DEF BuildInv
<1>7. CASE Building /\ (MaterializeDecl \/ FinishDecl \/ MaterializeName \/ MaterializeNode)
  <2>1. /\ phase' = phase /\ MadeOK' /\ UNCHANGED <<program, source, attached, directives>>
        /\ source # 0 /\ \E z, L : BuilderAt(z, L)' /\ (L = None => made' = None)
    BY <1>7, BuilderWalks
  <2>2. phase = "materialize" /\ Complete /\ directives = Directives(program[source])
    BY <1>7, <2>1 DEF Building, BuildInv
  <2>3. Complete' /\ directives' = Directives(program'[source']) /\ source' # 0
    BY <1>2, <2>1, <2>2
  <2> QED BY <1>3, <2>1, <2>2, <2>3 DEF BuildInv
<1> QED BY <1>4, <1>5, <1>6, <1>7
           DEF MaterializerNext, MaterializeDecl, FinishDecl, MaterializeName, MaterializeNode
\* What the three walks keep between them.
Inv == TypeInv /\ InternInv /\ ResolveInv /\ BuildInv

LEMMA InitWalks == Init => Inv
<1> SUFFICES ASSUME Init PROVE Inv
  OBVIOUS
<1>1. TypeInv /\ InternInv
  BY InitTypes, InitInterns
<1>2. phase = "insert" /\ DOMAIN table = {} /\ made = None
  BY DEF Init, InsertInit, DriverInit, MaterializerInit
<1> QED BY <1>1, <1>2 DEF Inv, ResolveInv, BuildInv

LEMMA NextWalks ==
  ASSUME NoSingletonArgs
  PROVE  Inv /\ [Next]_vars => Inv'
<1> SUFFICES ASSUME Inv, [Next]_vars PROVE Inv'
  OBVIOUS
<1>1. TypeInv /\ InternInv /\ ResolveInv /\ BuildInv
  BY DEF Inv
<1>2. TypeInv' /\ InternInv'
  BY <1>1, NextTypes, NextInterns
<1>3. CASE InsertNext /\ UNCHANGED <<driverVars, materializerVars>>
  <2>1. /\ phase = "insert" /\ phase' \in {"insert", "failed", "loaded"}
        /\ UNCHANGED <<table, made>>
    BY <1>3 DEF InsertNext, InsertSource, InsertDecl, InsertGlobal, InsertDuplicate, InsertNode,
                InsertEnd, driverVars, materializerVars
  <2> QED BY <1>1, <1>2, <2>1 DEF Inv, ResolveInv, BuildInv
<1>4. CASE DriverNext /\ UNCHANGED materializerVars
  <2>1. phase # "materialize" /\ phase' # "materialize" /\ made' = made
    BY <1>4 DEF DriverNext, StartResolve, SkipSource, ResolveSource, SkipDecl, ConsumeDeclRef,
                WalkDeclaration, LeaveDeclaration, WalkName, WalkNode, ResolveEnd, NextSource,
                Resolving, Expect, materializerVars
  <2>2. BuildInv'
    BY <1>1, <2>1 DEF BuildInv
  <2>3. ResolveInv'
    BY <1>1, <1>4, DriverKeeps
  <2> QED BY <1>2, <2>2, <2>3 DEF Inv
<1>5. CASE MaterializerNext /\ UNCHANGED driverVars
  BY <1>1, <1>2, <1>5, BuilderKeeps DEF Inv
<1>6. CASE UNCHANGED vars
  <2>1. UNCHANGED <<program, source, only, table, attached, phase, work, made, slice, cursor, index,
                    counter, current, directives>>
    BY <1>6 DEF vars, insertVars, walkVars, envVars, driverVars, materializerVars
  <2>2. ASSUME NEW z, DriverAt(z) PROVE DriverAt(z)'
    BY <2>1, <2>2 DEF DriverAt
  <2>3. ASSUME NEW z, NEW L, BuilderAt(z, L) PROVE BuilderAt(z, L)'
    BY <2>1, <2>3 DEF BuilderAt, Attached, Due
  <2>4. ResolveInv'
    BY <1>1, <2>1, <2>2 DEF ResolveInv, Positions, Ats
  <2>5. BuildInv'
    BY <1>1, <2>1, <2>3 DEF BuildInv, MadeOK, Complete, Positions, Ats
  <2> QED BY <1>2, <2>4, <2>5 DEF Inv
<1> QED BY <1>3, <1>4, <1>5, <1>6 DEF Next

(* An entry that is taken was recorded for the name that takes it: driver
   and materializer number the declarations alike, meet the names in them in
   the same order, and come back to the enclosing declaration where they
   left it.  Both rest on the kin of a node being the same, which is so
   unless a type is written singleton(C)[...]. *)
THEOREM WalksInLockstep == NoSingletonArgs => (Spec => []Lockstep)
<1> SUFFICES ASSUME NoSingletonArgs PROVE Spec => []Lockstep
  OBVIOUS
<1>1. Inv => Lockstep
  BY DEF Inv, BuildInv, MadeOK, Lockstep
<1>2. Inv /\ [Next]_vars => Inv'
  BY NextWalks
<1> QED BY <1>1, <1>2, InitWalks, PTL DEF Spec

(* When the materializer leaves a declaration it has taken every entry. *)
THEOREM EntriesUsedUp == NoSingletonArgs => (Spec => []SlicesUsedUp)
<1> SUFFICES ASSUME NoSingletonArgs PROVE Spec => []SlicesUsedUp
  OBVIOUS
<1>1. Inv => SlicesUsedUp
  <2> SUFFICES ASSUME Inv, Building, IsLeave(Head(work)), slice # None
               PROVE  cursor = Len(table[slice])
    BY DEF SlicesUsedUp
  <2>1. TypeInv /\ BuildInv /\ phase = "materialize" /\ work # <<>>
    BY DEF Inv, Building
  <2>2. source # 0 /\ Complete
    BY <2>1 DEF BuildInv
  <2>3. PICK z, L : BuilderAt(z, L)
    BY <2>1, <2>2 DEF BuildInv
  <2> QED BY <2>1, <2>2, <2>3, BuilderUsesUp
<1>2. Inv /\ [Next]_vars => Inv'
  BY NextWalks
<1> QED BY <1>1, <1>2, InitWalks, PTL DEF Spec

-----------------------------------------------------------------------------
(* What the user of the objects sees of it.                                *)

Off == [k |-> "resolve_type_names", value |-> FALSE]

\* The driver leaves a source out when its directives will say so, and only
\* then.  It is not so for every text: a lone "\r" after the value, or a
\* line break before it, are no obstacle to the directive alone.
CommentsAgree ==
  \A p \in Programs : \A s \in DOMAIN p :
    Disabled(p[s].head) <=> Off \in Range(MagicDirective(p[s].head))

LEMMA TurnedOffIs ==
  ASSUME CommentsAgree, program \in Programs, source \in DOMAIN program,
         directives = Directives(program[source])
  PROVE  TurnedOff <=> Disabled(program[source].head)
<1> DEFINE m == MagicDirective(program[source].head)
           u == program[source].uses
<1>1. m = <<>> \/ \E d : m = <<d>>
  BY DEF MagicDirective
<1>2. u \in Seq(Clauses)
  <2>1. program \in Seq(Sources)
    BY ProgramsAssumption
  <2>2. program[source] \in Sources
    BY <2>1
  <2> QED BY <2>2 DEF Sources
<1>3. \A i \in DOMAIN u : u[i] # Off
  BY <1>2 DEF Clauses, Off
<1>4. Disabled(program[source].head) <=> Off \in Range(m)
  BY DEF CommentsAgree
<1>5. directives = m \o u
  BY DEF Directives
<1>6. \E S : m \in Seq(S) /\ u \in Seq(S)
  <2>1. \A d : <<>> \in Seq(Clauses \cup {d}) /\ <<d>> \in Seq(Clauses \cup {d}) /\ u \in Seq(Clauses \cup {d})
    BY <1>2
  <2> HIDE DEF m, u
  <2> QED BY <1>1, <2>1
<1> HIDE DEF m, u
<1>7. PICK S : m \in Seq(S) /\ u \in Seq(S)
  BY <1>6
<1>8. Range(directives) = Range(m) \cup Range(u)
  BY <1>5, <1>7, RangeConcatenation, SMTT(30)
<1>9. Off \notin Range(u)
  BY <1>3 DEF Range
<1> QED BY <1>4, <1>8, <1>9 DEF TurnedOff, Off

(* A name is left as written where the directives or the filter say so, and
   nowhere else: no entry is missing. *)
THEOREM RawWhereSkipped ==
  NoSingletonArgs /\ CommentsAgree => (Spec => []RawOnlyWhereSkipped)
<1> SUFFICES ASSUME NoSingletonArgs, CommentsAgree PROVE Spec => []RawOnlyWhereSkipped
  OBVIOUS
<1>1. Inv => RawOnlyWhereSkipped
  <2> SUFFICES ASSUME Inv, made # None, ~made.own, attached
               PROVE  made.entry = NoEntry <=> Skipped(made.at)
    BY DEF RawOnlyWhereSkipped
  <2>1. MadeOK /\ source # 0 /\ directives = Directives(program[source])
    BY DEF Inv, BuildInv
  <2>2. program \in Programs /\ source \in DOMAIN program
    <3>1. program \in Programs /\ source \in 0 .. Len(program)
      BY DEF Inv, TypeInv, TypeOK, StateOK
    <3>2. program \in Seq(Sources)
      BY <3>1, ProgramsAssumption
    <3> QED BY <2>1, <3>1, <3>2
  <2>3. TurnedOff <=> Disabled(program[source].head)
    BY <2>1, <2>2, TurnedOffIs
  <2> QED BY <2>1, <2>3 DEF MadeOK, Skipped, Omits, TopDecl
<1>2. Inv /\ [Next]_vars => Inv'
  BY NextWalks
<1> QED BY <1>1, <1>2, InitWalks, PTL DEF Spec

-----------------------------------------------------------------------------
(* What names mean.                                                        *)

\* The target of a use clause is written with the leading ::.
AbsoluteTarget(clause) ==
  IF clause.k = "single" THEN clause.name.ns.abs ELSE clause.ns.abs

UsesAreAbsolute ==
  \A p \in Programs : \A i \in DOMAIN p : \A j \in DOMAIN p[i].uses : AbsoluteTarget(p[i].uses[j])

(* An absolute target is bound as it is, and in front of what was bound. *)
LEMMA BindsWhatIsBrought ==
  ASSUME NEW all \in SUBSET TypeNames, NEW map, NEW clause \in Clauses, AbsoluteTarget(clause)
  PROVE  AddClause(all, map, clause) = OrElse(Brought(all, clause), map)
<1>1. CASE clause \in [k : {"single"}, name : TypeNames, as : Symbols \cup {None}]
  <2> DEFINE key == IF clause.as = None THEN clause.name.name ELSE clause.as
  <2>1. clause.k = "single" /\ clause.name \in TypeNames /\ clause.name.ns.abs
    BY <1>1 DEF AbsoluteTarget
  <2>2. WithPrefix(RootAbsolute, clause.name) = clause.name
    BY <2>1 DEF WithPrefix, Join, Tn, TypeNames
  <2>3. Brought(all, clause) = [s \in {key} |-> clause.name]
    BY <2>1, <2>2 DEF Brought
  <2>4. AddClause(all, map, clause) = OrElse([s \in {key} |-> clause.name], map)
    BY <2>1 DEF AddClause, AddSingle, Put
  <2> QED BY <2>3, <2>4
<1>2. CASE clause \in [k : {"wildcard"}, ns : Namespaces]
  <2> DEFINE ns == clause.ns
             bound == ChildrenOf(all, ns)
             E == {n.name : n \in bound}
             F == {r \in Symbols : ns.path # <<>> /\ Tn(ns, r) \in all}
  <2>1. clause.k = "wildcard" /\ Join(RootAbsolute, clause.ns) = ns
    BY <1>2 DEF AbsoluteTarget, Join
  <2>2. \A n : n \in bound <=> n \in all /\ n.ns = ns /\ ns.path # <<>>
    BY DEF ChildrenOf
  <2>3. \A n \in bound : n = Tn(ns, n.name) /\ n.name \in Symbols
    BY <2>2 DEF TypeNames, Tn
  <2>4. \A r \in F : Tn(ns, r) \in bound /\ Tn(ns, r).name = r
    BY <2>2 DEF Tn
  <2>5. Brought(all, clause) = [s \in F |-> Tn(ns, s)]
    BY <2>1 DEF Brought
  <2>6. AddClause(all, map, clause) = OrElse([s \in E |-> CHOOSE n \in bound : n.name = s], map)
    BY <2>1 DEF AddClause, AddWildcard
  <2> HIDE DEF ns, bound
  <2>7. E = F
    BY <2>2, <2>3, <2>4
  <2>8. ASSUME NEW s \in E PROVE (CHOOSE n \in bound : n.name = s) = Tn(ns, s)
    <3>1. Tn(ns, s) \in bound /\ Tn(ns, s).name = s
      BY <2>4, <2>7
    <3> QED BY <2>3, <3>1
  <2>9. [s \in E |-> CHOOSE n \in bound : n.name = s] = [s \in F |-> Tn(ns, s)]
    <3> HIDE DEF E, F
    <3> QED BY <2>7, <2>8
  <2> QED BY <2>5, <2>6, <2>9
<1> QED BY <1>1, <1>2 DEF Clauses

\* A map m binds what the first k clauses bring in, the later ones first.
BindsFirst(all, clauses, m, k) ==
  /\ \A s : s \in DOMAIN m <=> \E i \in 1 .. k : s \in DOMAIN Brought(all, clauses[i])
  /\ \A i \in 1 .. k : \A s \in DOMAIN Brought(all, clauses[i]) :
       (\A j \in i + 1 .. k : s \notin DOMAIN Brought(all, clauses[j]))
         => m[s] = Brought(all, clauses[i])[s]

(* So the last clause that brings in a symbol decides. *)
LEMMA LastClauseBinds ==
  ASSUME NEW all \in SUBSET TypeNames, NEW clauses \in Seq(Clauses),
         \A i \in DOMAIN clauses : AbsoluteTarget(clauses[i])
  PROVE  BindsFirst(all, clauses, UseMapOf(all, clauses), Len(clauses))
<1> SUFFICES ASSUME NEW n \in Nat, n = Len(clauses)
             PROVE  BindsFirst(all, clauses, UseMapOf(all, clauses), n)
  OBVIOUS
<1>1. \A i \in 1 .. n : clauses[i] \in Clauses /\ AbsoluteTarget(clauses[i])
  OBVIOUS
<1>2. PICK m \in [0 .. n -> UseMaps] :
        /\ m[0] = NoUses /\ UseMapOf(all, clauses) = m[n]
        /\ \A k \in 1 .. n : m[k] = AddClause(all, m[k - 1], clauses[k])
  BY UseMapGrows
<1> DEFINE Br(i) == Brought(all, clauses[i])
           A == {k \in 0 .. n : BindsFirst(all, clauses, m[k], k)}
<1>3. 0 \in A
  <2>1. DOMAIN m[0] = {}
    BY <1>2 DEF NoUses
  <2> QED BY <2>1 DEF BindsFirst
<1>4. ASSUME NEW k \in 0 .. n, k # n, k \in A PROVE k + 1 \in A
  <2>1. k + 1 \in 1 .. n /\ k \in Nat /\ BindsFirst(all, clauses, m[k], k)
    BY <1>4
  <2>2. m[k + 1] = AddClause(all, m[k], clauses[k + 1])
    BY <1>2, <2>1
  <2>3. m[k + 1] = OrElse(Br(k + 1), m[k])
    BY <1>1, <2>1, <2>2, BindsWhatIsBrought
  <2> HIDE DEF Br
  <2>4. /\ DOMAIN m[k + 1] = DOMAIN Br(k + 1) \cup DOMAIN m[k]
        /\ \A s \in DOMAIN m[k + 1] :
             m[k + 1][s] = IF s \in DOMAIN Br(k + 1) THEN Br(k + 1)[s] ELSE m[k][s]
    BY <2>3 DEF OrElse
  <2>5. \A i : i \in 1 .. k + 1 <=> i \in 1 .. k \/ i = k + 1
    BY <2>1
  <2>6. \A s : s \in DOMAIN m[k] <=> \E i \in 1 .. k : s \in DOMAIN Br(i)
    BY <2>1 DEF BindsFirst, Br
  <2>7. \A s : s \in DOMAIN m[k + 1] <=> \E i \in 1 .. k + 1 : s \in DOMAIN Br(i)
    BY <2>4, <2>5, <2>6
  <2>8. ASSUME NEW i \in 1 .. k + 1, NEW s \in DOMAIN Br(i),
               \A j \in i + 1 .. k + 1 : s \notin DOMAIN Br(j)
        PROVE  m[k + 1][s] = Br(i)[s]
    <3>1. s \in DOMAIN m[k + 1]
      BY <2>7
    <3>2. CASE i = k + 1
      BY <2>4, <3>1, <3>2
    <3>3. CASE i # k + 1
      <4>1. i \in 1 .. k /\ k + 1 \in i + 1 .. k + 1
        BY <2>1, <3>3
      <4>2. s \notin DOMAIN Br(k + 1) /\ \A j \in i + 1 .. k : s \notin DOMAIN Br(j)
        BY <2>8, <4>1
      <4>3. m[k][s] = Br(i)[s]
        BY <2>1, <4>1, <4>2 DEF BindsFirst, Br
      <4> QED BY <2>4, <3>1, <4>2, <4>3
    <3> QED BY <3>2, <3>3
  <2>9. BindsFirst(all, clauses, m[k + 1], k + 1)
    BY <2>7, <2>8 DEF BindsFirst, Br
  <2> QED BY <2>1, <2>9
<1>5. n \in A
  <2> HIDE DEF A
  <2>1. 0 .. n \subseteq A
    BY <1>3, <1>4, UpTo
  <2> QED BY <2>1
<1> QED BY <1>2, <1>5

(* What the use map makes of a name is what the clauses mean by it. *)
LEMMA MappedIsMeant ==
  ASSUME NEW all \in SUBSET TypeNames, NEW clauses \in Seq(Clauses),
         \A i \in DOMAIN clauses : AbsoluteTarget(clauses[i]), NEW tn \in TypeNames
  PROVE  Mapped(UseMapOf(all, clauses), tn) = Meant(all, clauses, tn)
<1> DEFINE map   == UseMapOf(all, clauses)
           n     == Len(clauses)
           first == Head(Segments(tn))
           Br(i) == Brought(all, clauses[i])
           bringing == {i \in DOMAIN clauses : first \in DOMAIN Br(i)}
           last == Max(bringing)
           used == Br(last)[first]
<1>1. n \in Nat /\ DOMAIN clauses = 1 .. n /\ BindsFirst(all, clauses, map, n)
  BY LastClauseBinds
<1>2. Mapped(map, tn) = IF tn.ns.abs \/ first \notin DOMAIN map THEN tn
                        ELSE IF tn.ns.path = <<>> THEN map[first]
                        ELSE Tn(Ns(Segments(map[first]) \o Tail(tn.ns.path), TRUE), tn.name)
  BY DEF Mapped
<1>3. Meant(all, clauses, tn) =
        IF tn.ns.abs \/ bringing = {} THEN tn
        ELSE IF tn.ns.path = <<>> THEN used
        ELSE WithPrefix(ToNamespace(used), Tn(Ns(Tail(tn.ns.path), FALSE), tn.name))
  BY DEF Meant
<1> HIDE DEF map, n, first, Br
<1>4. first \in DOMAIN map <=> bringing # {}
  BY <1>1 DEF BindsFirst, Br
<1>5. CASE tn.ns.abs \/ bringing = {}
  <2>1. tn.ns.abs \/ first \notin DOMAIN map
    BY <1>4, <1>5
  <2>2. Mapped(map, tn) = tn
    BY <1>2, <2>1
  <2> HIDE DEF bringing
  <2>3. Meant(all, clauses, tn) = tn
    BY <1>3, <1>5
  <2> QED BY <2>2, <2>3 DEF map
<1>6. CASE ~tn.ns.abs /\ bringing # {}
  <2>1. bringing \in SUBSET (1 .. n)
    BY <1>1
  <2>2. last \in bringing /\ \A i \in bringing : i <= last
    BY <1>1, <1>6, <2>1, MaxIsGreatest
  <2> HIDE DEF last
  <2>3. last \in 1 .. n /\ first \in DOMAIN Br(last)
    BY <2>1, <2>2
  <2>4. \A j \in last + 1 .. n : first \notin DOMAIN Br(j)
    <3> SUFFICES ASSUME NEW j \in last + 1 .. n, first \in DOMAIN Br(j) PROVE FALSE
      OBVIOUS
    <3>1. j \in 1 .. n /\ j > last
      BY <1>1, <2>3
    <3>2. j \in bringing
      BY <1>1, <3>1
    <3> QED BY <1>1, <2>2, <2>3, <3>1, <3>2
  <2>5. map[first] = used
    BY <1>1, <2>3, <2>4 DEF BindsFirst, Br
  <2>6. used.ns.abs
    <3>1. clauses[last] \in Clauses /\ AbsoluteTarget(clauses[last])
      BY <1>1, <2>3 DEF n
    <3> QED BY <2>3, <3>1 DEF Br, Brought, WithPrefix, Join, RootAbsolute, Tn, Ns, AbsoluteTarget
  <2>7. WithPrefix(ToNamespace(used), Tn(Ns(Tail(tn.ns.path), FALSE), tn.name))
          = Tn(Ns(Segments(used) \o Tail(tn.ns.path), TRUE), tn.name)
    BY <2>6 DEF WithPrefix, ToNamespace, Join, Tn, Ns, Segments
  <2> HIDE DEF used
  <2>8. Mapped(map, tn) = IF tn.ns.path = <<>> THEN used
                          ELSE Tn(Ns(Segments(used) \o Tail(tn.ns.path), TRUE), tn.name)
    BY <1>2, <1>4, <1>6, <2>5
  <2> HIDE DEF bringing
  <2>9. Meant(all, clauses, tn) =
          IF tn.ns.path = <<>> THEN used
          ELSE WithPrefix(ToNamespace(used), Tn(Ns(Tail(tn.ns.path), FALSE), tn.name))
    BY <1>3, <1>6
  <2> QED BY <2>7, <2>8, <2>9 DEF map
<1> QED BY <1>5, <1>6

\* What may be answered when a name is asked for in a context.
Truth(tn, ctx, answer) ==
  LET ref == Scoped!Referent(AllNames, Aliases, tn, ctx)
  IN  IF answer # None THEN answer = ref ELSE ref = None \/ Qualified(tn)

\* The answer is remembered; the entry is recorded.
Cached(tn, ctx, answer) == <<tn, ctx>> \in DOMAIN cache /\ answer = cache[<<tn, ctx>>]
InTable(e) == \E r \in DOMAIN table : \E i \in DOMAIN table[r] : e = table[r][i]

EntryMeans(e) == \E x \in Occurrences : x.at = e.at /\ Means(x, e.resolved, e.name)

CacheMeans == \A tn, ctx, answer : Cached(tn, ctx, answer) => Truth(tn, ctx, answer)
TableMeans == \A e : InTable(e) => EntryMeans(e)

\* What is remembered and recorded is true, the use map is that of the
\* source, and what is built was recorded.
MeaningInv ==
  /\ phase \in {"insert", "loaded"} => DOMAIN cache = {} /\ DOMAIN table = {}
  /\ phase = "resolve" =>
       CacheMeans /\ (work # <<>> => useMap = UseMapOf(AllNames, program[source].uses))
  /\ phase \in {"resolve", "resolved", "materialize"} => TableMeans
  /\ phase = "materialize" /\ made # None /\ made.entry # NoEntry =>
       made.name = made.entry.name /\ \E e : e = made.entry /\ InTable(e)

(* Meanings are those of the loaded environment, which stays. *)
LEMMA MeaningsStay ==
  ASSUME UNCHANGED <<program, decls>>
  PROVE  /\ \A tn, ctx, answer : Truth(tn, ctx, answer) => Truth(tn, ctx, answer)'
         /\ \A e : EntryMeans(e) => EntryMeans(e)'
<1>1. AllNames' = AllNames /\ Aliases' = Aliases
  BY DEF AllNames, Aliases
<1>2. Occurrences' = Occurrences
  BY DEF Occurrences, Tops
<1>3. ASSUME NEW tn, NEW ctx, NEW answer, Truth(tn, ctx, answer)
      PROVE  Truth(tn, ctx, answer)'
  BY <1>1, <1>3 DEF Truth
<1>4. ASSUME NEW e, EntryMeans(e) PROVE EntryMeans(e)'
  <2> DEFINE resolved == e.resolved
             name == e.name
  <2>1. PICK x \in Occurrences : x.at = e.at /\ Means(x, resolved, name)
    BY <1>4 DEF EntryMeans
  <2> HIDE DEF resolved, name
  <2>2. Means(x, resolved, name)'
    BY <1>1, <2>1 DEF Means
  <2> QED BY <1>2, <2>1, <2>2 DEF EntryMeans, resolved, name
<1> QED BY <1>3, <1>4

LEMMA MeaningsKept ==
  ASSUME UNCHANGED <<program, decls>>
  PROVE  /\ CacheMeans /\ UNCHANGED cache => CacheMeans'
         /\ TableMeans /\ UNCHANGED table => TableMeans'
<1>1. ASSUME CacheMeans, UNCHANGED cache PROVE CacheMeans'
  <2>1. \A tn, ctx, answer : Cached(tn, ctx, answer)' => Cached(tn, ctx, answer)
    BY <1>1 DEF Cached
  <2> QED BY <1>1, <2>1, MeaningsStay DEF CacheMeans
<1>2. ASSUME TableMeans, UNCHANGED table PROVE TableMeans'
  <2>1. \A e : InTable(e)' => InTable(e)
    BY <1>2 DEF InTable
  <2> QED BY <1>2, <2>1, MeaningsStay DEF TableMeans
<1> QED BY <1>1, <1>2

(* The resolver answers with the referent, from the cache or not. *)
LEMMA AnswersAreTrue ==
  ASSUME CacheMeans, NEW tn, NEW ctx
  PROVE  Truth(tn, ctx, Asked(tn, ctx))
<1> DEFINE answer == Asked(tn, ctx)
<1>1. CASE <<tn, ctx>> \in DOMAIN cache
  <2>1. answer = cache[<<tn, ctx>>]
    BY <1>1 DEF Asked
  <2> HIDE DEF answer
  <2>2. Cached(tn, ctx, answer)
    BY <1>1, <2>1 DEF Cached
  <2>3. Truth(tn, ctx, answer)
    BY <2>2 DEF CacheMeans
  <2> QED BY <2>3 DEF answer
<1>2. CASE <<tn, ctx>> \notin DOMAIN cache /\ ScopeInterned(tn)
  <2>1. answer = Scoped!Referent(AllNames, Aliases, tn, ctx)
    BY <1>2 DEF Asked
  <2> HIDE DEF answer
  <2>2. Truth(tn, ctx, answer)
    BY <2>1 DEF Truth
  <2> QED BY <2>2 DEF answer
<1>3. CASE <<tn, ctx>> \notin DOMAIN cache /\ ~ScopeInterned(tn)
  <2>1. answer = None /\ Qualified(tn)
    BY <1>3 DEF Asked, ScopeInterned, Qualified
  <2> HIDE DEF answer
  <2>2. Truth(tn, ctx, answer)
    BY <2>1 DEF Truth
  <2> QED BY <2>2 DEF answer
<1> QED BY <1>1, <1>2, <1>3

(* A true answer can be remembered, and be recorded where it was asked for. *)
LEMMA RememberedIsTrue ==
  ASSUME UNCHANGED <<program, decls>>, CacheMeans, NEW tn, NEW ctx, NEW answer,
         Truth(tn, ctx, answer), cache' = Put(cache, <<tn, ctx>>, answer)
  PROVE  CacheMeans'
<1> SUFFICES ASSUME NEW n, NEW c, NEW a, Cached(n, c, a)' PROVE Truth(n, c, a)'
  BY DEF CacheMeans
<1> DEFINE q == <<tn, ctx>>
<1>1. /\ DOMAIN cache' = DOMAIN cache \cup {q} /\ cache'[q] = answer
      /\ \A y \in DOMAIN cache : y # q => cache'[y] = cache[y]
  <2>1. cache' = Put(cache, q, answer)
    OBVIOUS
  <2> HIDE DEF q
  <2>2. DOMAIN cache' = DOMAIN cache \cup {q}
    BY <2>1 DEF Put, OrElse
  <2>3. cache'[q] = answer
    BY <2>1 DEF Put, OrElse
  <2>4. \A y \in DOMAIN cache : y # q => cache'[y] = cache[y]
    BY <2>1 DEF Put, OrElse
  <2> QED BY <2>2, <2>3, <2>4
<1>2. <<n, c>> \in DOMAIN cache' /\ a = cache'[<<n, c>>]
  BY DEF Cached
<1>3. CASE <<n, c>> = q
  <2>1. n = tn /\ c = ctx /\ a = answer
    BY <1>1, <1>2, <1>3
  <2> QED BY <2>1, MeaningsStay
<1>4. CASE <<n, c>> # q
  <2>1. Cached(n, c, a)
    BY <1>1, <1>2, <1>4 DEF Cached
  <2> QED BY <2>1, MeaningsStay DEF CacheMeans
<1> QED BY <1>3, <1>4

LEMMA RecordedMeans ==
  ASSUME UNCHANGED <<program, decls>>, IsTable(table), TableMeans, NEW ref, NEW entry,
         EntryMeans(entry), Record(ref, entry)
  PROVE  TableMeans'
<1>1. /\ DOMAIN table' = DOMAIN table \cup {ref}
      /\ \A r \in DOMAIN table : r # ref => table'[r] = table[r]
      /\ IF ref \in DOMAIN table THEN table'[ref] = Append(table[ref], entry)
         ELSE table'[ref] = <<entry>>
  BY RecordIsTable
<1>2. ASSUME NEW e, InTable(e)' PROVE e = entry \/ InTable(e)
  <2>0. PICK r \in DOMAIN table' : \E i \in DOMAIN table'[r] : e = table'[r][i]
    BY <1>2 DEF InTable
  <2>1. PICK i \in DOMAIN table'[r] : e = table'[r][i]
    BY <2>0
  <2>2. CASE r # ref
    BY <1>1, <2>1, <2>2 DEF InTable
  <2>3. CASE r = ref /\ ref \notin DOMAIN table
    <3>1. table'[r] = <<entry>>
      BY <1>1, <2>3
    <3> DEFINE s == table'[r]
    <3>2. s = <<entry>> /\ i \in DOMAIN s /\ e = s[i]
      BY <2>1, <3>1
    <3> HIDE DEF s
    <3>3. DOMAIN s = 1 .. 1 /\ s[1] = entry
      BY <3>2
    <3> QED BY <3>2, <3>3
  <2>4. CASE r = ref /\ ref \in DOMAIN table
    <3>1. PICK S : table[ref] \in Seq(S)
      BY <2>4 DEF IsTable
    <3> DEFINE s == table[ref]
               t == table'[r]
    <3>2. t = Append(s, entry) /\ i \in DOMAIN t /\ e = t[i] /\ s \in Seq(S)
      BY <1>1, <2>1, <2>4, <3>1
    <3> HIDE DEF s, t
    <3>3. e = entry \/ (i \in DOMAIN s /\ e = s[i])
      BY <3>2
    <3> QED BY <2>4, <3>3 DEF InTable, s
  <2> QED BY <2>2, <2>3, <2>4
<1>3. ASSUME NEW e, InTable(e)' PROVE EntryMeans(e)'
  BY <1>2, <1>3, MeaningsStay DEF TableMeans
<1> QED BY <1>3 DEF TableMeans

(* The name the driver is about to record is in the source it is in. *)
LEMMA DriverIsInSource ==
  ASSUME Inv, Resolving, IsWalked(Head(work))
  PROVE  Head(work) \in Occurrences /\ Head(work).at[1] = source
<1> DEFINE item == Head(work)
<1>1. phase = "resolve" /\ work # <<>> /\ source # 0 /\ TypeInv
  BY DEF Resolving, Inv, TypeInv, WorkOK
<1>2. PICK z : DriverAt(z)
  BY <1>1 DEF Inv, ResolveInv
<1>3. item \in PlacedItems(program, source)
  <2>1. Walk(program, source, z, current, counter)
    BY <1>2 DEF DriverAt
  <2>2. z # <<>> /\ item = Head(z).it
    BY <1>1, <1>2, DriverHead
  <2> QED BY <2>1, <2>2, WalkHead
<1>4. item \in Range(work)
  <2> DEFINE R == Marked(Refs)
  <2>1. work \in Seq(R)
    BY <1>1 DEF TypeInv, WorkOK
  <2> HIDE DEF R
  <2> QED BY <1>1, <2>1, RangeOfRest
<1>5. item \in Occurrences
  BY <1>1, <1>4 DEF Inv, InternInv, Walkable
<1> QED BY <1>3, <1>5 DEF PlacedItems

LEMMA InsertMeans ==
  ASSUME MeaningInv, InsertNext, UNCHANGED driverVars
  PROVE  MeaningInv'
<1>1. phase = "insert" /\ phase' \in {"insert", "failed", "loaded"} /\ UNCHANGED <<cache, table>>
  BY DEF InsertNext, InsertSource, InsertDecl, InsertGlobal, InsertDuplicate, InsertNode,
         InsertEnd, driverVars
<1> QED BY <1>1 DEF MeaningInv

LEMMA NamesAreRecordedRight ==
  ASSUME UsesAreAbsolute, Inv, MeaningInv, WalkName
  PROVE  CacheMeans' /\ TableMeans'
<1> DEFINE item   == Head(work)
           tn     == Mapped(useMap, item.node.name)
           answer == Asked(tn, item.ctx)
           entry  == [at |-> item.at, resolved |-> answer # None,
                      name |-> IF answer # None THEN answer ELSE tn]
           known  == tn.ns.abs /\ tn \in AllNames
<1>1. /\ phase = "resolve" /\ work # <<>> /\ IsWalked(item) /\ UNCHANGED <<program, decls>>
      /\ cache' = IF known THEN cache ELSE Put(cache, <<tn, item.ctx>>, answer)
      /\ Record(current, entry)
  BY DEF WalkName, Resolving, RecordName
<1>2. CacheMeans /\ TableMeans /\ useMap = UseMapOf(AllNames, program[source].uses)
  BY <1>1 DEF MeaningInv
<1>3. Truth(tn, item.ctx, answer)
  BY <1>2, AnswersAreTrue
<1>4. item \in Occurrences /\ item.at[1] = source
  BY <1>1, DriverIsInSource DEF Resolving
<1>5. entry.at = item.at /\ entry.resolved = (answer # None)
      /\ entry.name = IF answer # None THEN answer ELSE tn
  OBVIOUS
<1>6. tn = Meant(AllNames, program[item.at[1]].uses, item.node.name)
  <2> DEFINE clauses == program[source].uses
  <2>1. program \in Programs /\ source \in DOMAIN program
    <3>1. program \in Programs /\ source \in 0 .. Len(program) /\ source # 0
      BY <1>1 DEF Inv, TypeInv, TypeOK, StateOK, WorkOK
    <3>2. program \in Seq(Sources)
      BY <3>1, ProgramsAssumption
    <3> QED BY <3>1, <3>2
  <2>2. clauses \in Seq(Clauses) /\ \A j \in DOMAIN clauses : AbsoluteTarget(clauses[j])
    <3>1. program \in Seq(Sources)
      BY <2>1, ProgramsAssumption
    <3>2. program[source] \in Sources
      BY <2>1, <3>1
    <3>3. clauses \in Seq(Clauses)
      BY <3>2 DEF Sources
    <3> QED BY <2>1, <3>3 DEF UsesAreAbsolute
  <2>3. AllNames \in SUBSET TypeNames
    BY DEF AllNames, Inv, TypeInv, TypeOK
  <2>4. item.node.name \in TypeNames
    <3>1. item \in Items
      BY <1>4, <2>1, OccurrencesAre
    <3>2. item.node \in Nodes /\ item.node.k \in NameKinds
      BY <3>1 DEF Items, WalkName
    <3> QED BY <3>2, NodesAssumption DEF IsNode, NameKinds
  <2> HIDE DEF item, clauses
  <2>5. Mapped(UseMapOf(AllNames, clauses), item.node.name) = Meant(AllNames, clauses, item.node.name)
    BY <2>2, <2>3, <2>4, MappedIsMeant
  <2> QED BY <1>2, <1>4, <2>5 DEF clauses
<1>7. CacheMeans'
  <2>1. CASE known
    BY <1>1, <1>2, <2>1, MeaningsKept
  <2>2. CASE ~known
    <3>1. cache' = Put(cache, <<tn, item.ctx>>, answer)
      BY <1>1, <2>2
    <3> HIDE DEF answer, tn, item, known
    <3> QED BY <1>1, <1>2, <1>3, <3>1, RememberedIsTrue
  <2> QED BY <2>1, <2>2
<1> HIDE DEF answer, tn, item, entry, known
<1>8. EntryMeans(entry)
  <2>1. Means(item, entry.resolved, entry.name)
    BY <1>3, <1>5, <1>6 DEF Means, Truth
  <2> QED BY <1>4, <1>5, <2>1 DEF EntryMeans
<1>9. IsTable(table)
  BY DEF Inv, TypeInv, StateOK
<1> QED BY <1>1, <1>2, <1>7, <1>8, <1>9, RecordedMeans

LEMMA DriverMeans ==
  ASSUME UsesAreAbsolute, Inv, Inv', MeaningInv, DriverNext
  PROVE  MeaningInv'
<1>1. phase' # "panicked"
  BY DEF Inv, InternInv
<1>2. UNCHANGED <<program, decls>>
  BY DEF DriverNext, StartResolve, SkipSource, ResolveSource, SkipDecl, ConsumeDeclRef,
         WalkDeclaration, LeaveDeclaration, WalkName, WalkNode, ResolveEnd, envVars
<1>3. AllNames' = AllNames
  BY <1>2 DEF AllNames
<1>4. CASE \E f \in Filters : StartResolve(f)
  <2>1. phase = "loaded" /\ phase' = "resolve" /\ work' = <<>> /\ UNCHANGED <<cache, table>>
    BY <1>4 DEF StartResolve
  <2>2. CacheMeans /\ TableMeans
    BY <2>1 DEF MeaningInv, CacheMeans, TableMeans, Cached, InTable
  <2> QED BY <1>2, <2>1, <2>2, MeaningsKept DEF MeaningInv
<1>5. CASE SkipSource
  <2>1. phase = "resolve" /\ phase' = phase /\ work = <<>> /\ UNCHANGED <<work, cache, table>>
    BY <1>5 DEF SkipSource, NextSource, driverVars
  <2> QED BY <1>2, <2>1, MeaningsKept DEF MeaningInv
<1>6. CASE ResolveSource
  <2>1. /\ phase = "resolve" /\ phase' = phase /\ UNCHANGED <<cache, table>> /\ source' = source + 1
        /\ useMap' = UseMapOf(AllNames, program[source + 1].uses)
    BY <1>6 DEF ResolveSource, NextSource, Enter
  <2> QED BY <1>2, <1>3, <2>1, MeaningsKept DEF MeaningInv
<1>7. CASE SkipDecl \/ ConsumeDeclRef \/ WalkDeclaration \/ LeaveDeclaration \/ WalkNode
  <2>1. phase = "resolve" /\ work # <<>> /\ UNCHANGED <<source, useMap, cache, table>>
    BY <1>7 DEF SkipDecl, ConsumeDeclRef, WalkDeclaration, LeaveDeclaration, WalkNode, Resolving,
                driverVars
  <2>2. phase' = phase
    BY <1>1, <1>7 DEF SkipDecl, ConsumeDeclRef, WalkDeclaration, LeaveDeclaration, WalkNode, Expect
  <2> QED BY <1>2, <1>3, <2>1, <2>2, MeaningsKept DEF MeaningInv
<1>8. CASE WalkName
  <2>1. phase = "resolve" /\ work # <<>> /\ UNCHANGED <<source, useMap>>
    BY <1>8 DEF WalkName, Resolving
  <2>2. phase' = phase
    BY <1>1, <1>8 DEF WalkName, Expect
  <2>3. CacheMeans' /\ TableMeans'
    BY <1>8, NamesAreRecordedRight
  <2> QED BY <1>2, <1>3, <2>1, <2>2, <2>3 DEF MeaningInv
<1>9. CASE ResolveEnd
  <2>1. phase = "resolve" /\ phase' = "resolved" /\ UNCHANGED table
    BY <1>9 DEF ResolveEnd, driverVars
  <2> QED BY <1>2, <2>1, MeaningsKept DEF MeaningInv
<1> QED BY <1>4, <1>5, <1>6, <1>7, <1>8, <1>9 DEF DriverNext

LEMMA BuilderMeans ==
  ASSUME Inv, Inv', MeaningInv, MaterializerNext, UNCHANGED driverVars
  PROVE  MeaningInv'
<1>1. phase' # "panicked"
  BY DEF Inv, InternInv
<1>2. UNCHANGED <<program, decls, table>>
  BY DEF MaterializerNext, StartMaterialize, MaterializeSource, MaterializeDecl, FinishDecl,
         MaterializeName, MaterializeNode, MaterializeEnd, envVars, driverVars
<1>3. \A e : InTable(e)' <=> InTable(e)
  BY <1>2 DEF InTable
<1>4. TableMeans => TableMeans'
  BY <1>2, MeaningsKept
<1>5. CASE StartMaterialize
  <2>1. phase \in {"loaded", "resolved"} /\ phase' = "materialize" /\ made' = made
    BY <1>5 DEF StartMaterialize
  <2>2. made = None
    BY <2>1 DEF Inv, BuildInv
  <2>3. TableMeans
    BY <2>1 DEF MeaningInv, TableMeans, InTable
  <2> QED BY <1>4, <2>1, <2>2, <2>3 DEF MeaningInv
<1>6. CASE MaterializeSource \/ MaterializeNode
  <2>1. phase = "materialize" /\ phase' = phase /\ made' = made
    BY <1>6 DEF MaterializeSource, MaterializeNode, Building, materializerVars
  <2> QED BY <1>3, <1>4, <2>1 DEF MeaningInv
<1>7. CASE MaterializeDecl
  <2>1. phase = "materialize" /\ made'.entry = NoEntry
    BY <1>7 DEF MaterializeDecl, Building
  <2>2. phase' = phase
    BY <1>1, <1>7 DEF MaterializeDecl, Expect
  <2> QED BY <1>4, <2>1, <2>2 DEF MeaningInv, NoEntry
<1>8. CASE FinishDecl
  <2>1. phase = "materialize" /\ phase' = phase /\ made' = None
    BY <1>8 DEF FinishDecl, Building
  <2> QED BY <1>4, <2>1 DEF MeaningInv
<1>9. CASE MaterializeName
  <2>1. PICK e : e = Pull(Head(work))
    OBVIOUS
  <2>2. phase = "materialize" /\ made'.entry = e /\ (e # NoEntry => made'.name = e.name)
    BY <1>9, <2>1 DEF MaterializeName, Building
  <2>3. phase' = phase
    BY <1>1, <1>9 DEF MaterializeName, Expect
  <2>4. ASSUME e # NoEntry PROVE InTable(e)
    <3>1. slice # None /\ cursor < Len(table[slice]) /\ e = table[slice][cursor + 1]
      BY <2>1, <2>4 DEF Pull
    <3>2. slice \in DOMAIN table /\ cursor \in Nat
      BY <3>1 DEF Inv, TypeInv, TypeOK, StateOK
    <3>3. PICK S : table[slice] \in Seq(S)
      BY <3>2 DEF Inv, TypeInv, StateOK, IsTable
    <3>4. cursor + 1 \in DOMAIN table[slice]
      BY <3>1, <3>2, <3>3
    <3> QED BY <3>1, <3>2, <3>4 DEF InTable
  <2> QED BY <1>3, <1>4, <2>2, <2>3, <2>4 DEF MeaningInv
<1>10. CASE MaterializeEnd
  <2>1. phase' = "done"
    BY <1>10 DEF MaterializeEnd
  <2> QED BY <2>1 DEF MeaningInv
<1> QED BY <1>5, <1>6, <1>7, <1>8, <1>9, <1>10 DEF MaterializerNext

LEMMA NextMeans ==
  ASSUME UsesAreAbsolute, Inv, Inv', MeaningInv, [Next]_vars
  PROVE  MeaningInv'
<1>1. CASE InsertNext /\ UNCHANGED <<driverVars, materializerVars>>
  BY <1>1, InsertMeans
<1>2. CASE DriverNext /\ UNCHANGED materializerVars
  BY <1>2, DriverMeans
<1>3. CASE MaterializerNext /\ UNCHANGED driverVars
  BY <1>3, BuilderMeans
<1>4. CASE UNCHANGED vars
  <2>1. UNCHANGED <<program, decls, phase, work, source, useMap, cache, table, made>>
    BY <1>4 DEF vars, insertVars, walkVars, envVars, driverVars, materializerVars
  <2>2. (\A e : InTable(e)' <=> InTable(e)) /\ AllNames' = AllNames
    BY <2>1 DEF InTable, AllNames
  <2>3. (CacheMeans => CacheMeans') /\ (TableMeans => TableMeans')
    BY <2>1, MeaningsKept
  <2> QED BY <2>1, <2>2, <2>3 DEF MeaningInv
<1> QED BY <1>1, <1>2, <1>3, <1>4 DEF Next

(* Every name that is built from an entry is what scoping makes of the name
   written there: the use clauses of its own source, each taken by itself,
   and the declarations around it decide.  Neither the driver's use map, in
   whatever order the clauses fill it, nor its cache, which is shared by all
   sources, nor the order of the walks, nor the way through the table and
   the materializer's cursor can make it another, if every target of a use
   clause is absolute, which the driver does not see to. *)
THEOREM NamesAreReferents ==
  NoSingletonArgs /\ UsesAreAbsolute => (Spec => []NamesMeanReferents)
<1> SUFFICES ASSUME NoSingletonArgs, UsesAreAbsolute PROVE Spec => []NamesMeanReferents
  OBVIOUS
<1>1. Init => Inv /\ MeaningInv
  <2>1. Init => MeaningInv
    BY DEF Init, InsertInit, DriverInit, MeaningInv
  <2> QED BY <2>1, InitWalks
<1>2. Inv /\ MeaningInv /\ [Next]_vars => (Inv /\ MeaningInv)'
  BY NextWalks, NextMeans
<1>3. Inv /\ MeaningInv => NamesMeanReferents
  <2> SUFFICES ASSUME Inv, MeaningInv, made # None, made.entry # NoEntry
               PROVE  \E x \in Occurrences :
                        x.at = made.at /\ Means(x, made.entry.resolved, made.name)
    BY DEF NamesMeanReferents
  <2>1. phase = "materialize" /\ made.entry.at = made.at
    BY DEF Inv, BuildInv, MadeOK
  <2>2. PICK e : made.name = made.entry.name /\ e = made.entry /\ InTable(e) /\ TableMeans
    BY <2>1 DEF MeaningInv
  <2>3. PICK x \in Occurrences : x.at = e.at /\ Means(x, e.resolved, e.name)
    BY <2>2 DEF TableMeans, EntryMeans
  <2> QED BY <2>1, <2>2, <2>3
<1> QED BY <1>1, <1>2, <1>3, PTL DEF Spec

=============================================================================
