--------------------------- MODULE InternerProofs ---------------------------
(***************************************************************************)
(* The tables of Interner stay bijections and ids keep their meaning, for  *)
(* every set of strings, every number of clones and every width of an id.  *)
(***************************************************************************)
EXTENDS Interner, SequenceTheorems, TLAPS

USE DEF Ids

(* A number below the modulus is its own remainder. *)
LEMMA SmallRemainder == ASSUME NEW n \in Nat, NEW m \in Nat, n < m PROVE n % m = n
OBVIOUS

(* Adding a value to a well-formed table keeps it a well-formed bijection,
   keeps every id it had, and gives the value an id. *)
LEMMA AddTable ==
  ASSUME NEW Values, NEW t, IsTable(t, Values), Bijective(t),
         Len(t.rev) < IdLimit, NEW v \in Values
  PROVE  /\ IsTable(Add(t, v), Values)
         /\ Bijective(Add(t, v))
         /\ Extends(t, Add(t, v))
         /\ Find(Add(t, v), v) \in Ids(Add(t, v))
         /\ Lookup(Add(t, v), Find(Add(t, v), v)) = v
         /\ Len(Add(t, v).rev) \in Len(t.rev) .. Len(t.rev) + 1
         /\ \A i \in 1..Len(Add(t, v).rev) :
              i \in 1..Len(t.rev) \/ Add(t, v).rev[i] = v
<1>1. CASE v \in DOMAIN t.map
  <2>1. PICK i \in 1..Len(t.rev) : t.rev[i] = v
    BY <1>1 DEF Bijective
  <2>2. t.map[v] = i - 1
    BY <2>1 DEF Bijective
  <2>3. Add(t, v) = t
    BY <1>1 DEF Add
  <2>4. t.rev \in Seq(Values)
    BY DEF IsTable
  <2>5. Find(t, v) \in Ids(t) /\ Lookup(t, Find(t, v)) = v
    BY <1>1, <2>1, <2>2, <2>4 DEF Find, Lookup
  <2>6. Extends(t, Add(t, v)) /\ Len(Add(t, v).rev) \in Len(t.rev) .. Len(t.rev) + 1
    BY <2>3, <2>4 DEF Extends
  <2>7. \A j \in 1..Len(Add(t, v).rev) : j \in 1..Len(t.rev) \/ Add(t, v).rev[j] = v
    BY <2>3
  <2>8. IsTable(Add(t, v), Values) /\ Bijective(Add(t, v))
    BY <2>3
  <2>9. Find(Add(t, v), v) \in Ids(Add(t, v)) /\ Lookup(Add(t, v), Find(Add(t, v), v)) = v
    BY <2>3, <2>5
  <2> QED
    BY <2>6, <2>7, <2>8, <2>9
<1>2. CASE v \notin DOMAIN t.map
  <2> DEFINE u == Add(t, v)
  <2>1. NextId(t) = Len(t.rev)
    <3>1. PICK n \in Nat : n = Len(t.rev)
      BY DEF IsTable
    <3>2. n % IdLimit = n
      BY <3>1, SmallRemainder, WidthAssumption
    <3> QED BY <3>1, <3>2 DEF NextId
  <2>2. /\ u.rev = Append(t.rev, v)
        /\ u.map = [x \in DOMAIN t.map \cup {v} |->
                      IF x = v THEN Len(t.rev) ELSE t.map[x]]
        /\ u = [rev |-> u.rev, map |-> u.map]
    BY <1>2, <2>1 DEF Add
  <2> HIDE DEF u
  <2>3. /\ t.rev \in Seq(Values)
        /\ t.map \in [DOMAIN t.map -> Nat]
    BY DEF IsTable
  <2>4. /\ u.rev \in Seq(Values)
        /\ Len(u.rev) = Len(t.rev) + 1
        /\ u.rev[Len(t.rev) + 1] = v
        /\ \A i \in 1..Len(t.rev) : u.rev[i] = t.rev[i]
    BY <2>2, <2>3
  <2>5. IsTable(u, Values)
    BY <2>2, <2>3, <2>4 DEF IsTable
  <2>6. DOMAIN u.map = {u.rev[i] : i \in 1..Len(u.rev)}
    BY <2>2, <2>3, <2>4 DEF Bijective
  <2>7. ASSUME NEW i \in 1..Len(u.rev) PROVE u.map[u.rev[i]] = i - 1
    <3>1. CASE i = Len(t.rev) + 1
      BY <3>1, <2>2, <2>3, <2>4
    <3>2. CASE i \in 1..Len(t.rev)
      BY <3>2, <2>2, <2>3, <2>4, <1>2 DEF Bijective
    <3> QED BY <3>1, <3>2, <2>3, <2>4
  <2>8. Bijective(u)
    BY <2>6, <2>7 DEF Bijective
  <2>9. Find(u, v) = Len(t.rev)
    BY <2>2 DEF Find
  <2> QED
    BY <2>3, <2>4, <2>5, <2>8, <2>9 DEF Extends, Lookup, u
<1> QED BY <1>1, <1>2

-----------------------------------------------------------------------------
(* The inductive invariant: well-formed bijections, ids inside entries that
   are in range, kinds that follow from names, and clones that extend the
   shared interner they came from. *)

NamespaceValue == [path : Seq(Nat), abs : BOOLEAN]
TypeNameValue  == [ns : Nat, name : Nat, kind : TypeNameKinds]

TablesOK(h) ==
  /\ IsTable(symbols[h], Strings)            /\ Bijective(symbols[h])
  /\ IsTable(namespaces[h], NamespaceValue)  /\ Bijective(namespaces[h])
  /\ IsTable(typeNames[h], TypeNameValue)    /\ Bijective(typeNames[h])

PathInRange(h, n) ==
  \A k \in 1..Len(n.path) : n.path[k] \in Ids(symbols[h])

TypeNameInRange(h, t) ==
  /\ t.ns \in Ids(namespaces[h])
  /\ t.name \in Ids(symbols[h])
  /\ t.kind = Kind[Lookup(symbols[h], t.name)]

EntriesInRange(h) ==
  /\ \A i \in 1..Len(namespaces[h].rev) : PathInRange(h, namespaces[h].rev[i])
  /\ \A i \in 1..Len(typeNames[h].rev) : TypeNameInRange(h, typeNames[h].rev[i])

Cloned(g) ==
  /\ origin[g] \in shared
  /\ g \in live
  /\ Extends(symbols[origin[g]], symbols[g])
  /\ Extends(namespaces[origin[g]], namespaces[g])
  /\ Extends(typeNames[origin[g]], typeNames[g])

Shape ==
  /\ live \subseteq Handles
  /\ shared \subseteq live
  /\ symbols = [h \in Handles |-> symbols[h]]
  /\ namespaces = [h \in Handles |-> namespaces[h]]
  /\ typeNames = [h \in Handles |-> typeNames[h]]
  /\ origin \in [Handles -> Handles \cup {None}]

IInv ==
  /\ Shape
  /\ \A h \in Handles : TablesOK(h) /\ EntriesInRange(h)
  /\ \A g \in Handles : origin[g] # None => Cloned(g)

(* What any mutation of interner h amounts to: each table is left alone or
   gets one value whose ids are in range. *)
Growth(h) ==
  /\ UNCHANGED <<live, shared, origin>>
  /\ \/ UNCHANGED symbols
     \/ SymbolRoom(h) /\ \E s \in Strings : AddSymbol(h, s)
  /\ \/ UNCHANGED namespaces
     \/ NamespaceRoom(h) /\ \E n \in NamespaceValue : PathInRange(h, n) /\ AddNamespace(h, n)
  /\ \/ UNCHANGED typeNames
     \/ TypeNameRoom(h) /\ \E t \in TypeNameValue :
          /\ t.ns \in Ids(namespaces'[h])
          /\ t.name \in Ids(symbols[h])
          /\ t.kind = Kind[Lookup(symbols[h], t.name)]
          /\ AddTypeName(h, t)

(* Rooms lie below the width of an id. *)
LEMMA RoomBelowLimit ==
  ASSUME NEW h \in Handles, TablesOK(h)
  PROVE  /\ SymbolRoom(h) => Len(symbols[h].rev) < IdLimit
         /\ NamespaceRoom(h) => Len(namespaces[h].rev) < IdLimit
         /\ TypeNameRoom(h) => Len(typeNames[h].rev) < IdLimit
  BY WidthAssumption DEF TablesOK, IsTable, SymbolRoom, NamespaceRoom, TypeNameRoom

(* Growth of h: its tables stay well formed and extend what they were. *)
LEMMA GrowthOfTables ==
  ASSUME Shape, NEW h \in Handles, TablesOK(h), Growth(h)
  PROVE  /\ TablesOK(h)'
         /\ Extends(symbols[h], symbols'[h])
         /\ Extends(namespaces[h], namespaces'[h])
         /\ Extends(typeNames[h], typeNames'[h])
         /\ \A i \in 1..Len(namespaces'[h].rev) :
              i \in 1..Len(namespaces[h].rev) \/ PathInRange(h, namespaces'[h].rev[i])
         /\ \A i \in 1..Len(typeNames'[h].rev) :
              \/ i \in 1..Len(typeNames[h].rev)
              \/ LET t == typeNames'[h].rev[i]
                 IN  /\ t.ns \in Ids(namespaces'[h])
                     /\ t.name \in Ids(symbols[h])
                     /\ t.kind = Kind[Lookup(symbols[h], t.name)]
<1>1. /\ IsTable(symbols[h], Strings)'
      /\ Bijective(symbols[h])'
      /\ Extends(symbols[h], symbols'[h])
  <2>1. CASE UNCHANGED symbols
    BY <2>1 DEF TablesOK, Extends, IsTable, Bijective
  <2>2. CASE SymbolRoom(h) /\ \E s \in Strings : AddSymbol(h, s)
    <3>1. PICK s \in Strings : symbols'[h] = Add(symbols[h], s)
      BY <2>2 DEF AddSymbol, Shape
    <3> QED BY <3>1, <2>2, AddTable, RoomBelowLimit DEF TablesOK
  <2> QED BY <2>1, <2>2 DEF Growth
<1>2. /\ IsTable(namespaces[h], NamespaceValue)'
      /\ Bijective(namespaces[h])'
      /\ Extends(namespaces[h], namespaces'[h])
      /\ \A i \in 1..Len(namespaces'[h].rev) :
              i \in 1..Len(namespaces[h].rev) \/ PathInRange(h, namespaces'[h].rev[i])
  <2>1. CASE UNCHANGED namespaces
    BY <2>1 DEF TablesOK, Extends, IsTable, Bijective
  <2>2. CASE NamespaceRoom(h) /\ \E n \in NamespaceValue : PathInRange(h, n) /\ AddNamespace(h, n)
    <3>1. PICK n \in NamespaceValue :
            PathInRange(h, n) /\ namespaces'[h] = Add(namespaces[h], n)
      BY <2>2 DEF AddNamespace, Shape
    <3> QED BY <3>1, <2>2, AddTable, RoomBelowLimit DEF TablesOK
  <2> QED BY <2>1, <2>2 DEF Growth
<1>3. /\ IsTable(typeNames[h], TypeNameValue)'
      /\ Bijective(typeNames[h])'
      /\ Extends(typeNames[h], typeNames'[h])
      /\ \A i \in 1..Len(typeNames'[h].rev) :
              \/ i \in 1..Len(typeNames[h].rev)
              \/ LET t == typeNames'[h].rev[i]
                 IN  /\ t.ns \in Ids(namespaces'[h])
                     /\ t.name \in Ids(symbols[h])
                     /\ t.kind = Kind[Lookup(symbols[h], t.name)]
  <2>1. CASE UNCHANGED typeNames
    BY <2>1 DEF TablesOK, Extends, IsTable, Bijective
  <2>2. CASE ~(UNCHANGED typeNames)
    <3>1. TypeNameRoom(h)
      BY <2>2 DEF Growth
    <3>2. PICK t \in TypeNameValue :
            /\ t.ns \in Ids(namespaces'[h])
            /\ t.name \in Ids(symbols[h])
            /\ t.kind = Kind[Lookup(symbols[h], t.name)]
            /\ typeNames'[h] = Add(typeNames[h], t)
      BY <2>2 DEF Growth, AddTypeName, Shape
    <3>3. /\ IsTable(typeNames[h], TypeNameValue) /\ Bijective(typeNames[h])
          /\ Len(typeNames[h].rev) < IdLimit
      BY <3>1, RoomBelowLimit DEF TablesOK
    <3>4. PICK u : u = typeNames[h]
      OBVIOUS
    <3>5. /\ IsTable(Add(u, t), TypeNameValue) /\ Bijective(Add(u, t)) /\ Extends(u, Add(u, t))
          /\ \A i \in 1..Len(Add(u, t).rev) : i \in 1..Len(u.rev) \/ Add(u, t).rev[i] = t
      BY <3>2, <3>3, <3>4, AddTable
    <3>6. PICK w : w = Add(u, t) /\ typeNames'[h] = w
      BY <3>2, <3>4
    <3>7. IsTable(w, TypeNameValue) /\ Bijective(w) /\ Extends(u, w)
      BY <3>5, <3>6
    <3> QED BY <3>2, <3>4, <3>5, <3>6, <3>7
  <2> QED BY <2>1, <2>2
<1> QED BY <1>1, <1>2, <1>3 DEF TablesOK

(* What lookups of ids in range return. *)
LEMMA LookupInRange ==
  ASSUME NEW h \in Handles, TablesOK(h), EntriesInRange(h)
  PROVE  /\ \A ns \in Ids(namespaces[h]) :
              /\ Lookup(namespaces[h], ns) \in NamespaceValue
              /\ PathInRange(h, Lookup(namespaces[h], ns))
         /\ \A tn \in Ids(typeNames[h]) :
              /\ Lookup(typeNames[h], tn) \in TypeNameValue
              /\ TypeNameInRange(h, Lookup(typeNames[h], tn))
         /\ \A s \in Ids(symbols[h]) : Lookup(symbols[h], s) \in Strings
<1>1. ASSUME NEW ns \in Ids(namespaces[h])
      PROVE  /\ Lookup(namespaces[h], ns) \in NamespaceValue
             /\ PathInRange(h, Lookup(namespaces[h], ns))
  <2>1. ns + 1 \in 1..Len(namespaces[h].rev)
    BY DEF TablesOK, IsTable
  <2> QED BY <2>1 DEF TablesOK, IsTable, EntriesInRange, Lookup
<1>2. ASSUME NEW tn \in Ids(typeNames[h])
      PROVE  /\ Lookup(typeNames[h], tn) \in TypeNameValue
             /\ TypeNameInRange(h, Lookup(typeNames[h], tn))
  <2>1. tn + 1 \in 1..Len(typeNames[h].rev)
    BY DEF TablesOK, IsTable
  <2> QED BY <2>1 DEF TablesOK, IsTable, EntriesInRange, Lookup
<1>3. ASSUME NEW s \in Ids(symbols[h])
      PROVE  Lookup(symbols[h], s) \in Strings
  BY DEF TablesOK, IsTable, Lookup
<1> QED BY <1>1, <1>2, <1>3

(* Positions of a concatenation that fall into its second part. *)
LEMMA SecondHalf ==
  ASSUME NEW a \in Nat, NEW b \in Nat, NEW k \in 1..(a + b), k > a
  PROVE  k - a \in 1..b
  OBVIOUS

(* The values the namespace operations build are namespaces over symbol ids
   of the same interner. *)
LEMMA NamespaceValues ==
  ASSUME NEW h \in Handles, NEW n \in NamespaceValue, PathInRange(h, n)
  PROVE  /\ \A seg \in Ids(symbols[h]) :
              seg \in Nat => /\ AppendValue(n, seg) \in NamespaceValue
                             /\ PathInRange(h, AppendValue(n, seg))
         /\ n.path # <<>> => /\ ParentValue(n) \in NamespaceValue
                             /\ PathInRange(h, ParentValue(n))
         /\ \A r \in NamespaceValue :
              PathInRange(h, r) => /\ JoinValue(n, r) \in NamespaceValue
                                   /\ PathInRange(h, JoinValue(n, r))
<1>1. ASSUME NEW seg \in Ids(symbols[h]), seg \in Nat
      PROVE  /\ AppendValue(n, seg) \in NamespaceValue
             /\ PathInRange(h, AppendValue(n, seg))
  <2>1. /\ n.path \in Seq(Nat) /\ n.abs \in BOOLEAN
        /\ AppendValue(n, seg).path = Append(n.path, seg)
    BY DEF NamespaceValue, AppendValue, Namespace
  <2>2. AppendValue(n, seg) \in NamespaceValue
    BY <1>1, <2>1 DEF NamespaceValue, AppendValue, Namespace
  <2>3. ASSUME NEW k \in 1..Len(Append(n.path, seg))
        PROVE  Append(n.path, seg)[k] \in Ids(symbols[h])
    BY <2>1 DEF PathInRange
  <2> QED BY <2>1, <2>2, <2>3 DEF PathInRange
<1>2. ASSUME n.path # <<>>
      PROVE  /\ ParentValue(n) \in NamespaceValue
             /\ PathInRange(h, ParentValue(n))
  <2>1. /\ n.path \in Seq(Nat) /\ n.abs \in BOOLEAN
        /\ ParentValue(n).path = SubSeq(n.path, 1, Len(n.path) - 1)
    BY DEF NamespaceValue, ParentValue, Namespace
  <2>2. ParentValue(n).path \in Seq(Nat)
    BY <2>1, <1>2
  <2>3. ParentValue(n) \in NamespaceValue
    BY <2>1, <2>2 DEF NamespaceValue, ParentValue, Namespace
  <2>4. ASSUME NEW k \in 1..Len(ParentValue(n).path)
        PROVE  ParentValue(n).path[k] \in Ids(symbols[h])
    <3>1. /\ Len(n.path) - 1 \in Nat
          /\ Len(SubSeq(n.path, 1, Len(n.path) - 1)) = Len(n.path) - 1
      BY <1>2, <2>1
    <3>2. /\ k \in 1..Len(n.path)
          /\ SubSeq(n.path, 1, Len(n.path) - 1)[k] = n.path[k]
      BY <2>1, <3>1
    <3> QED BY <2>1, <3>2 DEF PathInRange
  <2> QED BY <2>3, <2>4 DEF PathInRange
<1>3. ASSUME NEW r \in NamespaceValue, PathInRange(h, r)
      PROVE  /\ JoinValue(n, r) \in NamespaceValue
             /\ PathInRange(h, JoinValue(n, r))
  <2>1. CASE r.abs
    BY <1>3, <2>1 DEF JoinValue
  <2>2. CASE ~r.abs
    <3>1. /\ n.path \in Seq(Nat) /\ r.path \in Seq(Nat) /\ n.abs \in BOOLEAN
          /\ JoinValue(n, r) = [path |-> n.path \o r.path, abs |-> n.abs]
      BY <2>2 DEF NamespaceValue, JoinValue, Namespace
    <3>2. n.path \o r.path \in Seq(Nat)
      BY <3>1
    <3>3. ASSUME NEW k \in 1..Len(n.path \o r.path)
          PROVE  (n.path \o r.path)[k] \in Ids(symbols[h])
      <4>1. Len(n.path \o r.path) = Len(n.path) + Len(r.path)
        BY <3>1
      <4>a. Len(n.path) \in Nat /\ Len(r.path) \in Nat
        BY <3>1
      <4>b. k \in 1..(Len(n.path) + Len(r.path))
        BY <4>1, Zenon
      <4>2. CASE k <= Len(n.path)
        BY <3>1, <4>1, <4>2 DEF PathInRange
      <4>3. CASE k > Len(n.path)
        <5>1. k - Len(n.path) \in 1..Len(r.path)
          BY <4>a, <4>b, <4>3, SecondHalf, Zenon
        <5> QED BY <1>3, <3>1, <4>1, <4>3, <5>1 DEF PathInRange
      <4> QED BY <3>1, <4>2, <4>3
    <3> QED BY <3>1, <3>2, <3>3 DEF NamespaceValue, PathInRange
  <2> QED BY <2>1, <2>2 DEF NamespaceValue
<1> QED BY <1>1, <1>2, <1>3

(* Every mutation of an interner is a growth of it. *)
LEMMA MutationGrows ==
  ASSUME IInv, NEW h \in Handles, Mutate(h)
  PROVE  Growth(h)
<1> USE DEF Growth
<1>0. TablesOK(h) /\ EntriesInRange(h) /\ Shape
  BY DEF IInv
<1>a. \A k \in Ids(symbols[h]) : k \in Nat
  OBVIOUS
<1>b. \A k \in Ids(namespaces[h]) : k \in Nat
  OBVIOUS
<1>1. ASSUME NEW s \in Strings, SymbolIntern(h, s) PROVE Growth(h)
  BY <1>1 DEF SymbolIntern
<1>2. ASSUME NEW path \in Paths(h), NEW abs \in BOOLEAN, NamespaceIntern(h, path, abs)
      PROVE  Growth(h)
  <2>1. PICK n \in 0..MaxPath : path \in [1..n -> Ids(symbols[h])]
    BY DEF Paths
  <2>2. path \in Seq(Nat) /\ Len(path) = n
    BY <2>1, <1>a
  <2>3. /\ Namespace(path, abs) \in NamespaceValue
        /\ PathInRange(h, Namespace(path, abs))
    BY <2>1, <2>2 DEF Namespace, NamespaceValue, PathInRange
  <2> QED BY <1>2, <2>3 DEF NamespaceIntern
<1>3. ASSUME NEW ns \in Ids(namespaces[h]), NEW seg \in Ids(symbols[h]),
             NamespaceAppend(h, ns, seg)
      PROVE  Growth(h)
  <2>1. /\ Lookup(namespaces[h], ns) \in NamespaceValue
        /\ PathInRange(h, Lookup(namespaces[h], ns))
    BY <1>0, LookupInRange
  <2> QED BY <1>3, <2>1, <1>a, NamespaceValues DEF NamespaceAppend
<1>4. ASSUME NEW ns \in Ids(namespaces[h]), NEW seg \in Ids(symbols[h]),
             TypeNameIntern(h, ns, seg)
      PROVE  Growth(h)
  <2> DEFINE t == TypeName(ns, seg, Kind[Lookup(symbols[h], seg)])
  <2>1. Kind[Lookup(symbols[h], seg)] \in TypeNameKinds
    BY <1>0, LookupInRange, KindAssumption
  <2>2. t \in TypeNameValue
    BY <2>1, <1>a, <1>b DEF TypeName, TypeNameValue
  <2>3. namespaces' = namespaces
    BY <1>4 DEF TypeNameIntern
  <2> QED BY <1>4, <2>2, <2>3 DEF TypeNameIntern, TypeName
<1>5. ASSUME NEW l \in Ids(namespaces[h]), NEW r \in Ids(namespaces[h]),
             NamespaceJoin(h, l, r)
      PROVE  Growth(h)
  <2>1. /\ Lookup(namespaces[h], l) \in NamespaceValue
        /\ PathInRange(h, Lookup(namespaces[h], l))
        /\ Lookup(namespaces[h], r) \in NamespaceValue
        /\ PathInRange(h, Lookup(namespaces[h], r))
    BY <1>0, LookupInRange
  <2> QED BY <1>5, <2>1, NamespaceValues DEF NamespaceJoin
<1>6. ASSUME NEW ns \in Ids(namespaces[h]), NamespaceParent(h, ns) PROVE Growth(h)
  <2>1. /\ Lookup(namespaces[h], ns) \in NamespaceValue
        /\ PathInRange(h, Lookup(namespaces[h], ns))
    BY <1>0, LookupInRange
  <2> QED BY <1>6, <2>1, NamespaceValues DEF NamespaceParent
<1>7. ASSUME NEW ns \in Ids(namespaces[h]), NEW tn \in Ids(typeNames[h]),
             TypeNameWithPrefix(h, ns, tn)
      PROVE  Growth(h)
  <2> DEFINE t == Lookup(typeNames[h], tn)
             v == JoinValue(Lookup(namespaces[h], ns), Lookup(namespaces[h], t.ns))
             joined == Add(namespaces[h], v)
             new == TypeName(Find(joined, v), t.name, t.kind)
  <2>1. /\ NamespaceRoom(h) /\ TypeNameRoom(h)
        /\ namespaces' = [namespaces EXCEPT ![h] = joined]
        /\ AddTypeName(h, new)
        /\ UNCHANGED <<live, shared, symbols, origin>>
    BY <1>7 DEF TypeNameWithPrefix
  <2>2. t \in TypeNameValue /\ TypeNameInRange(h, t)
    BY <1>0, LookupInRange
  <2>3. v \in NamespaceValue /\ PathInRange(h, v)
    <3>1. t.ns \in Ids(namespaces[h])
      BY <2>2 DEF TypeNameInRange
    <3>2. /\ Lookup(namespaces[h], ns) \in NamespaceValue
          /\ PathInRange(h, Lookup(namespaces[h], ns))
          /\ Lookup(namespaces[h], t.ns) \in NamespaceValue
          /\ PathInRange(h, Lookup(namespaces[h], t.ns))
      BY <1>0, <3>1, LookupInRange
    <3> QED BY <3>2, NamespaceValues
  <2>4. namespaces'[h] = joined
    BY <1>0, <2>1 DEF Shape
  <2>5. Find(joined, v) \in Ids(joined)
    BY <1>0, <2>1, <2>3, AddTable, RoomBelowLimit DEF TablesOK
  <2>6. new \in TypeNameValue
    BY <2>2, <2>5 DEF TypeName, TypeNameValue
  <2>7. /\ new.ns \in Ids(namespaces'[h])
        /\ new.name \in Ids(symbols[h])
        /\ new.kind = Kind[Lookup(symbols[h], new.name)]
    BY <2>2, <2>4, <2>5 DEF TypeName, TypeNameInRange
  <2> HIDE DEF new, joined, v, t
  <2>8. NamespaceRoom(h) /\ \E n \in NamespaceValue : PathInRange(h, n) /\ AddNamespace(h, n)
    BY <2>1, <2>3 DEF AddNamespace, joined
  <2> QED BY <2>1, <2>6, <2>7, <2>8
<1>8. ASSUME NEW tn \in Ids(typeNames[h]), TypeNameToNamespace(h, tn) PROVE Growth(h)
  <2> DEFINE t == Lookup(typeNames[h], tn)
  <2>1. t.ns \in Ids(namespaces[h]) /\ t.name \in Ids(symbols[h])
    BY <1>0, LookupInRange DEF TypeNameInRange
  <2>2. NamespaceAppend(h, t.ns, t.name)
    BY <1>8 DEF TypeNameToNamespace
  <2> HIDE DEF t
  <2> QED BY <2>1, <2>2, <1>3
<1> QED BY <1>1, <1>2, <1>3, <1>4, <1>5, <1>6, <1>7, <1>8 DEF Mutate

-----------------------------------------------------------------------------
(* The invariant is inductive. *)

(* An id has room for the two namespaces every interner starts with. *)
LEMMA TwoIds ==
  ASSUME NEW n \in 0..1
  PROVE  n < IdLimit
  BY WidthAssumption

(* The tables a new interner starts from. *)
LEMMA NewTables ==
  /\ IsTable(Empty, Strings) /\ IsTable(Empty, TypeNameValue)
  /\ Bijective(Empty)
  /\ IsTable(NewNamespaces, NamespaceValue)
  /\ Bijective(NewNamespaces)
  /\ \A i \in 1..Len(NewNamespaces.rev) : NewNamespaces.rev[i].path = <<>>
  /\ Len(Empty.rev) = 0
<1>1. /\ \A Values : IsTable(Empty, Values)
      /\ Bijective(Empty)
      /\ Len(Empty.rev) = 0
  BY DEF Empty, IsTable, Bijective
<1> DEFINE a == Namespace(<<>>, FALSE)
           b == Namespace(<<>>, TRUE)
           one == Add(Empty, a)
<1>2. a \in NamespaceValue /\ b \in NamespaceValue
  BY DEF Namespace, NamespaceValue
<1>3. /\ IsTable(one, NamespaceValue) /\ Bijective(one)
      /\ Len(one.rev) \in 0..1
      /\ \A i \in 1..Len(one.rev) : one.rev[i] = a
  <2>1. Len(Empty.rev) < IdLimit
    BY <1>1, WidthAssumption
  <2>2. IsTable(Empty, NamespaceValue) /\ Bijective(Empty)
    BY <1>1
  <2> HIDE DEF a
  <2>3. /\ IsTable(one, NamespaceValue) /\ Bijective(one)
        /\ Len(one.rev) \in Len(Empty.rev) .. Len(Empty.rev) + 1
        /\ \A i \in 1..Len(one.rev) : i \in 1..Len(Empty.rev) \/ one.rev[i] = a
    BY <1>2, <2>1, <2>2, AddTable
  <2> HIDE DEF one
  <2> QED BY <1>1, <2>3
<1>4. /\ IsTable(NewNamespaces, NamespaceValue) /\ Bijective(NewNamespaces)
      /\ Extends(one, NewNamespaces)
      /\ \A i \in 1..Len(NewNamespaces.rev) :
           i \in 1..Len(one.rev) \/ NewNamespaces.rev[i] = b
  <2>2. NewNamespaces = Add(one, b)
    BY DEF NewNamespaces
  <2> HIDE DEF one, b
  <2>1. Len(one.rev) < IdLimit
    BY <1>3, TwoIds, Zenon
  <2>3. /\ IsTable(Add(one, b), NamespaceValue) /\ Bijective(Add(one, b))
        /\ Extends(one, Add(one, b))
        /\ \A i \in 1..Len(Add(one, b).rev) :
             i \in 1..Len(one.rev) \/ Add(one, b).rev[i] = b
    BY <1>2, <1>3, <2>1, AddTable
  <2> QED BY <2>2, <2>3
<1>5. ASSUME NEW i \in 1..Len(NewNamespaces.rev) PROVE NewNamespaces.rev[i].path = <<>>
  <2>1. NewNamespaces.rev[i] = a \/ NewNamespaces.rev[i] = b
    BY <1>3, <1>4 DEF Extends
  <2> QED BY <2>1 DEF Namespace
<1> QED BY <1>1, <1>4, <1>5

(* The initial state satisfies the invariant. *)
LEMMA InitIInv == Init => IInv
<1> SUFFICES ASSUME Init PROVE IInv
  OBVIOUS
<1>1. Shape
  BY HandleAssumption DEF Init, Shape
<1>2. ASSUME NEW h \in Handles PROVE TablesOK(h) /\ EntriesInRange(h)
  <2>1. symbols[h] = Empty /\ namespaces[h] = NewNamespaces /\ typeNames[h] = Empty
    BY DEF Init
  <2>2. TablesOK(h)
    BY <2>1, NewTables DEF TablesOK
  <2>3. EntriesInRange(h)
    BY <2>1, NewTables DEF EntriesInRange, PathInRange
  <2> QED BY <2>2, <2>3
<1>3. \A g \in Handles : origin[g] = None
  BY DEF Init
<1> QED BY <1>1, <1>2, <1>3 DEF IInv

TableLengths(h) ==
  /\ Len(symbols[h].rev) \in Nat
  /\ Len(namespaces[h].rev) \in Nat
  /\ Len(typeNames[h].rev) \in Nat

(* Sizes of well-formed tables. *)
LEMMA Lengths ==
  ASSUME NEW h \in Handles, TablesOK(h)
  PROVE  TableLengths(h)
  BY DEF TablesOK, IsTable, TableLengths

(* Extends is transitive. *)
LEMMA ExtendsTransitive ==
  ASSUME NEW t, NEW u, NEW w, Extends(t, u), Extends(u, w),
         Len(t.rev) \in Nat, Len(u.rev) \in Nat, Len(w.rev) \in Nat
  PROVE  Extends(t, w)
  BY DEF Extends

(* A mutation of one open interner keeps the invariant, and changes no id. *)
LEMMA MutateStep ==
  ASSUME IInv, NEW h \in live \ shared, Mutate(h)
  PROVE  /\ IInv'
         /\ \A g \in Handles :
              /\ Extends(symbols[g], symbols'[g])
              /\ Extends(namespaces[g], namespaces'[g])
              /\ Extends(typeNames[g], typeNames'[g])
              /\ g # h => UNCHANGED <<symbols[g], namespaces[g], typeNames[g]>>
<1>1. h \in Handles /\ Shape /\ TablesOK(h) /\ EntriesInRange(h)
  BY DEF IInv, Shape
<1>2. Growth(h)
  BY <1>1, MutationGrows
<1>3. /\ UNCHANGED <<live, shared, origin>>
      /\ symbols' = [symbols EXCEPT ![h] = symbols'[h]]
      /\ namespaces' = [namespaces EXCEPT ![h] = namespaces'[h]]
      /\ typeNames' = [typeNames EXCEPT ![h] = typeNames'[h]]
  <2>1. symbols' = [symbols EXCEPT ![h] = symbols'[h]]
    BY <1>1, <1>2 DEF Growth, AddSymbol, Shape
  <2>2. namespaces' = [namespaces EXCEPT ![h] = namespaces'[h]]
    BY <1>1, <1>2 DEF Growth, AddNamespace, Shape
  <2>3. typeNames' = [typeNames EXCEPT ![h] = typeNames'[h]]
    BY <1>1, <1>2 DEF Growth, AddTypeName, Shape
  <2> QED BY <1>2, <2>1, <2>2, <2>3 DEF Growth
<1>4. Shape'
  BY <1>1, <1>3 DEF Shape
<1>5. ASSUME NEW g \in Handles, g # h
      PROVE  UNCHANGED <<symbols[g], namespaces[g], typeNames[g]>>
  BY <1>1, <1>3, <1>5 DEF Shape
<1>6. /\ TablesOK(h)'
      /\ Extends(symbols[h], symbols'[h])
      /\ Extends(namespaces[h], namespaces'[h])
      /\ Extends(typeNames[h], typeNames'[h])
  BY <1>1, <1>2, GrowthOfTables
<1>7. EntriesInRange(h)'
  <2>0. /\ Len(symbols[h].rev) \in Nat /\ Len(symbols'[h].rev) \in Nat
        /\ Len(namespaces[h].rev) \in Nat /\ Len(namespaces'[h].rev) \in Nat
        /\ Len(symbols[h].rev) <= Len(symbols'[h].rev)
        /\ Len(namespaces[h].rev) <= Len(namespaces'[h].rev)
    <3>1. TablesOK(h) /\ TablesOK(h)'
      BY <1>1, <1>6
    <3>2. /\ symbols[h].rev \in Seq(Strings) /\ symbols'[h].rev \in Seq(Strings)
          /\ namespaces[h].rev \in Seq(NamespaceValue) /\ namespaces'[h].rev \in Seq(NamespaceValue)
      BY <3>1 DEF TablesOK, IsTable
    <3> QED BY <1>6, <3>2 DEF Extends
  <2>1. /\ \A s \in Ids(symbols[h]) : s \in Ids(symbols'[h])
        /\ \A n \in Ids(namespaces[h]) : n \in Ids(namespaces'[h])
    BY <2>0
  <2>2. ASSUME NEW s \in Ids(symbols[h]) PROVE Lookup(symbols'[h], s) = Lookup(symbols[h], s)
    <3>1. s + 1 \in 1 .. Len(symbols[h].rev)
      BY <2>0 DEF Ids
    <3> QED BY <1>6, <3>1 DEF Extends, Lookup
  <2>3. ASSUME NEW i \in 1..Len(namespaces'[h].rev)
        PROVE  PathInRange(h, namespaces[h].rev[i])'
    <3>1. PathInRange(h, namespaces'[h].rev[i])
      <4>1. CASE i \in 1..Len(namespaces[h].rev)
        BY <1>1, <1>6, <4>1 DEF EntriesInRange, Extends
      <4>2. CASE i \notin 1..Len(namespaces[h].rev)
        BY <1>1, <1>2, <4>2, GrowthOfTables
      <4> QED BY <4>1, <4>2
    <3> QED BY <3>1, <2>1 DEF PathInRange
  <2>4. ASSUME NEW i \in 1..Len(typeNames'[h].rev)
        PROVE  TypeNameInRange(h, typeNames[h].rev[i])'
    <3> DEFINE t == typeNames'[h].rev[i]
    <3>1. /\ t.ns \in Ids(namespaces'[h])
          /\ t.name \in Ids(symbols[h])
          /\ t.kind = Kind[Lookup(symbols[h], t.name)]
      <4>1. CASE i \in 1..Len(typeNames[h].rev)
        BY <1>1, <1>6, <2>1, <4>1 DEF EntriesInRange, TypeNameInRange, Extends
      <4>2. CASE i \notin 1..Len(typeNames[h].rev)
        BY <1>1, <1>2, <4>2, GrowthOfTables
      <4> QED BY <4>1, <4>2
    <3>2. /\ t.name \in Ids(symbols'[h])
          /\ Lookup(symbols'[h], t.name) = Lookup(symbols[h], t.name)
      BY <3>1, <2>1, <2>2
    <3> QED BY <3>1, <3>2 DEF TypeNameInRange
  <2> QED BY <2>3, <2>4 DEF EntriesInRange
<1>8. ASSUME NEW g \in Handles PROVE (TablesOK(g) /\ EntriesInRange(g))'
  <2>1. CASE g = h
    BY <2>1, <1>6, <1>7
  <2>2. CASE g # h
    <3>1. TablesOK(g) /\ EntriesInRange(g)
      BY DEF IInv
    <3>2. symbols'[g] = symbols[g] /\ namespaces'[g] = namespaces[g] /\ typeNames'[g] = typeNames[g]
      BY <1>5, <2>2
    <3> QED BY <3>1, <3>2 DEF TablesOK, EntriesInRange, PathInRange, TypeNameInRange
  <2> QED BY <2>1, <2>2
<1>9. ASSUME NEW g \in Handles
      PROVE  /\ Extends(symbols[g], symbols'[g])
             /\ Extends(namespaces[g], namespaces'[g])
             /\ Extends(typeNames[g], typeNames'[g])
  <2>1. CASE g = h
    BY <2>1, <1>6
  <2>2. CASE g # h
    <3>1. TablesOK(g)
      BY DEF IInv
    <3> QED BY <1>5, <2>2, <3>1 DEF Extends, TablesOK, IsTable
  <2> QED BY <2>1, <2>2
<1>10. ASSUME NEW g \in Handles, origin'[g] # None PROVE Cloned(g)'
  <2>1. Cloned(g) /\ origin'[g] = origin[g]
    BY <1>3, <1>10 DEF IInv
  <2>2. origin[g] \in Handles /\ origin[g] # h
    BY <2>1, <1>1 DEF Cloned, Shape
  <2>3. UNCHANGED <<symbols[origin[g]], namespaces[origin[g]], typeNames[origin[g]]>>
    BY <1>5, <2>1, <2>2
  <2>5. TablesOK(g) /\ TablesOK(origin[g]) /\ TablesOK(g)'
    BY <1>8, <2>2 DEF IInv
  <2>6. /\ Extends(symbols[origin[g]], symbols'[g])
        /\ Extends(namespaces[origin[g]], namespaces'[g])
        /\ Extends(typeNames[origin[g]], typeNames'[g])
    <3>0. TableLengths(g)'
      BY <2>5 DEF TablesOK, IsTable, TableLengths
    <3>1. TableLengths(origin[g]) /\ TableLengths(g) /\ TableLengths(g)'
      BY <2>2, <2>5, <3>0, Lengths
    <3>2. Extends(symbols[origin[g]], symbols'[g])
      BY <1>9, <2>1, <3>1, ExtendsTransitive DEF Cloned, TableLengths
    <3>3. Extends(namespaces[origin[g]], namespaces'[g])
      BY <1>9, <2>1, <3>1, ExtendsTransitive DEF Cloned, TableLengths
    <3>4. Extends(typeNames[origin[g]], typeNames'[g])
      BY <1>9, <2>1, <3>1, ExtendsTransitive DEF Cloned, TableLengths
    <3> QED BY <3>2, <3>3, <3>4
  <2> QED BY <1>3, <2>1, <2>3, <2>6 DEF Cloned
<1> QED BY <1>4, <1>5, <1>8, <1>9, <1>10 DEF IInv

(* Wrapping an environment in an Arc changes no table. *)
LEMMA ShareStep ==
  ASSUME IInv, NEW h \in live \ shared, Share(h)
  PROVE  IInv'
<1>1. Shape'
  BY DEF IInv, Shape, Share, tables
<1>2. ASSUME NEW g \in Handles PROVE (TablesOK(g) /\ EntriesInRange(g))'
  BY DEF IInv, Share, tables, TablesOK, EntriesInRange, PathInRange, TypeNameInRange
<1>3. ASSUME NEW g \in Handles, origin'[g] # None PROVE Cloned(g)'
  BY <1>3 DEF IInv, Share, tables, Cloned
<1> QED BY <1>1, <1>2, <1>3 DEF IInv

(* A clone starts as a copy of a shared interner. *)
LEMMA CloneStep ==
  ASSUME IInv, NEW h \in shared, NEW g \in Handles, Clone(h, g)
  PROVE  /\ IInv'
         /\ \A k \in live : UNCHANGED <<symbols[k], namespaces[k], typeNames[k]>>
<1>1. /\ Shape /\ h \in live /\ h \in Handles /\ g \notin live /\ h # g
      /\ live' = live \cup {g} /\ shared' = shared
  BY DEF IInv, Shape, Clone
<1>2. Shape'
  BY <1>1 DEF Shape, Clone
<1>3. /\ symbols'[g] = symbols[h] /\ namespaces'[g] = namespaces[h]
      /\ typeNames'[g] = typeNames[h] /\ origin'[g] = h
  BY <1>1 DEF Shape, Clone
<1>4. ASSUME NEW k \in Handles, k # g
      PROVE  /\ symbols'[k] = symbols[k] /\ namespaces'[k] = namespaces[k]
             /\ typeNames'[k] = typeNames[k] /\ origin'[k] = origin[k]
  BY <1>1, <1>4 DEF Shape, Clone
<1>5. ASSUME NEW k \in Handles PROVE (TablesOK(k) /\ EntriesInRange(k))'
  <2>1. TablesOK(k) /\ EntriesInRange(k) /\ TablesOK(h) /\ EntriesInRange(h)
    BY <1>1 DEF IInv
  <2>2. CASE k = g
    <3>1. TablesOK(g)'
      BY <1>3, <2>1 DEF TablesOK
    <3>2. EntriesInRange(g)'
      BY <1>3, <2>1 DEF EntriesInRange, PathInRange, TypeNameInRange
    <3> QED BY <2>2, <3>1, <3>2
  <2>3. CASE k # g
    BY <1>4, <2>1, <2>3 DEF TablesOK, EntriesInRange, PathInRange, TypeNameInRange
  <2> QED BY <2>2, <2>3
<1>6. ASSUME NEW k \in Handles, origin'[k] # None PROVE Cloned(k)'
  <2>1. CASE k = g
    <3>1. TableLengths(h)
      BY <1>1 DEF IInv, TablesOK, IsTable, TableLengths
    <3>2. /\ symbols'[h] = symbols[h] /\ namespaces'[h] = namespaces[h]
          /\ typeNames'[h] = typeNames[h]
      BY <1>1, <1>4
    <3>3. /\ Extends(symbols'[h], symbols'[g])
          /\ Extends(namespaces'[h], namespaces'[g])
          /\ Extends(typeNames'[h], typeNames'[g])
      BY <1>3, <3>1, <3>2 DEF Extends, TableLengths
    <3> QED BY <1>1, <1>3, <2>1, <3>3 DEF Cloned
  <2>2. CASE k # g
    <3>1. Cloned(k) /\ origin'[k] = origin[k]
      BY <1>4, <1>6, <2>2 DEF IInv
    <3>2. origin[k] \in Handles /\ origin[k] # g
      BY <1>1, <3>1 DEF Cloned, Shape
    <3>3. /\ symbols'[origin[k]] = symbols[origin[k]]
          /\ namespaces'[origin[k]] = namespaces[origin[k]]
          /\ typeNames'[origin[k]] = typeNames[origin[k]]
      BY <1>4, <3>2
    <3> QED BY <1>1, <1>4, <2>2, <3>1, <3>3 DEF Cloned
  <2> QED BY <2>1, <2>2
<1>7. \A k \in live : UNCHANGED <<symbols[k], namespaces[k], typeNames[k]>>
  BY <1>1, <1>4 DEF Shape
<1> QED BY <1>2, <1>5, <1>6, <1>7 DEF IInv

(* The inductive invariant holds throughout. *)
THEOREM Invariance == Spec => []IInv
<1>1. IInv /\ [Next]_vars => IInv'
  <2> SUFFICES ASSUME IInv, [Next]_vars PROVE IInv'
    OBVIOUS
  <2>1. ASSUME NEW h \in live \ shared, Mutate(h) PROVE IInv'
    BY <2>1, MutateStep
  <2>2. ASSUME NEW h \in live \ shared, Share(h) PROVE IInv'
    BY <2>2, ShareStep
  <2>3. ASSUME NEW h \in shared, NEW g \in Handles, Clone(h, g) PROVE IInv'
    BY <2>3, CloneStep
  <2>4. CASE UNCHANGED vars
    BY <2>4 DEF vars, tables, IInv, Shape, TablesOK, EntriesInRange, PathInRange,
                TypeNameInRange, Cloned
  <2> QED BY <2>1, <2>2, <2>3, <2>4 DEF Next
<1> QED BY InitIInv, <1>1, PTL DEF Spec

-----------------------------------------------------------------------------
(* The properties the runs check. *)

(* HashConsed: every table of every interner is a bijection between values
   and ids, so that comparing ids is comparing names. *)
THEOREM HashConsing == Spec => []HashConsed
<1>1. IInv => HashConsed
  BY DEF IInv, TablesOK, HashConsed
<1> QED BY <1>1, Invariance, PTL

(* NoDanglingId: ids stored inside entries stay within the tables of the same
   interner, so lookups never index out of bounds. *)
THEOREM NoDangling == Spec => []NoDanglingId
<1>1. IInv => NoDanglingId
  BY DEF IInv, EntriesInRange, PathInRange, TypeNameInRange, NoDanglingId
<1> QED BY <1>1, Invariance, PTL

(* A bijective table has one id per value. *)
LEMMA LookupInjective ==
  ASSUME NEW t, Bijective(t), Len(t.rev) \in Nat,
         NEW x \in Ids(t), NEW y \in Ids(t), Lookup(t, x) = Lookup(t, y)
  PROVE  x = y
<1>1. x + 1 \in 1..Len(t.rev) /\ y + 1 \in 1..Len(t.rev)
  OBVIOUS
<1>2. t.map[t.rev[x + 1]] = (x + 1) - 1 /\ t.map[t.rev[y + 1]] = (y + 1) - 1
  BY <1>1 DEF Bijective
<1>3. (x + 1) - 1 = (y + 1) - 1
  BY <1>2 DEF Lookup
<1> QED BY <1>3

(* Two type names that print alike have the same entry, hence the same id. *)
LEMMA SameTextSameId ==
  ASSUME NEW h \in Handles, TablesOK(h), EntriesInRange(h),
         NEW a \in Ids(typeNames[h]), NEW b \in Ids(typeNames[h]),
         Text(h, a) = Text(h, b)
  PROVE  a = b
<1> DEFINE ta == Lookup(typeNames[h], a)
           tb == Lookup(typeNames[h], b)
           na == Lookup(namespaces[h], ta.ns)
           nb == Lookup(namespaces[h], tb.ns)
<1>1. /\ ta \in TypeNameValue /\ TypeNameInRange(h, ta)
      /\ tb \in TypeNameValue /\ TypeNameInRange(h, tb)
  BY LookupInRange
<1>2. /\ na \in NamespaceValue /\ PathInRange(h, na)
      /\ nb \in NamespaceValue /\ PathInRange(h, nb)
  BY <1>1, LookupInRange DEF TypeNameInRange
<1>3. \A x, y \in Ids(symbols[h]) :
        Lookup(symbols[h], x) = Lookup(symbols[h], y) => x = y
  BY Lengths, LookupInjective DEF TablesOK, TableLengths
<1>4. \A x, y \in Ids(namespaces[h]) :
        Lookup(namespaces[h], x) = Lookup(namespaces[h], y) => x = y
  BY Lengths, LookupInjective DEF TablesOK, TableLengths
<1>5. \A x, y \in Ids(typeNames[h]) :
        Lookup(typeNames[h], x) = Lookup(typeNames[h], y) => x = y
  BY Lengths, LookupInjective DEF TablesOK, TableLengths
<1>6. /\ na.abs = nb.abs
      /\ [k \in 1..Len(na.path) |-> Lookup(symbols[h], na.path[k])]
           = [k \in 1..Len(nb.path) |-> Lookup(symbols[h], nb.path[k])]
      /\ Lookup(symbols[h], ta.name) = Lookup(symbols[h], tb.name)
  BY DEF Text
<1> HIDE DEF na, nb
<1>7. na.path = nb.path
  <2> DEFINE fa == [k \in 1..Len(na.path) |-> Lookup(symbols[h], na.path[k])]
             fb == [k \in 1..Len(nb.path) |-> Lookup(symbols[h], nb.path[k])]
  <2>1. na.path \in Seq(Nat) /\ nb.path \in Seq(Nat)
    BY <1>2 DEF NamespaceValue
  <2>2. /\ DOMAIN fa = 1..Len(na.path) /\ DOMAIN fb = 1..Len(nb.path)
        /\ fa = fb
    BY <1>6
  <2>3. Len(na.path) = Len(nb.path)
    BY <2>1, <2>2
  <2>4. ASSUME NEW k \in 1..Len(na.path) PROVE na.path[k] = nb.path[k]
    <3>1. fa[k] = fb[k]
      BY <2>2
    <3>2. Lookup(symbols[h], na.path[k]) = Lookup(symbols[h], nb.path[k])
      BY <2>3, <3>1
    <3> QED BY <1>2, <1>3, <2>3, <3>2 DEF PathInRange
  <2> QED BY <2>1, <2>3, <2>4, SeqEqual
<1>8. ta.ns = tb.ns
  <2>1. na = nb
    BY <1>2, <1>6, <1>7 DEF NamespaceValue
  <2> QED BY <1>1, <1>4, <2>1 DEF TypeNameInRange, na, nb
<1>9. ta.name = tb.name /\ ta.kind = tb.kind
  BY <1>1, <1>3, <1>6 DEF TypeNameInRange
<1>10. ta = tb
  BY <1>1, <1>8, <1>9 DEF TypeNameValue
<1> QED BY <1>5, <1>10

(* OneIdPerText: no two type-name ids of an interner print alike. *)
THEOREM TextDeterminesId == Spec => []OneIdPerText
<1>1. IInv => OneIdPerText
  <2> SUFFICES ASSUME IInv, NEW h \in live, NEW a \in Ids(typeNames[h]),
                      NEW b \in Ids(typeNames[h]), Text(h, a) = Text(h, b)
               PROVE  a = b
    BY DEF OneIdPerText
  <2>1. h \in Handles
    BY DEF IInv, Shape
  <2> QED BY <2>1, SameTextSameId DEF IInv
<1> QED BY <1>1, Invariance, PTL

(* CloneAgrees: the ids of an environment mean the same in each of its
   clones. *)
THEOREM ClonesAgree == Spec => []CloneAgrees
<1>1. IInv => CloneAgrees
  BY DEF IInv, Cloned, CloneAgrees
<1> QED BY <1>1, Invariance, PTL

(* IdsStable: no step changes what an id of a live interner means. *)
THEOREM StableIds == Spec => IdsStable
<1> DEFINE Stable ==
      \A h \in live :
       /\ Extends(symbols[h], symbols'[h])
       /\ Extends(namespaces[h], namespaces'[h])
       /\ Extends(typeNames[h], typeNames'[h])
       /\ h \in shared => UNCHANGED <<symbols[h], namespaces[h], typeNames[h]>>
<1>1. IInv /\ [Next]_vars => [Stable]_vars
  <2> SUFFICES ASSUME IInv, Next PROVE Stable
    BY DEF IdsStable
  <2>0. \A h \in live : h \in Handles
    BY DEF IInv, Shape
  <2>1. ASSUME NEW g \in live \ shared, Mutate(g) PROVE Stable
    BY <2>0, <2>1, MutateStep
  <2>2. ASSUME UNCHANGED tables PROVE Stable
    <3>1. \A h \in live : TableLengths(h)
      BY <2>0, Lengths DEF IInv
    <3> QED BY <2>2, <3>1 DEF tables, Extends, TableLengths
  <2>3. ASSUME NEW h \in live \ shared, Share(h) PROVE Stable
    BY <2>3, <2>2 DEF Share
  <2>4. ASSUME NEW h \in shared, NEW g \in Handles, Clone(h, g) PROVE Stable
    <3>1. \A k \in live : UNCHANGED <<symbols[k], namespaces[k], typeNames[k]>>
      BY <2>4, CloneStep
    <3>2. \A k \in live : TableLengths(k)
      BY <2>0, Lengths DEF IInv
    <3> QED BY <3>1, <3>2 DEF Extends, TableLengths
  <2> QED BY <2>1, <2>3, <2>4 DEF Next
<1> QED BY <1>1, Invariance, PTL DEF Spec, IdsStable

(* TypeOK: live, shared and origin name interners, and every table is well
   formed. *)
THEOREM TypeCorrect == Spec => []TypeOK
<1>1. IInv => TypeOK
  <2> SUFFICES ASSUME IInv PROVE TypeOK
    OBVIOUS
  <2>1. DOMAIN symbols = Handles /\ DOMAIN namespaces = Handles /\ DOMAIN typeNames = Handles
    <3>1. /\ symbols = [h \in Handles |-> symbols[h]]
          /\ namespaces = [h \in Handles |-> namespaces[h]]
          /\ typeNames = [h \in Handles |-> typeNames[h]]
      BY DEF IInv, Shape
    <3> QED BY <3>1
  <2>2. {DOMAIN symbols, DOMAIN namespaces, DOMAIN typeNames} = {Handles}
    BY <2>1
  <2>3. live \subseteq Handles /\ shared \subseteq live /\ origin \in [Handles -> Handles \cup {None}]
    BY DEF IInv, Shape
  <2>4. \A h \in Handles :
          /\ IsTable(symbols[h], Strings) /\ IsTable(namespaces[h], NamespaceValue)
          /\ IsTable(typeNames[h], TypeNameValue)
    BY DEF IInv, TablesOK
  <2> QED BY <2>2, <2>3, <2>4 DEF TypeOK, NamespaceValue, TypeNameValue
<1> QED BY <1>1, Invariance, PTL

\* Id 0 is the empty relative namespace in every interner.
Rooted ==
  \A h \in Handles : /\ 1 \in 1..Len(namespaces[h].rev)
                     /\ namespaces[h].rev[1] = Namespace(<<>>, FALSE)

(* A new interner is rooted. *)
LEMMA InitRooted == Init => Rooted
<1> DEFINE a == Namespace(<<>>, FALSE)
           b == Namespace(<<>>, TRUE)
           one == Add(Empty, a)
<1>1. one.rev = Append(<<>>, a)
  BY DEF Add, Empty
<1>2. Append(<<>>, a) \in Seq({a}) /\ Len(Append(<<>>, a)) = 1 /\ Append(<<>>, a)[1] = a
  BY EmptySeq, AppendProperties
<1>3. NewNamespaces = Add(one, b)
  BY DEF NewNamespaces
<1> HIDE DEF one, a
<1>4. /\ Len(NewNamespaces.rev) \in {1, 2} /\ NewNamespaces.rev[1] = a
  <2>1. one.rev \in Seq({a, b})
    BY <1>1, <1>2, SeqMonotonic
  <2>2. NewNamespaces.rev = one.rev \/ NewNamespaces.rev = Append(one.rev, b)
    BY <1>3 DEF Add
  <2>3. Len(one.rev) = 1 /\ one.rev[1] = a
    BY <1>1, <1>2
  <2>4. CASE NewNamespaces.rev = one.rev
    BY <2>3, <2>4
  <2>5. CASE NewNamespaces.rev = Append(one.rev, b)
    <3>1. PICK s \in Seq({a, b}) : s = one.rev
      BY <2>1
    <3>2. /\ Len(Append(s, b)) = Len(s) + 1
          /\ \A i \in 1..Len(s) : Append(s, b)[i] = s[i]
      BY AppendProperties
    <3>3. Len(s) = 1
      BY <2>3, <3>1
    <3>4. Len(s) + 1 = 2 /\ 1 \in 1..Len(s)
      BY <3>3
    <3>5. Len(Append(s, b)) = 2 /\ Append(s, b)[1] = s[1]
      BY <3>2, <3>4
    <3> QED BY <2>3, <2>5, <3>1, <3>5
  <2> QED BY <2>2, <2>4, <2>5
<1>5. 1 \in 1..Len(NewNamespaces.rev)
  <2>1. PICK n \in {1, 2} : n = Len(NewNamespaces.rev)
    BY <1>4
  <2>2. 1 \in 1 .. n
    OBVIOUS
  <2> QED BY <2>1, <2>2
<1> QED BY <1>4, <1>5 DEF Init, Rooted, a

(* No step takes the root away. *)
LEMMA NextRooted == IInv /\ Rooted /\ [Next]_vars => Rooted'
<1> SUFFICES ASSUME IInv, Rooted, [Next]_vars PROVE Rooted'
  OBVIOUS
<1>1. ASSUME NEW h \in live \ shared, Mutate(h) PROVE Rooted'
  <2>1. IInv' /\ \A g \in Handles : Extends(namespaces[g], namespaces'[g])
    BY <1>1, MutateStep
  <2>2. ASSUME NEW g \in Handles
        PROVE  1 \in 1..Len(namespaces'[g].rev) /\ namespaces'[g].rev[1] = namespaces[g].rev[1]
    <3>1. Len(namespaces[g].rev) \in Nat /\ Len(namespaces'[g].rev) \in Nat
      BY <2>1, Lengths DEF IInv, TablesOK, IsTable
    <3>2. 1 \in 1..Len(namespaces[g].rev)
      BY DEF Rooted
    <3>3. /\ Len(namespaces[g].rev) <= Len(namespaces'[g].rev)
          /\ namespaces'[g].rev[1] = namespaces[g].rev[1]
      BY <2>1, <3>2 DEF Extends
    <3> QED BY <3>1, <3>2, <3>3
  <2> QED BY <2>2 DEF Rooted
<1>2. ASSUME NEW h \in shared, NEW g \in Handles, Clone(h, g) PROVE Rooted'
  <2>1. h \in Handles /\ namespaces' = [namespaces EXCEPT ![g] = namespaces[h]]
        /\ namespaces = [k \in Handles |-> namespaces[k]]
    BY <1>2 DEF IInv, Shape, Clone
  <2>2. \A k \in Handles : namespaces'[k] = IF k = g THEN namespaces[h] ELSE namespaces[k]
    BY <2>1
  <2> QED BY <2>1, <2>2 DEF Rooted
<1>3. ASSUME UNCHANGED namespaces PROVE Rooted'
  BY <1>3 DEF Rooted
<1> QED BY <1>1, <1>2, <1>3 DEF Next, Share, vars, tables

(* A value that was interned is found under its id. *)
LEMMA FindsWhatIsThere ==
  ASSUME NEW t, Bijective(t), Len(t.rev) \in Nat, NEW x \in Ids(t)
  PROVE  Find(t, Lookup(t, x)) = x
<1>1. x + 1 \in 1..Len(t.rev) /\ (x + 1) - 1 = x
  BY DEF Ids
<1>2. Lookup(t, x) \in DOMAIN t.map /\ t.map[Lookup(t, x)] = (x + 1) - 1
  BY <1>1 DEF Bijective, Lookup
<1> QED BY <1>1, <1>2 DEF Find

(* A sequence is its last element appended to the rest. *)
LEMMA SplitLast ==
  ASSUME NEW S, NEW s \in Seq(S), s # <<>>
  PROVE  Append(SubSeq(s, 1, Len(s) - 1), s[Len(s)]) = s
<1>1. PICK m \in Nat : Len(s) = m + 1
  <2>1. Len(s) \in Nat \ {0}
    BY EmptySeq
  <2>2. Len(s) - 1 \in Nat /\ Len(s) = (Len(s) - 1) + 1
    BY <2>1
  <2> QED BY <2>2
<1>2. Len(s) - 1 = m /\ m + 1 \in 1..Len(s)
  BY <1>1
<1>3. \A i \in 1..m : s[i] \in S
  <2>1. \A i \in 1..m : i \in 1..Len(s)
    BY <1>1
  <2> QED BY <2>1, ElementOfSeq
<1>4. PICK r : r = SubSeq(s, 1, m)
  OBVIOUS
<1>5. /\ r \in Seq(S) /\ Len(r) = IF 1 <= m THEN m - 1 + 1 ELSE 0
      /\ \A i \in 1..m - 1 + 1 : r[i] = s[1 + i - 1]
  <2>1. 1 \in Int /\ m \in Int
    OBVIOUS
  <2> QED BY <1>3, <1>4, <2>1, SubSeqProperties
<1>6. r \in Seq(S) /\ Len(r) = m /\ \A i \in 1..m : r[i] = s[i]
  BY <1>5
<1>7. PICK x \in S : x = s[m + 1]
  BY <1>2, ElementOfSeq
<1>8. /\ Append(r, x) \in Seq(S) /\ Len(Append(r, x)) = Len(r) + 1
      /\ \A i \in 1..Len(r) : Append(r, x)[i] = r[i]
      /\ Append(r, x)[Len(r) + 1] = x
  <2>1. r \in Seq(S)
    BY <1>6
  <2> QED BY <2>1, AppendProperties
<1>9. \A i \in 1..m + 1 : Append(r, x)[i] = s[i]
  <2>1. \A i \in 1..m + 1 : i \in 1..m \/ i = m + 1
    OBVIOUS
  <2> QED BY <1>6, <1>7, <1>8, <2>1
<1>10. PICK q \in Seq(S) : q = Append(r, x)
  BY <1>8
<1>11. Len(q) = Len(s) /\ \A i \in 1..Len(q) : q[i] = s[i]
  BY <1>1, <1>6, <1>8, <1>9, <1>10
<1>12. q = s
  BY <1>11, SeqEqual
<1> QED BY <1>1, <1>2, <1>4, <1>7, <1>10, <1>12

(* SplitRejoins: joining with the empty namespace and appending the segment
   that was split off give the namespace back. *)
THEOREM Rejoining == Spec => []SplitRejoins
<1>1. IInv /\ Rooted => SplitRejoins
  <2> SUFFICES ASSUME IInv, Rooted, NEW h \in live, NEW ns \in Ids(namespaces[h])
               PROVE  LET path   == Lookup(namespaces[h], ns).path
                          parent == FrozenParent(h, ns)
                      IN  /\ FrozenJoin(h, EmptyRelative, ns) = ns
                          /\ parent # None => FrozenAppend(h, parent, path[Len(path)]) = ns
    BY DEF SplitRejoins
  <2>1. h \in Handles
    BY DEF IInv, Shape
  <2>2. PICK t : t = namespaces[h]
    OBVIOUS
  <2>3. Bijective(t) /\ Len(t.rev) \in Nat /\ 1 \in 1..Len(t.rev) /\ t.rev[1] = Namespace(<<>>, FALSE)
    BY <2>1, <2>2, Lengths DEF IInv, TablesOK, TableLengths, Rooted
  <2>4. PICK n \in NamespaceValue : n = Lookup(t, ns)
    BY <2>1, <2>2, LookupInRange DEF IInv
  <2>5. ns \in Ids(t) /\ Find(t, n) = ns
    BY <2>2, <2>3, <2>4, FindsWhatIsThere
  <2>6. n.path \in Seq(Nat) /\ n = Namespace(n.path, n.abs) /\ n.abs \in BOOLEAN
    BY DEF NamespaceValue, Namespace
  <2>7. FrozenJoin(h, EmptyRelative, ns) = ns
    <3>1. Lookup(t, EmptyRelative) = Namespace(<<>>, FALSE)
      <4>1. EmptyRelative + 1 = 1
        BY DEF EmptyRelative
      <4> QED BY <2>3, <4>1 DEF Lookup
    <3>2. <<>> \o n.path = n.path
      BY <2>6, ConcatEmptySeq
    <3>3. JoinValue(Namespace(<<>>, FALSE), n) = n
      BY <2>6, <3>2 DEF JoinValue, Namespace
    <3> QED BY <2>2, <2>4, <2>5, <3>1, <3>3 DEF FrozenJoin
  <2>8. ASSUME FrozenParent(h, ns) # None
        PROVE  FrozenAppend(h, FrozenParent(h, ns), n.path[Len(n.path)]) = ns
    <3>1. n.path # <<>> /\ FrozenParent(h, ns) = Find(t, ParentValue(n))
      BY <2>2, <2>4, <2>8 DEF FrozenParent
    <3>2. PICK p : p = FrozenParent(h, ns)
      OBVIOUS
    <3>3. ParentValue(n) \in DOMAIN t.map /\ p = t.map[ParentValue(n)]
      BY <2>8, <3>1, <3>2 DEF Find
    <3>4. PICK i \in 1..Len(t.rev) : t.rev[i] = ParentValue(n) /\ p = i - 1
      BY <2>3, <3>3 DEF Bijective
    <3>5. p + 1 = i
      BY <3>4
    <3>6. Lookup(t, p) = ParentValue(n)
      BY <3>4, <3>5 DEF Lookup
    <3>7. Append(SubSeq(n.path, 1, Len(n.path) - 1), n.path[Len(n.path)]) = n.path
      <4>1. PICK s \in Seq(Nat) : s = n.path
        BY <2>6
      <4>2. s # <<>>
        BY <3>1, <4>1
      <4>3. Append(SubSeq(s, 1, Len(s) - 1), s[Len(s)]) = s
        BY <4>2, SplitLast
      <4> QED BY <4>1, <4>3
    <3>8. AppendValue(ParentValue(n), n.path[Len(n.path)]) = n
      BY <2>6, <3>7 DEF AppendValue, ParentValue, Namespace
    <3> QED BY <2>2, <2>5, <3>2, <3>6, <3>8 DEF FrozenAppend
  <2> QED BY <2>2, <2>4, <2>7, <2>8
<1> QED BY <1>1, Invariance, InitRooted, NextRooted, PTL DEF Spec

=============================================================================
