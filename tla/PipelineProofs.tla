---------------------------- MODULE PipelineProofs ----------------------------
(***************************************************************************)
(* Load, resolve and materialize, for all programs and filters.            *)
(***************************************************************************)
EXTENDS Pipeline, SequenceProofs

-----------------------------------------------------------------------------
(* Items.                                                                  *)

AbsoluteNames == {n \in TypeNames : n.ns.abs}

FieldNames == UNION {Fields[k] : k \in DOMAIN Fields}

Items == [node : Nodes, ctx : Seq(AbsoluteNames), at : Seq(Nat \cup FieldNames)]

\* An order of a walk lists fields a node of that kind has.
IsOrder(order) == \A k \in DOMAIN Fields : order[k] \in Seq(Fields[k])

(* Declarations are put under absolute namespaces. *)
LEMMA ScopeIsAbsolute ==
  ASSUME NEW ctx \in Seq(AbsoluteNames)
  PROVE  Scope(ctx) \in Namespaces /\ Scope(ctx).abs
<1>1. CASE ctx = <<>>
  BY <1>1 DEF Scope, RootAbsolute, Ns, Namespaces
<1>2. CASE ctx # <<>>
  <2>1. ctx[Len(ctx)] \in AbsoluteNames
    BY <1>2
  <2> QED BY <1>2, <2>1 DEF Scope, ToNamespace, Ns, AbsoluteNames, TypeNames, Namespaces
<1> QED BY <1>1, <1>2

(* So every declaration has an absolute name. *)
LEMMA FullNameIsAbsolute ==
  ASSUME NEW item \in Items, item.node.name \in TypeNames
  PROVE  FullName(item) \in AbsoluteNames
<1>1. Scope(item.ctx) \in Namespaces /\ Scope(item.ctx).abs
  BY ScopeIsAbsolute DEF Items
<1> DEFINE ns == item.node.name.ns
           name == item.node.name.name
<1>2. ns \in Namespaces /\ name \in Symbols
  BY DEF TypeNames
<1>3. Join(Scope(item.ctx), ns) \in Namespaces /\ Join(Scope(item.ctx), ns).abs
  BY <1>1, <1>2 DEF Join, Ns, Namespaces
<1> HIDE DEF ns, name
<1>4. FullName(item) = Tn(Join(Scope(item.ctx), ns), name)
  BY DEF FullName, WithPrefix, ns, name
<1> QED BY <1>2, <1>3, <1>4 DEF Tn, TypeNames, AbsoluteNames

(* What a walk interns are names and namespaces. *)
LEMMA NamesAreNames ==
  ASSUME NEW item \in Items
  PROVE  NamesOf(item) \subseteq TypeNames /\ NamespacesOf(item) \subseteq Namespaces
<1>1. item.node \in Nodes /\ IsNode(item.node)
  BY NodesAssumption DEF Items
<1>2. NamesOf(item) \subseteq TypeNames
  <2>1. CASE item.node.k \in NameKinds
    BY <1>1, <2>1 DEF NamesOf, IsNode, NameKinds
  <2>2. CASE IsDecl(item.node) /\ item.node.k # "global"
    <3>1. item.node.name \in TypeNames
      BY <1>1, <2>2 DEF IsNode, IsDecl
    <3>2. FullName(item) \in TypeNames
      BY <3>1, FullNameIsAbsolute DEF AbsoluteNames
    <3> QED BY <3>1, <3>2 DEF NamesOf
  <2> QED BY <2>1, <2>2 DEF NamesOf
<1>3. item.node.k \in Scopes => ToNamespace(FullName(item)) \in Namespaces
  <2> SUFFICES ASSUME item.node.k \in Scopes PROVE ToNamespace(FullName(item)) \in Namespaces
    OBVIOUS
  <2>1. item.node.name \in TypeNames
    BY <1>1 DEF IsNode, Scopes, DeclKinds
  <2>2. FullName(item) \in TypeNames
    BY <2>1, FullNameIsAbsolute DEF AbsoluteNames
  <2> QED BY <2>2 DEF ToNamespace, Ns, TypeNames, Namespaces
<1>4. \A n \in TypeNames : n.ns \in Namespaces
  BY DEF TypeNames
<1> QED BY <1>2, <1>3, <1>4 DEF NamespacesOf

(* The context inside a node. *)
LEMMA InsideIsContext ==
  ASSUME NEW item \in Items
  PROVE  Inside(item) \in Seq(AbsoluteNames)
<1>1. item.ctx \in Seq(AbsoluteNames) /\ IsNode(item.node)
  BY NodesAssumption DEF Items
<1>2. CASE item.node.k \in Scopes
  <2>1. item.node.name \in TypeNames
    BY <1>1, <1>2 DEF IsNode, Scopes, DeclKinds
  <2>2. FullName(item) \in AbsoluteNames
    BY <2>1, FullNameIsAbsolute
  <2> QED BY <1>1, <1>2, <2>2 DEF Inside
<1>3. CASE item.node.k \notin Scopes /\ item.node.k = "global"
  BY <1>3 DEF Inside
<1>4. CASE item.node.k \notin Scopes /\ item.node.k # "global"
  BY <1>1, <1>4 DEF Inside
<1> QED BY <1>2, <1>3, <1>4

(* So are those in one field. *)
LEMMA UnderIsItems ==
  ASSUME NEW item \in Items, NEW f \in Fields[item.node.k]
  PROVE  Under(item, f) \in Seq(Items)
<1>1. IsNode(item.node) /\ item.ctx \in Seq(AbsoluteNames) /\ item.at \in Seq(Nat \cup FieldNames)
  BY NodesAssumption DEF Items
<1>2. item.node[f] \in Seq(Nodes)
  BY <1>1 DEF IsNode
<1>3. f \in FieldNames
  BY <1>1 DEF IsNode, FieldNames
<1>4. Inside(item) \in Seq(AbsoluteNames)
  BY InsideIsContext
<1>5. ASSUME NEW i \in DOMAIN item.node[f]
      PROVE  Item(item.node[f][i], IF f = "super" THEN item.ctx ELSE Inside(item),
                  item.at \o <<f, i>>) \in Items
  <2>1. item.node[f][i] \in Nodes /\ i \in Nat
    BY <1>2
  <2>2. <<f, i>> \in Seq(Nat \cup FieldNames)
    BY <1>3, <2>1
  <2>3. item.at \o <<f, i>> \in Seq(Nat \cup FieldNames)
    BY <1>1, <2>2
  <2> QED BY <1>1, <1>4, <2>1, <2>3 DEF Item, Items
<1>6. DOMAIN item.node[f] = 1 .. Len(item.node[f]) /\ Len(item.node[f]) \in Nat
  BY <1>2
<1> QED BY <1>5, <1>6 DEF Under

(* The children of an item are items. *)
LEMMA ChildrenAreItems ==
  ASSUME NEW item \in Items, NEW order, IsOrder(order)
  PROVE  Children(item, order) \in Seq(Items)
<1> DEFINE fields == order[item.node.k]
           ss == [i \in DOMAIN fields |-> Under(item, fields[i])]
<1>1. item.node.k \in DOMAIN Fields
  BY NodesAssumption DEF Items, IsNode
<1>2. fields \in Seq(Fields[item.node.k])
  BY <1>1 DEF IsOrder
<1> HIDE DEF fields
<1>3. \A i \in DOMAIN fields : Under(item, fields[i]) \in Seq(Items)
  BY <1>2, UnderIsItems
<1>4. ss \in Seq(Seq(Items))
  BY <1>2, <1>3
<1>5. FlattenSeq(ss) \in Seq(Items)
  BY <1>4, FlattenIsSeq
<1> QED BY <1>5 DEF Children, fields

(* The top of a source. *)
LEMMA TopItemsAreItems ==
  ASSUME NEW n \in Nat, NEW nodes \in Seq(Nodes)
  PROVE  TopItems(n, nodes) \in Seq(Items)
<1>1. \A i \in DOMAIN nodes : Item(nodes[i], <<>>, <<n, i>>) \in Items
  BY DEF Item, Items
<1>2. DOMAIN nodes = 1 .. Len(nodes) /\ Len(nodes) \in Nat
  OBVIOUS
<1> QED BY <1>1, <1>2 DEF TopItems

-----------------------------------------------------------------------------
(* Partial functions.                                                      *)

(* Functions with disjoint domains, put together. *)
LEMMA OrElseDisjoint ==
  ASSUME NEW f, NEW g, DOMAIN f \cap DOMAIN g = {}
  PROVE  /\ DOMAIN OrElse(f, g) = DOMAIN f \cup DOMAIN g
         /\ \A x \in DOMAIN f : OrElse(f, g)[x] = f[x]
         /\ \A x \in DOMAIN g : OrElse(f, g)[x] = g[x]
BY DEF OrElse

LEMMA PutIs ==
  ASSUME NEW f, NEW x, NEW v
  PROVE  /\ DOMAIN Put(f, x, v) = DOMAIN f \cup {x}
         /\ Put(f, x, v)[x] = v
         /\ \A y \in DOMAIN f : y # x => Put(f, x, v)[y] = f[y]
BY DEF Put, OrElse

-----------------------------------------------------------------------------
(* The orders of the three walks.                                          *)

(* insert and the driver visit the fields of every node in the same order. *)
LEMMA DriverOrderIsInsertOrder == DriverOrder = InsertOrder
BY DEF DriverOrder, InsertOrder, WalkDeclOrder, InsertDeclOrder, WalkMemberOrder,
       InsertMemberOrder, WalkMethodTypeOrder, InsertMethodTypeOrder,
       WalkTypeOrder, InsertTypeOrder

(* The parts of InsertOrder are about different kinds. *)
LEMMA InsertOrderParts ==
  /\ \A k \in DOMAIN InsertDeclOrder : InsertOrder[k] = InsertDeclOrder[k]
  /\ \A k \in DOMAIN InsertMemberOrder : InsertOrder[k] = InsertMemberOrder[k]
  /\ \A k \in DOMAIN InsertMethodTypeOrder : InsertOrder[k] = InsertMethodTypeOrder[k]
  /\ \A k \in DOMAIN InsertTypeOrder : InsertOrder[k] = InsertTypeOrder[k]
<1> DEFINE D == DOMAIN InsertDeclOrder
           M == DOMAIN InsertMemberOrder
           T == DOMAIN InsertMethodTypeOrder
           Y == DOMAIN InsertTypeOrder
<1>1. D = {"class", "module", "interface", "typealias", "constant", "global", "classalias"}
  BY DEF InsertDeclOrder
<1>2. M = {"method", "attribute", "plain"}
  BY DEF InsertMemberOrder
<1>3. T = {"overload", "block", "param"}
  BY DEF InsertMethodTypeOrder
<1>4. Y = {"ref", "singleton", "group", "proc", "function", "leaf"}
  BY DEF InsertTypeOrder
<1>5. M \cap D = {} /\ T \cap (D \cup M) = {} /\ Y \cap (D \cup M \cup T) = {}
  <2> HIDE DEF D, M, T, Y
  <2> QED BY <1>1, <1>2, <1>3, <1>4
<1> DEFINE L == OrElse(InsertDeclOrder, InsertMemberOrder)
           R == OrElse(InsertMethodTypeOrder, InsertTypeOrder)
<1>6. /\ DOMAIN L = D \cup M /\ \A k \in D : L[k] = InsertDeclOrder[k]
      /\ \A k \in M : L[k] = InsertMemberOrder[k]
  <2>1. D \cap M = {}
    BY <1>5
  <2> QED BY <2>1, OrElseDisjoint
<1>7. /\ DOMAIN R = T \cup Y /\ \A k \in T : R[k] = InsertMethodTypeOrder[k]
      /\ \A k \in Y : R[k] = InsertTypeOrder[k]
  <2>1. T \cap Y = {}
    BY <1>5
  <2> QED BY <2>1, OrElseDisjoint
<1>8. InsertOrder = OrElse(L, R)
  BY DEF InsertOrder
<1>9. DOMAIN L \cap DOMAIN R = {}
  <2> HIDE DEF D, M, T, Y, L, R
  <2> QED BY <1>5, <1>6, <1>7
<1>10. /\ \A k \in DOMAIN L : InsertOrder[k] = L[k]
       /\ \A k \in DOMAIN R : InsertOrder[k] = R[k]
  <2> HIDE DEF L, R
  <2>1. /\ \A k \in DOMAIN L : OrElse(L, R)[k] = L[k]
        /\ \A k \in DOMAIN R : OrElse(L, R)[k] = R[k]
    BY <1>9, OrElseDisjoint
  <2> QED BY <1>8, <2>1
<1> QED
  <2> HIDE DEF L, R
  <2> QED BY <1>6, <1>7, <1>10

LEMMA KindsAreParts ==
  DOMAIN Fields = DOMAIN InsertDeclOrder \cup DOMAIN InsertMemberOrder
                    \cup DOMAIN InsertMethodTypeOrder \cup DOMAIN InsertTypeOrder
BY DEF Fields, InsertDeclOrder, InsertMemberOrder, InsertMethodTypeOrder, InsertTypeOrder

(* An order of insert lists fields the grammar knows. *)
LEMMA InsertOrderIsOrder == IsOrder(InsertOrder)
<1>1. ASSUME NEW k \in DOMAIN InsertDeclOrder PROVE InsertDeclOrder[k] \in Seq(Fields[k])
  <2>1. /\ InsertDeclOrder["class"] \in Seq(Fields["class"])
        /\ InsertDeclOrder["module"] \in Seq(Fields["module"])
        /\ InsertDeclOrder["interface"] \in Seq(Fields["interface"])
        /\ InsertDeclOrder["typealias"] \in Seq(Fields["typealias"])
        /\ InsertDeclOrder["constant"] \in Seq(Fields["constant"])
        /\ InsertDeclOrder["global"] \in Seq(Fields["global"])
        /\ InsertDeclOrder["classalias"] \in Seq(Fields["classalias"])
    BY DEF InsertDeclOrder, Fields
  <2>2. DOMAIN InsertDeclOrder = {"class", "module", "interface", "typealias", "constant",
                                  "global", "classalias"}
    BY DEF InsertDeclOrder
  <2> QED BY <2>1, <2>2
<1>2. ASSUME NEW k \in DOMAIN InsertMemberOrder PROVE InsertMemberOrder[k] \in Seq(Fields[k])
  <2>1. /\ InsertMemberOrder["method"] \in Seq(Fields["method"])
        /\ InsertMemberOrder["attribute"] \in Seq(Fields["attribute"])
        /\ InsertMemberOrder["plain"] \in Seq(Fields["plain"])
    BY DEF InsertMemberOrder, Fields
  <2>2. DOMAIN InsertMemberOrder = {"method", "attribute", "plain"}
    BY DEF InsertMemberOrder
  <2> QED BY <2>1, <2>2
<1>3. ASSUME NEW k \in DOMAIN InsertMethodTypeOrder
      PROVE  InsertMethodTypeOrder[k] \in Seq(Fields[k])
  <2>1. /\ InsertMethodTypeOrder["overload"] \in Seq(Fields["overload"])
        /\ InsertMethodTypeOrder["block"] \in Seq(Fields["block"])
        /\ InsertMethodTypeOrder["param"] \in Seq(Fields["param"])
    BY DEF InsertMethodTypeOrder, Fields
  <2>2. DOMAIN InsertMethodTypeOrder = {"overload", "block", "param"}
    BY DEF InsertMethodTypeOrder
  <2> QED BY <2>1, <2>2
<1>4. ASSUME NEW k \in DOMAIN InsertTypeOrder PROVE InsertTypeOrder[k] \in Seq(Fields[k])
  <2>1. /\ InsertTypeOrder["ref"] \in Seq(Fields["ref"])
        /\ InsertTypeOrder["singleton"] \in Seq(Fields["singleton"])
        /\ InsertTypeOrder["group"] \in Seq(Fields["group"])
        /\ InsertTypeOrder["proc"] \in Seq(Fields["proc"])
        /\ InsertTypeOrder["leaf"] \in Seq(Fields["leaf"])
    BY DEF InsertTypeOrder, Fields
  <2>2. InsertTypeOrder["function"] \in Seq(Fields["function"])
    BY DEF InsertTypeOrder, Fields
  <2>3. DOMAIN InsertTypeOrder = {"ref", "singleton", "group", "proc", "function", "leaf"}
    BY DEF InsertTypeOrder
  <2> QED BY <2>1, <2>2, <2>3
<1>6. ASSUME NEW k \in DOMAIN Fields PROVE InsertOrder[k] \in Seq(Fields[k])
  <2>1. k \in DOMAIN InsertDeclOrder \cup DOMAIN InsertMemberOrder
                \cup DOMAIN InsertMethodTypeOrder \cup DOMAIN InsertTypeOrder
    BY KindsAreParts
  <2> QED BY <1>1, <1>2, <1>3, <1>4, <2>1, InsertOrderParts
<1> QED BY <1>6 DEF IsOrder

(* Nodes written without arguments to singleton(...), which only the
   materializer visits. *)
NoSingletonArgs == \A n \in Nodes : n.k = "singleton" => n.args = <<>>

\* Where a materializer's order differs from the others'.
LEMMA MaterializerOrderIs ==
  ASSUME NEW k \in DOMAIN Fields, k # "singleton"
  PROVE  MaterializerOrder[k] = InsertOrder[k]
<1>1. OrElse(BuildDeclOrder, BuildMemberOrder) = OrElse(InsertDeclOrder, InsertMemberOrder)
  BY DEF BuildDeclOrder, InsertDeclOrder, BuildMemberOrder, InsertMemberOrder
<1>2. BuildMethodTypeOrder = InsertMethodTypeOrder
  BY DEF BuildMethodTypeOrder, InsertMethodTypeOrder
<1>3. DOMAIN BuildTypeOrder = DOMAIN InsertTypeOrder
  BY DEF BuildTypeOrder, InsertTypeOrder
<1>4. \A j \in DOMAIN InsertTypeOrder : j # "singleton" => BuildTypeOrder[j] = InsertTypeOrder[j]
  BY DEF BuildTypeOrder, InsertTypeOrder
<1> DEFINE L == OrElse(InsertDeclOrder, InsertMemberOrder)
           R == OrElse(InsertMethodTypeOrder, InsertTypeOrder)
           S == OrElse(InsertMethodTypeOrder, BuildTypeOrder)
<1>5. DOMAIN R = DOMAIN S /\ \A j \in DOMAIN R : j # "singleton" => S[j] = R[j]
  BY <1>3, <1>4 DEF OrElse
<1>6. MaterializerOrder = OrElse(L, S) /\ InsertOrder = OrElse(L, R)
  BY <1>1, <1>2 DEF MaterializerOrder, InsertOrder
<1>7. k \in DOMAIN L \cup DOMAIN R
  <2>1. DOMAIN L \cup DOMAIN R = DOMAIN InsertDeclOrder \cup DOMAIN InsertMemberOrder
                \cup DOMAIN InsertMethodTypeOrder \cup DOMAIN InsertTypeOrder
    BY DEF OrElse
  <2> QED BY <2>1, KindsAreParts
<1> HIDE DEF L, R, S
<1>8. OrElse(L, S)[k] = OrElse(L, R)[k]
  BY <1>5, <1>7 DEF OrElse
<1> QED BY <1>6, <1>8

-----------------------------------------------------------------------------
(* Trees.                                                                  *)

Paths == Seq(Nat \cup FieldNames)

\* How a child is related to its parent.
Kin(x, y) ==
  /\ Depth[y.node] < Depth[x.node]
  /\ Len(y.at) = Len(x.at) + 2
  /\ Len(x.at) >= 2 => y.at[1] = x.at[1] /\ y.at[2] = x.at[2]
  /\ IsDecl(y.node) => x.node.k \in Scopes

KinOf(x) == {y \in Items : Kin(x, y)}

LEMMA UnderIsKin ==
  ASSUME NEW x \in Items, NEW f \in Fields[x.node.k]
  PROVE  Under(x, f) \in Seq(KinOf(x)) /\ (f # "members" => \A i \in DOMAIN Under(x, f) :
                                                              ~IsDecl(Under(x, f)[i].node))
<1>1. IsNode(x.node) /\ x.node \in Nodes /\ x.at \in Paths
  BY NodesAssumption DEF Items, Paths
<1>2. x.node[f] \in Seq(Nodes) /\ DOMAIN x.node[f] = 1 .. Len(x.node[f]) /\ Len(x.node[f]) \in Nat
  BY <1>1 DEF IsNode
<1>3. Under(x, f) \in Seq(Items)
  BY UnderIsItems
<1>4. DOMAIN Under(x, f) = DOMAIN x.node[f]
  BY DEF Under
<1>5. ASSUME NEW i \in DOMAIN x.node[f]
      PROVE  Under(x, f)[i] \in KinOf(x) /\ (f # "members" => ~IsDecl(Under(x, f)[i].node))
  <2> DEFINE y == Under(x, f)[i]
  <2>1. y \in Items
    BY <1>3, <1>4
  <2>2. y.node = x.node[f][i] /\ y.at = x.at \o <<f, i>>
    BY DEF Under, Item
  <2>3. Depth[x.node[f][i]] < Depth[x.node]
    BY <1>1, DepthAssumption
  <2>4. IsDecl(x.node[f][i]) => x.node.k \in Scopes /\ f = "members"
    BY <1>1 DEF IsNode
  <2>5. Len(y.at) = Len(x.at) + 2 /\ (Len(x.at) >= 2 => y.at[1] = x.at[1] /\ y.at[2] = x.at[2])
    BY <1>1, <2>2 DEF Paths
  <2> HIDE DEF y
  <2>6. Kin(x, y)
    BY <2>2, <2>3, <2>4, <2>5 DEF Kin
  <2> QED BY <2>1, <2>2, <2>4, <2>6 DEF KinOf, y
<1>6. Under(x, f) \in Seq(KinOf(x))
  <2> DEFINE u == Under(x, f)
  <2>1. u \in Seq(Items) /\ \A i \in DOMAIN u : u[i] \in KinOf(x)
    BY <1>3, <1>4, <1>5
  <2> HIDE DEF u
  <2>2. u \in Seq(KinOf(x))
    BY <2>1
  <2> QED BY <2>2 DEF u
<1> QED BY <1>4, <1>5, <1>6

(* The children of a node are its kin. *)
LEMMA ChildrenAreKin ==
  ASSUME NEW x \in Items, NEW order, IsOrder(order)
  PROVE  Children(x, order) \in Seq(KinOf(x))
<1> DEFINE fields == order[x.node.k]
           ss == [i \in DOMAIN fields |-> Under(x, fields[i])]
<1>1. x.node.k \in DOMAIN Fields
  BY NodesAssumption DEF Items, IsNode
<1>2. fields \in Seq(Fields[x.node.k])
  BY <1>1 DEF IsOrder
<1> HIDE DEF fields
<1>3. \A i \in DOMAIN fields : Under(x, fields[i]) \in Seq(KinOf(x))
  BY <1>2, UnderIsKin
<1>4. ss \in Seq(Seq(KinOf(x)))
  <2>1. DOMAIN fields = 1 .. Len(fields) /\ Len(fields) \in Nat
    BY <1>2
  <2> QED BY <1>3, <2>1
<1>5. FlattenSeq(ss) \in Seq(KinOf(x))
  BY <1>4, FlattenIsSeq
<1> QED BY <1>5 DEF Children, fields

ItemDepth == [x \in Items |-> Depth[x.node]]

LEMMA ChildrenAreRanked ==
  ASSUME NEW x \in Items
  PROVE  /\ Children(x, InsertOrder) \in Seq(Items)
         /\ \A i \in DOMAIN Children(x, InsertOrder) :
              ItemDepth[Children(x, InsertOrder)[i]] < ItemDepth[x]
<1>1. Children(x, InsertOrder) \in Seq(KinOf(x))
  BY ChildrenAreKin, InsertOrderIsOrder
<1>2. Children(x, InsertOrder) \in Seq(Items)
  BY ChildrenAreItems, InsertOrderIsOrder
<1>3. \A y \in KinOf(x) : ItemDepth[y] < ItemDepth[x]
  BY DEF KinOf, Kin, ItemDepth
<1> QED BY <1>1, <1>2, <1>3

-----------------------------------------------------------------------------
(* The use map.                                                            *)

UseMaps == UNION {[D -> TypeNames] : D \in SUBSET Symbols}

(* A clause adds names under symbols. *)
LEMMA AddClauseIsUseMap ==
  ASSUME NEW all \in SUBSET TypeNames, NEW map \in UseMaps, NEW clause \in Clauses
  PROVE  AddClause(all, map, clause) \in UseMaps
<1>1. PICK D \in SUBSET Symbols : map \in [D -> TypeNames]
  BY DEF UseMaps
<1>2. CASE clause \in [k : {"single"}, name : TypeNames, as : Symbols \cup {None}]
  <2> DEFINE key == IF clause.as = None THEN clause.name.name ELSE clause.as
  <2>1. key \in Symbols /\ clause.name \in TypeNames /\ clause.k = "single"
    BY <1>2 DEF TypeNames
  <2>2. AddClause(all, map, clause) = Put(map, key, clause.name)
    BY <2>1 DEF AddClause, AddSingle
  <2> HIDE DEF key
  <2>3. Put(map, key, clause.name) \in [D \cup {key} -> TypeNames]
    BY <1>1, <2>1 DEF Put, OrElse
  <2> QED BY <2>1, <2>2, <2>3 DEF UseMaps
<1>3. CASE clause \in [k : {"wildcard"}, ns : Namespaces]
  <2> DEFINE bound == ChildrenOf(all, clause.ns)
             E == {n.name : n \in bound}
             f == [s \in E |-> CHOOSE n \in bound : n.name = s]
  <2>1. bound \subseteq TypeNames
    BY DEF ChildrenOf
  <2>2. AddClause(all, map, clause) = OrElse(f, map)
    BY <1>3 DEF AddClause, AddWildcard
  <2> HIDE DEF bound
  <2>3. E \in SUBSET Symbols
    BY <2>1 DEF TypeNames
  <2>4. f \in [E -> TypeNames]
    BY <2>1
  <2> HIDE DEF E, f
  <2>5. OrElse(f, map) \in [E \cup D -> TypeNames]
    BY <1>1, <2>4 DEF OrElse
  <2> QED BY <2>2, <2>3, <2>5 DEF UseMaps
<1> QED BY <1>2, <1>3 DEF Clauses

(* The use map of a source grows clause by clause. *)
LEMMA UseMapGrows ==
  ASSUME NEW all \in SUBSET TypeNames, NEW clauses \in Seq(Clauses)
  PROVE  \E m \in [0 .. Len(clauses) -> UseMaps] :
           /\ m[0] = NoUses /\ UseMapOf(all, clauses) = m[Len(clauses)]
           /\ \A k \in 1 .. Len(clauses) : m[k] = AddClause(all, m[k - 1], clauses[k])
<1>1. NoUses \in UseMaps
  <2>1. NoUses \in [{} -> TypeNames]
    BY DEF NoUses
  <2> QED BY <2>1 DEF UseMaps
<1> SUFFICES ASSUME NEW n \in Nat, n = Len(clauses)
             PROVE  \E m \in [0 .. n -> UseMaps] :
                      /\ m[0] = NoUses /\ UseMapOf(all, clauses) = m[n]
                      /\ \A k \in 1 .. n : m[k] = AddClause(all, m[k - 1], clauses[k])
  OBVIOUS
<1>2. DOMAIN clauses = 1 .. n /\ \A i \in 1 .. n : clauses[i] \in Clauses
  OBVIOUS
<1> DEFINE Val(g, s) == IF s = {} THEN NoUses ELSE AddClause(all, g[s \ {Max(s)}], clauses[Max(s)])
           iter == CHOOSE g : g = [s \in SUBSET DOMAIN clauses |-> Val(g, s)]
           Op == [p \in UseMaps \X (1 .. n) |-> AddClause(all, p[1], clauses[p[2]])]
<1>3. UseMapOf(all, clauses) = iter[1 .. n]
  BY <1>2 DEF UseMapOf, FoldLeft, MapThenFoldSet
<1>4. Op \in [UseMaps \X (1 .. n) -> UseMaps]
  BY <1>2, AddClauseIsUseMap
<1>5. PICK g \in [SUBSET (1 .. n) -> UseMaps] : Folds(g, Op, NoUses, n)
  <2> HIDE DEF Op
  <2> QED BY <1>1, <1>4, FoldExists
<1>6. ASSUME NEW s \in SUBSET (1 .. n) PROVE g[s] = Val(g, s)
  <2>1. CASE s = {}
    BY <1>5, <2>1 DEF Folds
  <2>2. CASE s # {}
    <3>1. Max(s) \in 1 .. n /\ s \ {Max(s)} \in SUBSET (1 .. n)
      BY <2>2, MaxIsGreatest
    <3>2. <<g[s \ {Max(s)}], Max(s)>> \in UseMaps \X (1 .. n)
      BY <3>1
    <3>3. g[s] = Op[<<g[s \ {Max(s)}], Max(s)>>]
      BY <1>5, <2>2 DEF Folds
    <3> QED BY <2>2, <3>2, <3>3
  <2> QED BY <2>1, <2>2
<1>7. iter = [s \in SUBSET (1 .. n) |-> Val(iter, s)]
  <2>1. g = [s \in SUBSET (1 .. n) |-> Val(g, s)]
    <3> HIDE DEF Val
    <3> QED BY <1>6
  <2> QED BY <1>2, <2>1
<1> HIDE DEF iter
<1> DEFINE A == {k \in 0 .. n : \A s \in SUBSET (1 .. k) : iter[s] \in UseMaps}
<1>8. 0 \in A
  <2>1. ASSUME NEW s \in SUBSET (1 .. 0) PROVE iter[s] \in UseMaps
    <3>1. s = {} /\ s \in SUBSET (1 .. n)
      OBVIOUS
    <3> QED BY <1>1, <1>7, <3>1
  <2> QED BY <2>1
<1>9. ASSUME NEW k \in 0 .. n, k # n, k \in A PROVE k + 1 \in A
  <2>1. ASSUME NEW s \in SUBSET (1 .. k + 1) PROVE iter[s] \in UseMaps
    <3>1. s \in SUBSET (1 .. n) /\ k + 1 \in Nat
      BY <1>9
    <3>2. iter[s] = Val(iter, s)
      <4> HIDE DEF Val
      <4> QED BY <1>7, <3>1
    <3>3. CASE s = {}
      BY <1>1, <3>2, <3>3
    <3>4. CASE s # {}
      <4>1. Max(s) \in 1 .. k + 1 /\ s \ {Max(s)} \in SUBSET (1 .. Max(s) - 1)
        BY <3>1, <3>4, BelowMax
      <4>2. s \ {Max(s)} \in SUBSET (1 .. k) /\ Max(s) \in 1 .. n
        BY <1>9, <4>1
      <4>3. iter[s \ {Max(s)}] \in UseMaps
        BY <1>9, <4>2
      <4>4. AddClause(all, iter[s \ {Max(s)}], clauses[Max(s)]) \in UseMaps
        BY <1>2, <4>2, <4>3, AddClauseIsUseMap
      <4> QED BY <3>2, <3>4, <4>4
    <3> QED BY <3>3, <3>4
  <2> QED BY <1>9, <2>1
<1>10. n \in A
  <2> HIDE DEF A
  <2>1. 0 .. n \subseteq A
    BY <1>8, <1>9, UpTo
  <2> QED BY <2>1
<1>11. ASSUME NEW s \in SUBSET (1 .. n) PROVE iter[s] = Val(iter, s) /\ iter[s] \in UseMaps
  <2>1. iter[s] = Val(iter, s)
    <3> HIDE DEF Val
    <3> QED BY <1>7
  <2> QED BY <1>10, <2>1
<1>12. iter[{}] = NoUses
  BY <1>11
<1>13. ASSUME NEW k \in 1 .. n PROVE iter[1 .. k] = AddClause(all, iter[1 .. k - 1], clauses[k])
  <2>1. 1 .. k \in SUBSET (1 .. n) /\ 1 .. k # {} /\ k \in 1 .. k /\ k \in Nat
    <3>1. n \in Nat /\ k \in Nat /\ 1 <= k /\ k <= n
      OBVIOUS
    <3> QED BY <3>1
  <2>2. Max(1 .. k) \in 1 .. k /\ \A i \in 1 .. k : i <= Max(1 .. k)
    BY <2>1, MaxIsGreatest
  <2>3. Max(1 .. k) = k
    BY <2>1, <2>2
  <2>4. (1 .. k) \ {k} = 1 .. k - 1
    BY <2>1
  <2> QED BY <1>11, <2>1, <2>3, <2>4
<1> DEFINE m == [k \in 0 .. n |-> iter[1 .. k]]
<1>14. m \in [0 .. n -> UseMaps]
  <2>1. \A k \in 0 .. n : 1 .. k \in SUBSET (1 .. n)
    OBVIOUS
  <2> QED BY <1>11, <2>1
<1>15. m[0] = NoUses /\ m[n] = iter[1 .. n]
  <2>1. 1 .. 0 = {} /\ 0 \in 0 .. n /\ n \in 0 .. n
    OBVIOUS
  <2> QED BY <1>12, <2>1
<1>16. \A k \in 1 .. n : m[k] = AddClause(all, m[k - 1], clauses[k])
  <2>1. \A k \in 1 .. n : k \in 0 .. n /\ k - 1 \in 0 .. n
    OBVIOUS
  <2> QED BY <1>13, <2>1
<1> QED BY <1>3, <1>14, <1>15, <1>16

(* The clauses of a source make a use map. *)
LEMMA UseMapOfIsUseMap ==
  ASSUME NEW all \in SUBSET TypeNames, NEW clauses \in Seq(Clauses)
  PROVE  UseMapOf(all, clauses) \in UseMaps
<1>1. PICK m \in [0 .. Len(clauses) -> UseMaps] : UseMapOf(all, clauses) = m[Len(clauses)]
  BY UseMapGrows
<1>2. Len(clauses) \in 0 .. Len(clauses)
  OBVIOUS
<1> QED BY <1>1, <1>2

-----------------------------------------------------------------------------
(* The items of a program.                                                 *)

Closed(S) == \A y \in S : Range(Children(y, InsertOrder)) \subseteq S

(* A child is an item in a field of its parent, and deeper down. *)
LEMMA ChildIs ==
  ASSUME NEW x \in Items, NEW y \in Range(Children(x, InsertOrder))
  PROVE  y \in Items /\ Kin(x, y)
<1>1. Children(x, InsertOrder) \in Seq(KinOf(x))
  BY ChildrenAreKin, InsertOrderIsOrder
<1>2. y \in KinOf(x)
  BY <1>1, RangeOfSeq
<1> QED BY <1>2 DEF KinOf

(* The tree under x is what can be reached from x. *)
LEMMA InTreeIs ==
  ASSUME NEW x \in Items
  PROVE  /\ x \in InTree(x) /\ InTree(x) \subseteq Items /\ Closed(InTree(x))
         /\ \A S : x \in S /\ Closed(S) => InTree(x) \subseteq S
<1>1. PICK n \in Nat : n = Depth[x.node]
  BY DepthAssumption DEF Items
<1> DEFINE V == SUBSET Items
           base == {x}
           On(p) == UNION {Range(Children(y, InsertOrder)) : y \in p}
           Val(f, k) == IF k = 0 THEN base ELSE On(f[k - 1])
           level == CHOOSE f : f = [k \in 0 .. n |-> Val(f, k)]
           Op == [p \in V \X (1 .. n) |-> On(p[1])]
<1>2. base \in V /\ \A p \in V : On(p) \in V
  BY ChildIs
<1>3. InTree(x) = UNION {level[k] : k \in DOMAIN level}
  BY <1>1 DEF InTree
<1> HIDE DEF V, On, base
<1>4. Op \in Operations(V, n)
  BY <1>2 DEF Operations
<1>5. PICK g : Iteration(V, base, n, Op, g)
  <2> HIDE DEF Op
  <2> QED BY <1>2, <1>4, Iterates
<1>6. ASSUME NEW k \in 1 .. n PROVE g[k] = On(g[k - 1])
  <2>1. k - 1 \in 0 .. n
    BY <1>1
  <2>2. <<g[k - 1], k>> \in V \X (1 .. n)
    BY <1>5, <2>1 DEF Iteration
  <2> QED BY <1>5, <2>2 DEF Iteration
<1>7. g = [k \in 0 .. n |-> Val(g, k)]
  <2>1. \A k \in 0 .. n : k = 0 \/ k \in 1 .. n
    BY <1>1
  <2>2. \A k \in 0 .. n : g[k] = Val(g, k)
    BY <1>5, <1>6, <2>1 DEF Iteration
  <2>3. g \in [0 .. n -> V]
    BY <1>5 DEF Iteration
  <2> HIDE DEF Val
  <2> QED BY <2>2, <2>3
<1>8. level = [k \in 0 .. n |-> Val(level, k)]
  <2> HIDE DEF Val
  <2> QED BY <1>7
<1> HIDE DEF level
<1>9. DOMAIN level = 0 .. n /\ level[0] = base /\ \A k \in 1 .. n : level[k] = On(level[k - 1])
  <2>1. DOMAIN level = 0 .. n /\ \A k \in 0 .. n : level[k] = Val(level, k)
    <3> HIDE DEF Val
    <3> QED BY <1>8
  <2>2. 0 \in 0 .. n /\ \A k \in 1 .. n : k \in 0 .. n /\ k # 0
    BY <1>1
  <2> QED BY <2>1, <2>2
<1> HIDE DEF Op
<1>10. ASSUME NEW A, 0 \in A, \A k \in 0 .. n : k # n /\ k \in A => k + 1 \in A
       PROVE  \A k \in 0 .. n : k \in A
  BY <1>1, <1>10, UpTo
<1>11. \A k \in 0 .. n : \A y \in level[k] : y \in Items /\ Depth[y.node] + k <= n
  <2> DEFINE A == {k \in 0 .. n : \A y \in level[k] : y \in Items /\ Depth[y.node] + k <= n}
  <2>1. 0 \in A
    BY <1>1, <1>9 DEF base
  <2>2. ASSUME NEW k \in 0 .. n, k # n, k \in A PROVE k + 1 \in A
    <3>1. k + 1 \in 1 .. n /\ k + 1 \in 0 .. n /\ k + 1 - 1 = k
      BY <1>1, <2>2
    <3>2. ASSUME NEW y \in level[k + 1] PROVE y \in Items /\ Depth[y.node] + (k + 1) <= n
      <4>1. PICK z \in level[k] : y \in Range(Children(z, InsertOrder))
        BY <1>9, <3>1 DEF On
      <4>2. z \in Items /\ Depth[z.node] + k <= n
        BY <2>2, <4>1
      <4>3. y \in Items /\ Depth[y.node] < Depth[z.node]
        BY <4>1, <4>2, ChildIs DEF Kin
      <4>4. Depth[y.node] \in Nat /\ Depth[z.node] \in Nat
        BY <4>2, <4>3, DepthAssumption DEF Items
      <4> QED BY <1>1, <4>2, <4>3, <4>4
    <3> QED BY <3>1, <3>2
  <2>3. \A k \in 0 .. n : k \in A
    <3> HIDE DEF A
    <3> QED BY <1>10, <2>1, <2>2
  <2> QED BY <2>3
<1>12. x \in InTree(x) /\ InTree(x) \subseteq Items
  <2>1. x \in level[0] /\ 0 \in 0 .. n
    BY <1>1, <1>9 DEF base
  <2> QED BY <1>3, <1>9, <1>11, <2>1
<1>13. ASSUME NEW y \in InTree(x), NEW z \in Range(Children(y, InsertOrder)) PROVE z \in InTree(x)
  <2>1. PICK k \in 0 .. n : y \in level[k]
    BY <1>3, <1>9
  <2>2. y \in Items /\ Depth[y.node] + k <= n
    BY <1>11, <2>1
  <2>3. z \in Items /\ Depth[z.node] < Depth[y.node]
    BY <2>2, <1>13, ChildIs DEF Kin
  <2>4. Depth[y.node] \in Nat /\ Depth[z.node] \in Nat
    BY <2>2, <2>3, DepthAssumption DEF Items
  <2>5. k + 1 \in 1 .. n /\ k + 1 - 1 = k /\ k + 1 \in 0 .. n
    BY <1>1, <2>2, <2>3, <2>4
  <2>6. z \in level[k + 1]
    BY <1>9, <1>13, <2>1, <2>5 DEF On
  <2> QED BY <1>3, <1>9, <2>5, <2>6
<1>14. ASSUME NEW S, x \in S, Closed(S) PROVE InTree(x) \subseteq S
  <2> DEFINE A == {k \in 0 .. n : level[k] \subseteq S}
  <2>1. 0 \in A
    BY <1>1, <1>9, <1>14 DEF base
  <2>2. ASSUME NEW k \in 0 .. n, k # n, k \in A PROVE k + 1 \in A
    <3>1. k + 1 \in 1 .. n /\ k + 1 \in 0 .. n /\ k + 1 - 1 = k
      BY <1>1, <2>2
    <3>2. On(level[k]) \subseteq S
      BY <1>14, <2>2 DEF On, Closed
    <3> QED BY <1>9, <3>1, <3>2
  <2>3. \A k \in 0 .. n : k \in A
    <3> HIDE DEF A
    <3> QED BY <1>10, <2>1, <2>2
  <2> QED BY <1>3, <1>9, <2>3
<1> QED BY <1>12, <1>13, <1>14 DEF Closed

(* The occurrences are what can be reached from the top. *)
LEMMA OccurrencesAre ==
  ASSUME program \in Programs
  PROVE  /\ Tops \subseteq Occurrences /\ Occurrences \subseteq Items /\ Closed(Occurrences)
         /\ \A S : Tops \subseteq S /\ Closed(S) => Occurrences \subseteq S
<1>1. Tops \subseteq Items
  <2> SUFFICES ASSUME NEW i \in DOMAIN program
               PROVE  Range(TopItems(i, program[i].decls)) \subseteq Items
    BY DEF Tops
  <2>1. i \in Nat /\ program[i].decls \in Seq(Nodes)
    <3>1. program \in Seq(Sources)
      BY ProgramsAssumption
    <3>2. i \in Nat /\ program[i] \in Sources
      BY <3>1
    <3> QED BY <3>2 DEF Sources
  <2> QED BY <2>1, TopItemsAreItems, RangeOfSeq
<1>2. ASSUME NEW x \in Tops
      PROVE  /\ x \in InTree(x) /\ InTree(x) \subseteq Items /\ Closed(InTree(x))
             /\ \A S : x \in S /\ Closed(S) => InTree(x) \subseteq S
  BY <1>1, InTreeIs
<1>3. Closed(Occurrences)
  <2> SUFFICES ASSUME NEW y \in Occurrences
               PROVE  Range(Children(y, InsertOrder)) \subseteq Occurrences
    BY DEF Closed
  <2>1. PICK x \in Tops : y \in InTree(x)
    BY DEF Occurrences
  <2>2. Range(Children(y, InsertOrder)) \subseteq InTree(x)
    BY <1>2, <2>1 DEF Closed
  <2> QED BY <2>1, <2>2 DEF Occurrences
<1> QED BY <1>2, <1>3 DEF Occurrences

-----------------------------------------------------------------------------
(* Type correctness.  The type invariant of the run says nothing of the    *)
(* stack of work, which differs from walk to walk; an action on the next   *)
(* item needs to know what it may be.                                      *)

\* What is on the stack while names are resolved, given the declarations
\* there may be marks for, and while objects are built.
Marked(refs) == Items \cup [count : Items] \cup [leave : refs \cup {None}]

Saved(t) == {s \in [slice : DOMAIN t \cup {None}, cursor : Nat] :
               s.slice # None => s.cursor <= Len(t[s.slice])}

Marks(t) == Items \cup [leave : Saved(t)]

Refs == (1 .. Len(program)) \X (0 .. counter)

\* An entry is of no particular type: it holds what Scoping answers.
IsTable(t) == \A r \in DOMAIN t : \E S : t[r] \in Seq(S)

WorkOK ==
  /\ phase = "insert" => work \in Seq(Items)
  /\ phase = "resolve" => work \in Seq(Marked(Refs)) /\ (work # <<>> => source # 0)
  /\ phase = "materialize" => work \in Seq(Marks(table))

StateOK ==
  /\ program \in Programs
  /\ useMap \in UseMaps
  /\ IsTable(table)
  /\ counter \in Nat /\ index \in Nat /\ cursor \in Nat
  /\ phase \in {"insert", "loaded", "resolve", "resolved"} => slice = None

TypeInv == TypeOK /\ WorkOK /\ StateOK

(* The shape of a record tells the marks from the items. *)
LEMMA MarksAreMarks ==
  ASSUME NEW refs, NEW w \in Marked(refs)
  PROVE  /\ IsWalked(w) <=> w \in Items
         /\ IsCounted(w) <=> w \in [count : Items]
         /\ IsLeave(w) <=> w \in [leave : refs \cup {None}]
<1>1. \A v \in Items : DOMAIN v = {"node", "ctx", "at"}
  BY DEF Items
<1>2. \A v \in [count : Items] : DOMAIN v = {"count"}
  OBVIOUS
<1>3. \A v \in [leave : refs \cup {None}] : DOMAIN v = {"leave"}
  OBVIOUS
<1>4. CASE w \in Items
  <2>1. DOMAIN w = {"node", "ctx", "at"}
    BY <1>1, <1>4
  <2>2. w \notin [count : Items] /\ w \notin [leave : refs \cup {None}]
    BY <1>2, <1>3, <2>1
  <2> QED BY <1>4, <2>1, <2>2 DEF IsWalked, IsCounted, IsLeave
<1>5. CASE w \in [count : Items]
  <2>1. DOMAIN w = {"count"}
    BY <1>2, <1>5
  <2>2. w \notin Items /\ w \notin [leave : refs \cup {None}]
    BY <1>1, <1>3, <2>1
  <2> QED BY <1>5, <2>1, <2>2 DEF IsWalked, IsCounted, IsLeave
<1>6. CASE w \in [leave : refs \cup {None}]
  <2>1. DOMAIN w = {"leave"}
    BY <1>3, <1>6
  <2>2. w \notin Items /\ w \notin [count : Items]
    BY <1>1, <1>2, <2>1
  <2> QED BY <1>6, <2>1, <2>2 DEF IsWalked, IsCounted, IsLeave
<1> QED BY <1>4, <1>5, <1>6 DEF Marked

(* The same on the materializer's stack. *)
LEMMA SavesAreMarks ==
  ASSUME NEW t, NEW w \in Marks(t)
  PROVE  /\ IsWalked(w) <=> w \in Items
         /\ IsLeave(w) <=> w \in [leave : Saved(t)]
<1>1. \A v \in Items : DOMAIN v = {"node", "ctx", "at"}
  BY DEF Items
<1>3. \A v \in [leave : Saved(t)] : DOMAIN v = {"leave"}
  OBVIOUS
<1>4. CASE w \in Items
  <2>1. DOMAIN w = {"node", "ctx", "at"}
    BY <1>1, <1>4
  <2>2. w \notin [leave : Saved(t)]
    BY <1>3, <2>1
  <2> QED BY <1>4, <2>1, <2>2 DEF IsWalked, IsLeave
<1>5. CASE w \in [leave : Saved(t)]
  <2>1. DOMAIN w = {"leave"}
    BY <1>3, <1>5
  <2>2. w \notin Items
    BY <1>1, <2>1
  <2> QED BY <1>5, <2>1, <2>2 DEF IsWalked, IsLeave
<1> QED BY <1>4, <1>5 DEF Marks

(* The materializer visits fields the grammar knows, too. *)
LEMMA MaterializerOrderIsOrder == IsOrder(MaterializerOrder)
<1>1. MaterializerOrder["singleton"] = <<"args">>
  BY DEF MaterializerOrder, OrElse, BuildDeclOrder, BuildMemberOrder, BuildMethodTypeOrder,
         BuildTypeOrder
<1>2. <<"args">> \in Seq(Fields["singleton"])
  BY DEF Fields
<1> QED BY <1>1, <1>2, MaterializerOrderIs, InsertOrderIsOrder DEF IsOrder

(* What Descend leaves to be done. *)
LEMMA DescendIsSeq ==
  ASSUME NEW T, Items \subseteq T, NEW w \in Seq(T), w # <<>>, Head(w) \in Items,
         NEW order, IsOrder(order)
  PROVE  Children(Head(w), order) \o Tail(w) \in Seq(T)
<1>1. Children(Head(w), order) \in Seq(Items)
  BY ChildrenAreItems
<1>2. Children(Head(w), order) \in Seq(T)
  BY <1>1, SeqMonotonic
<1>3. Tail(w) \in Seq(T)
  OBVIOUS
<1> QED BY <1>2, <1>3

(* The use map turns names into names. *)
LEMMA MappedIsName ==
  ASSUME useMap \in UseMaps, NEW tn \in TypeNames
  PROVE  Mapped(useMap, tn) \in TypeNames
<1>1. PICK D \in SUBSET Symbols : useMap \in [D -> TypeNames]
  BY DEF UseMaps
<1> DEFINE head == Head(Segments(tn))
<1>2. tn.ns.path \in Seq(Symbols) /\ tn.name \in Symbols
  BY DEF TypeNames, Namespaces
<1> HIDE DEF head
<1>3. CASE tn.ns.abs \/ head \notin DOMAIN useMap
  BY <1>3 DEF Mapped, head
<1>4. CASE ~tn.ns.abs /\ head \in DOMAIN useMap
  <2>1. useMap[head] \in TypeNames
    BY <1>1, <1>4
  <2>2. CASE tn.ns.path = <<>>
    BY <1>4, <2>1, <2>2 DEF Mapped, head
  <2>3. CASE tn.ns.path # <<>>
    <3>1. Segments(useMap[head]) \in Seq(Symbols)
      BY <2>1 DEF Segments, TypeNames, Namespaces
    <3>2. Segments(useMap[head]) \o Tail(tn.ns.path) \in Seq(Symbols)
      BY <1>2, <2>3, <3>1
    <3>3. Mapped(useMap, tn) = Tn(Ns(Segments(useMap[head]) \o Tail(tn.ns.path), TRUE), tn.name)
      BY <1>4, <2>3 DEF Mapped, head
    <3> QED BY <1>2, <3>2, <3>3 DEF Tn, Ns, TypeNames, Namespaces
  <2> QED BY <2>2, <2>3
<1> QED BY <1>3, <1>4

(* A walk of insert leaves what the later walks keep alone. *)
LEMMA InsertTypes ==
  ASSUME TypeInv, InsertNext, UNCHANGED <<driverVars, materializerVars>>
  PROVE  TypeInv'
<1> USE DEF driverVars, materializerVars
<1>1. /\ phase = "insert" /\ work \in Seq(Items) /\ program \in Programs /\ program \in Seq(Sources)
      /\ source \in 0 .. Len(program) /\ program' = program
  <2>1. phase = "insert" /\ program' = program
    BY DEF InsertNext, InsertSource, InsertDecl, InsertGlobal, InsertDuplicate, InsertNode,
           InsertEnd, envVars
  <2> QED BY <2>1, ProgramsAssumption DEF TypeInv, TypeOK, WorkOK, StateOK
<1>2. StateOK'
  <2>1. phase' \in {"insert", "failed", "loaded"}
    BY <1>1 DEF InsertNext, InsertSource, InsertDecl, InsertGlobal, InsertDuplicate, InsertNode,
                InsertEnd
  <2> QED BY <1>1, <2>1 DEF TypeInv, StateOK, IsTable
<1>3. /\ slice' # None => slice' \in DOMAIN table' /\ cursor' \in 0 .. Len(table'[slice'])
      /\ current' # None => current' \in (1 .. Len(program')) \X (0 .. counter')
  BY <1>1 DEF TypeInv, TypeOK
<1>4. CASE InsertSource
  <2>1. /\ source' = source + 1 /\ source' \in 0 .. Len(program') /\ phase' = phase
        /\ work' = TopItems(source + 1, program[source + 1].decls)
        /\ UNCHANGED <<nss, tns, decls>>
    BY <1>1, <1>4 DEF InsertSource, Enter, envVars
  <2>2. program[source + 1] \in Sources
    BY <1>1, <1>4 DEF InsertSource
  <2>3. work' \in Seq(Items)
    <3>1. program[source + 1].decls \in Seq(Nodes) /\ source + 1 \in Nat
      BY <1>1, <2>2 DEF Sources
    <3> QED BY <2>1, <3>1, TopItemsAreItems
  <2> QED BY <1>1, <1>2, <1>3, <2>1, <2>3 DEF TypeInv, TypeOK, WorkOK
<1>5. CASE InsertDecl
  <2> DEFINE item == Head(work) full == FullName(item)
  <2>1. item \in Items /\ IsDecl(item.node) /\ item.node.k # "global"
    BY <1>1, <1>5 DEF InsertDecl
  <2>2. /\ UNCHANGED <<phase, source>> /\ work' = Children(Head(work), InsertOrder) \o Tail(work)
        /\ nss' = nss \cup NamespacesOf(item) /\ tns' = tns \cup NamesOf(item)
        /\ decls' = IF full \in DOMAIN decls THEN decls ELSE Put(decls, full, Entry(item))
    BY <1>5 DEF InsertDecl, Intern, Descend
  <2>3. work' \in Seq(Items)
    BY <1>1, <1>5, <2>1, <2>2, DescendIsSeq, InsertOrderIsOrder DEF InsertDecl
  <2>4. full \in NamesOf(item) /\ full \in AbsoluteNames
    <3>1. item.node.name \in TypeNames
      BY <2>1, NodesAssumption DEF Items, IsNode, IsDecl
    <3>2. full \in AbsoluteNames
      BY <2>1, <3>1, FullNameIsAbsolute
    <3> QED BY <2>1, <3>2 DEF NamesOf, NameKinds, IsDecl, DeclKinds
  <2>5. NamesOf(item) \subseteq TypeNames /\ NamespacesOf(item) \subseteq Namespaces
    BY <2>1, NamesAreNames
  <2> HIDE DEF item, full
  <2>6. DOMAIN decls' \subseteq DOMAIN decls \cup {full}
    <3>1. DOMAIN Put(decls, full, Entry(item)) = DOMAIN decls \cup {full}
      BY PutIs
    <3> QED BY <2>2, <3>1
  <2>7. TypeOK'
    <3>1. nss' \subseteq Namespaces /\ tns' \subseteq TypeNames /\ tns \subseteq tns'
      BY <2>2, <2>5 DEF TypeInv, TypeOK
    <3>2. DOMAIN decls' \subseteq tns'
      BY <2>2, <2>4, <2>6, <3>1 DEF TypeInv, TypeOK
    <3>3. \A n \in DOMAIN decls' : n.ns.abs
      BY <2>4, <2>6 DEF TypeInv, TypeOK, AbsoluteNames
    <3> QED BY <1>1, <1>3, <2>2, <3>1, <3>2, <3>3 DEF TypeOK, Phases
  <2> QED BY <1>1, <1>2, <2>2, <2>3, <2>7 DEF TypeInv, WorkOK
<1>6. CASE InsertGlobal
  <2>1. Head(work) \in Items /\ work # <<>>
    BY <1>1, <1>6 DEF InsertGlobal
  <2>2. /\ UNCHANGED <<phase, source, nss, tns, decls>>
        /\ work' = Children(Head(work), InsertOrder) \o Tail(work)
    BY <1>6 DEF InsertGlobal, Descend
  <2>3. work' \in Seq(Items)
    BY <1>1, <2>1, <2>2, DescendIsSeq, InsertOrderIsOrder
  <2> QED BY <1>1, <1>2, <1>3, <2>2, <2>3 DEF TypeInv, TypeOK, WorkOK
<1>7. CASE InsertDuplicate
  BY <1>1, <1>2, <1>3, <1>7 DEF InsertDuplicate, envVars, TypeInv, TypeOK, WorkOK, Phases
<1>8. CASE InsertNode
  <2>1. Head(work) \in Items /\ work # <<>>
    BY <1>1, <1>8 DEF InsertNode
  <2>2. /\ UNCHANGED <<phase, source, decls>>
        /\ nss' = nss \cup NamespacesOf(Head(work)) /\ tns' = tns \cup NamesOf(Head(work))
        /\ work' = Children(Head(work), InsertOrder) \o Tail(work)
    BY <1>8 DEF InsertNode, Intern, Descend
  <2>3. work' \in Seq(Items)
    BY <1>1, <2>1, <2>2, DescendIsSeq, InsertOrderIsOrder
  <2>4. NamesOf(Head(work)) \subseteq TypeNames /\ NamespacesOf(Head(work)) \subseteq Namespaces
    BY <2>1, NamesAreNames
  <2>5. TypeOK'
    BY <1>1, <1>3, <2>2, <2>4 DEF TypeInv, TypeOK
  <2> QED BY <1>1, <1>2, <2>2, <2>3, <2>5 DEF TypeInv, WorkOK
<1>9. CASE InsertEnd
  BY <1>1, <1>2, <1>3, <1>9 DEF InsertEnd, envVars, TypeInv, TypeOK, WorkOK, Phases
<1> QED BY <1>4, <1>5, <1>6, <1>7, <1>8, <1>9 DEF InsertNext


(* One entry more, for the declaration it is recorded for. *)
LEMMA RecordIsTable ==
  ASSUME IsTable(table), NEW ref, NEW entry, Record(ref, entry)
  PROVE  /\ IsTable(table')
         /\ DOMAIN table' = DOMAIN table \cup {ref}
         /\ \A r \in DOMAIN table : r # ref => table'[r] = table[r]
         /\ IF ref \in DOMAIN table THEN table'[ref] = Append(table[ref], entry)
            ELSE table'[ref] = <<entry>>
<1>1. CASE ref \in DOMAIN table
  <2>1. table' = [table EXCEPT ![ref] = Append(@, entry)]
    BY <1>1 DEF Record
  <2>2. PICK S : table[ref] \in Seq(S)
    BY <1>1 DEF IsTable
  <2>3. table[ref] \in Seq(S \cup {entry})
    BY <2>2, SeqMonotonic
  <2>4. Append(table[ref], entry) \in Seq(S \cup {entry})
    BY <2>3
  <2>5. \A r \in DOMAIN table : r # ref => table'[r] = table[r]
    BY <2>1
  <2>6. table'[ref] = Append(table[ref], entry) /\ DOMAIN table' = DOMAIN table
    BY <1>1, <2>1
  <2> QED BY <1>1, <2>4, <2>5, <2>6 DEF IsTable
<1>2. CASE ref \notin DOMAIN table
  <2>1. table' = Put(table, ref, <<entry>>)
    BY <1>2 DEF Record
  <2>2. /\ DOMAIN table' = DOMAIN table \cup {ref} /\ table'[ref] = <<entry>>
        /\ \A r \in DOMAIN table : r # ref => table'[r] = table[r]
    <3>1. DOMAIN table' = DOMAIN table \cup {ref}
      BY <2>1 DEF Put, OrElse
    <3>2. table'[ref] = <<entry>>
      BY <2>1 DEF Put, OrElse
    <3>3. \A r \in DOMAIN table : r # ref => table'[r] = table[r]
      BY <2>1 DEF Put, OrElse
    <3> QED BY <3>1, <3>2, <3>3
  <2>3. <<entry>> \in Seq({entry})
    OBVIOUS
  <2> QED BY <1>2, <2>2, <2>3 DEF IsTable
<1> QED BY <1>1, <1>2

(* Marks stay marks while declarations are counted. *)
LEMMA MarkedGrows ==
  ASSUME NEW n \in Nat, NEW k \in Nat, NEW m \in Nat, k <= m,
         NEW w \in Seq(Marked((1 .. n) \X (0 .. k)))
  PROVE  w \in Seq(Marked((1 .. n) \X (0 .. m)))
<1> DEFINE R == (1 .. n) \X (0 .. k)
           Q == (1 .. n) \X (0 .. m)
<1>1. R \subseteq Q
  OBVIOUS
<1>2. w \in Seq(Marked(R))
  OBVIOUS
<1> SUFFICES w \in Seq(Marked(Q))
  OBVIOUS
<1> HIDE DEF R, Q
<1>3. Marked(R) \subseteq Marked(Q)
  <2>1. [leave : R \cup {None}] \subseteq [leave : Q \cup {None}]
    BY <1>1
  <2> QED BY <2>1 DEF Marked
<1> QED BY <1>2, <1>3, SeqMonotonic

(* The members of a class or module. *)
LEMMA MembersAreItems ==
  ASSUME NEW item \in Items, item.node.k \in Scopes
  PROVE  Under(item, "members") \in Seq(Items)
<1>1. "members" \in Fields[item.node.k]
  BY DEF Fields, Scopes
<1> QED BY <1>1, UnderIsItems

(* The declarations a class or module counts. *)
LEMMA CountedBelowIsSeq ==
  ASSUME NEW item \in Items
  PROVE  CountedBelow(item) \in Seq([count : Items])
<1> DEFINE members == IF item.node.k \in Scopes THEN Under(item, "members") ELSE <<>>
           ss == [i \in DOMAIN members |->
                    IF IsDecl(members[i].node) THEN <<Counted(members[i])>> ELSE <<>>]
<1>1. members \in Seq(Items)
  BY MembersAreItems
<1> HIDE DEF members
<1> DEFINE C == [count : Items]
<1>2. ASSUME NEW m \in Items
      PROVE  (IF IsDecl(m.node) THEN <<Counted(m)>> ELSE <<>>) \in Seq(C)
  <2>1. Counted(m) \in C
    BY DEF Counted
  <2> HIDE DEF C
  <2> QED BY <2>1
<1>3. DOMAIN members = 1 .. Len(members) /\ Len(members) \in Nat
      /\ \A i \in DOMAIN members : members[i] \in Items
  BY <1>1
<1>4. ss \in Seq(Seq(C))
  <2> HIDE DEF C
  <2> QED BY <1>2, <1>3
<1> HIDE DEF ss
<1>5. FlattenSeq(ss) \in Seq(C)
  <2> HIDE DEF C
  <2> QED BY <1>4, FlattenIsSeq
<1> QED BY <1>5 DEF CountedBelow, ss, members

(* The driver keeps names names and marks marks. *)
LEMMA DriverTypes ==
  ASSUME TypeInv, DriverNext, UNCHANGED materializerVars
  PROVE  TypeInv'
<1> USE DEF materializerVars
<1>1. /\ program \in Programs /\ program \in Seq(Sources) /\ program' = program
      /\ source \in 0 .. Len(program) /\ Len(program) \in Nat /\ counter \in Nat
      /\ UNCHANGED <<decls, slice, cursor, index>> /\ slice = None
  <2>1. UNCHANGED <<program, decls, slice, cursor, index>> /\ phase \in {"loaded", "resolve"}
    BY DEF DriverNext, StartResolve, SkipSource, ResolveSource, SkipDecl, ConsumeDeclRef,
           WalkDeclaration, LeaveDeclaration, WalkName, WalkNode, ResolveEnd, NextSource,
           Resolving, envVars
  <2> QED BY <2>1, ProgramsAssumption DEF TypeInv, TypeOK, StateOK
<1> DEFINE Typed == /\ phase' \in {"resolve", "resolved", "panicked"}
                    /\ source' \in 0 .. Len(program)
                    /\ nss' \subseteq Namespaces /\ tns' \subseteq TypeNames /\ tns \subseteq tns'
                    /\ current' # None => current' \in (1 .. Len(program)) \X (0 .. counter')
                    /\ useMap' \in UseMaps /\ IsTable(table') /\ counter' \in Nat
                    /\ phase' = "resolve" =>
                         /\ work' \in Seq(Marked((1 .. Len(program)) \X (0 .. counter')))
                         /\ work' # <<>> => source' # 0
<1>2. SUFFICES Typed
  <2>1. TypeOK'
    BY <1>1, <1>2 DEF TypeInv, TypeOK, Phases
  <2>2. WorkOK'
    BY <1>1, <1>2 DEF WorkOK, Refs
  <2>3. StateOK'
    BY <1>1, <1>2 DEF TypeInv, StateOK
  <2> QED BY <2>1, <2>2, <2>3 DEF TypeInv
<1> HIDE DEF Typed
<1> DEFINE Now == /\ nss \subseteq Namespaces /\ tns \subseteq TypeNames
                  /\ current # None => current \in (1 .. Len(program)) \X (0 .. counter)
                  /\ useMap \in UseMaps /\ IsTable(table)
                  /\ phase = "resolve" => /\ work \in Seq(Marked((1 .. Len(program)) \X (0 .. counter)))
                                          /\ work # <<>> => source # 0
<1>3. Now
  BY DEF TypeInv, TypeOK, WorkOK, StateOK, Refs
<1>4. ASSUME NEW f \in Filters, StartResolve(f) PROVE Typed
  <2>1. /\ f # None => f \subseteq TypeNames /\ {n.ns : n \in f} \subseteq Namespaces
    BY FiltersAssumption DEF TypeNames
  <2>2. <<>> \in Seq(Marked((1 .. Len(program)) \X (0 .. counter)))
    OBVIOUS
  <2> QED BY <1>1, <1>3, <1>4, <2>1, <2>2 DEF Typed, StartResolve
<1>5. CASE SkipSource
  BY <1>1, <1>3, <1>5 DEF Typed, SkipSource, NextSource, envVars, driverVars
<1>6. CASE ResolveSource
  <2> DEFINE src == program[source + 1]
             singles == {src.uses[i].name : i \in {j \in DOMAIN src.uses :
                                                     src.uses[j].k = "single"}}
             wilds   == {src.uses[i].ns : i \in {j \in DOMAIN src.uses :
                                                   src.uses[j].k = "wildcard"}}
  <2>1. /\ useMap' = UseMapOf(AllNames, src.uses) /\ phase' = "resolve" /\ source' = source + 1
        /\ nss' = nss \cup {n.ns : n \in singles} \cup wilds
        /\ tns' = tns \cup singles /\ counter' = 0 /\ current' = None
        /\ work' = TopItems(source + 1, src.decls) /\ table' = table
        /\ source + 1 \in 1 .. Len(program)
    BY <1>1, <1>6 DEF ResolveSource, NextSource, Enter
  <2>2. src \in Sources
    BY <1>1, <2>1
  <2> HIDE DEF src
  <2>3. src.uses \in Seq(Clauses) /\ src.decls \in Seq(Nodes)
    BY <2>2 DEF Sources
  <2>4. singles \subseteq TypeNames /\ wilds \subseteq Namespaces
    <3>1. \A i \in DOMAIN src.uses : src.uses[i] \in Clauses
      BY <2>3
    <3>2. \A c \in Clauses : /\ c.k = "single" => c.name \in TypeNames
                             /\ c.k = "wildcard" => c.ns \in Namespaces
      BY DEF Clauses
    <3> QED BY <3>1, <3>2
  <2> HIDE DEF singles, wilds
  <2>5. {n.ns : n \in singles} \subseteq Namespaces
    BY <2>4 DEF TypeNames
  <2>6. useMap' \in UseMaps
    <3>1. AllNames \subseteq TypeNames
      BY DEF AllNames, TypeInv, TypeOK
    <3> QED BY <2>1, <2>3, <3>1, UseMapOfIsUseMap
  <2>7. work' \in Seq(Marked((1 .. Len(program)) \X (0 .. counter')))
    <3>1. work' \in Seq(Items)
      BY <2>1, <2>3, TopItemsAreItems
    <3> QED BY <3>1, SeqMonotonic DEF Marked
  <2> QED BY <1>3, <2>1, <2>4, <2>5, <2>6, <2>7 DEF Typed
<1> DEFINE R == (1 .. Len(program)) \X (0 .. counter)
<1>7. CASE Resolving
  <2>1. /\ phase = "resolve" /\ work # <<>> /\ source \in 1 .. Len(program)
        /\ work \in Seq(Marked(R)) /\ Head(work) \in Marked(R) /\ Tail(work) \in Seq(Marked(R))
    <3>1. work # <<>> /\ phase = "resolve" /\ source # 0
      BY <1>3, <1>7 DEF Resolving
    <3>2. work \in Seq(Marked(R))
      BY <1>3, <3>1
    <3> HIDE DEF R
    <3>3. Head(work) \in Marked(R) /\ Tail(work) \in Seq(Marked(R))
      BY <3>1, <3>2
    <3> QED BY <1>1, <3>1, <3>2, <3>3
  <2> HIDE DEF R
  <2>2. CASE SkipDecl
    <3>1. Head(work) \in Items
      BY <2>1, <2>2, MarksAreMarks DEF SkipDecl
    <3>2. Counted(Head(work)) \in Marked(R)
      <4>1. Counted(Head(work)) \in [count : Items]
        BY <3>1 DEF Counted
      <4> QED BY <4>1 DEF Marked
    <3>3. work' \in Seq(Marked(R))
      <4> DEFINE c == Counted(Head(work))
      <4>1. work' = <<c>> \o Tail(work)
        BY <2>2 DEF SkipDecl
      <4> HIDE DEF c
      <4>2. <<c>> \in Seq(Marked(R))
        BY <3>2 DEF c
      <4> QED BY <2>1, <4>1, <4>2
    <3> QED BY <1>1, <1>3, <2>1, <2>2, <3>3 DEF Typed, SkipDecl, envVars, driverVars, R
  <2>3. CASE ConsumeDeclRef
    <3> DEFINE item  == Head(work).count
               marks == CountedBelow(item)
    <3>1. work' = marks \o Tail(work) /\ counter' = counter + 1
          /\ UNCHANGED <<phase, source, nss, tns, useMap, current, table>>
      BY <2>3 DEF ConsumeDeclRef, envVars
    <3>2. item \in Items
      BY <2>1, <2>3, MarksAreMarks DEF ConsumeDeclRef
    <3>3. marks \in Seq([count : Items])
      BY <3>2, CountedBelowIsSeq
    <3> HIDE DEF marks
    <3>4. marks \in Seq(Marked(R))
      <4>1. [count : Items] \subseteq Marked(R)
        BY DEF Marked
      <4> QED BY <3>3, <4>1, SeqMonotonic
    <3>5. work' \in Seq(Marked(R))
      BY <2>1, <3>1, <3>4
    <3>6. work' \in Seq(Marked((1 .. Len(program)) \X (0 .. counter')))
      <4>1. counter + 1 \in Nat /\ counter <= counter + 1
        BY <1>1
      <4>2. work' \in Seq(Marked((1 .. Len(program)) \X (0 .. counter + 1)))
        BY <1>1, <3>5, <4>1, MarkedGrows DEF R
      <4> QED BY <3>1, <4>2
    <3> QED BY <1>1, <1>3, <2>1, <3>1, <3>6 DEF Typed
  <2>4. CASE WalkDeclaration
    <3> DEFINE item == Head(work)
    <3>1. item \in Items
      BY <2>1, <2>4, MarksAreMarks DEF WalkDeclaration
    <3>2. /\ work' = Children(item, DriverOrder) \o <<Leave(current)>> \o Tail(work)
          /\ counter' = counter + 1 /\ current' = DeclRef(counter)
          /\ phase' \in {phase, "panicked"}
          /\ UNCHANGED <<source, nss, tns, useMap, table>>
      BY <2>4 DEF WalkDeclaration, Expect, envVars
    <3>3. Children(item, DriverOrder) \in Seq(Items)
      BY <3>1, ChildrenAreItems, DriverOrderIsInsertOrder, InsertOrderIsOrder
    <3> HIDE DEF item
    <3>4. Children(item, DriverOrder) \in Seq(Marked(R))
      BY <3>3, SeqMonotonic DEF Marked
    <3>5. Leave(current) \in Marked(R)
      BY <1>3 DEF Leave, Marked, R
    <3>6. work' \in Seq(Marked(R))
      BY <2>1, <3>2, <3>4, <3>5
    <3>7. work' \in Seq(Marked((1 .. Len(program)) \X (0 .. counter')))
      <4>1. counter + 1 \in Nat /\ counter <= counter + 1
        BY <1>1
      <4>2. work' \in Seq(Marked((1 .. Len(program)) \X (0 .. counter + 1)))
        BY <1>1, <3>6, <4>1, MarkedGrows DEF R
      <4> QED BY <3>2, <4>2
    <3>8. current' \in (1 .. Len(program)) \X (0 .. counter')
      BY <1>1, <2>1, <3>2 DEF DeclRef
    <3> QED BY <1>1, <1>3, <2>1, <3>2, <3>7, <3>8 DEF Typed
  <2>5. CASE LeaveDeclaration
    <3>1. Head(work) \in [leave : R \cup {None}]
      BY <2>1, <2>5, MarksAreMarks DEF LeaveDeclaration
    <3>2. current' \in R \cup {None}
      BY <2>5, <3>1 DEF LeaveDeclaration
    <3>3. work' = Tail(work) /\ UNCHANGED <<phase, source, nss, tns, useMap, counter, table>>
      BY <2>5 DEF LeaveDeclaration, envVars
    <3> QED BY <1>1, <1>3, <2>1, <3>2, <3>3 DEF Typed, R
  <2>6. CASE WalkName
    <3> DEFINE item == Head(work) mapped == Mapped(useMap, item.node.name)
    <3>1. item \in Items
      BY <2>1, <2>6, MarksAreMarks DEF WalkName
    <3>2. item.node.name \in TypeNames
      <4>1. item.node \in Nodes /\ item.node.k \in NameKinds
        BY <2>6, <3>1 DEF WalkName, Items
      <4> HIDE DEF item
      <4> QED BY <4>1, NodesAssumption DEF IsNode, NameKinds, DeclKinds
    <3>3. mapped \in TypeNames
      BY <1>3, <3>2, MappedIsName
    <3>4. PICK entry : Record(current, entry)
      BY <2>6 DEF WalkName, RecordName
    <3>5. /\ work' = Children(Head(work), DriverOrder) \o Tail(work)
          /\ nss' = nss \cup {mapped.ns} /\ tns' = tns \cup {mapped}
          /\ phase' \in {phase, "panicked"}
          /\ UNCHANGED <<source, useMap, counter, current>>
      BY <2>6 DEF WalkName, RecordName, Expect, Descend
    <3>6. mapped.ns \in Namespaces
      BY <3>3 DEF TypeNames
    <3> HIDE DEF mapped
    <3>7. work' \in Seq(Marked(R))
      <4>1. Items \subseteq Marked(R)
        BY DEF Marked
      <4> QED BY <2>1, <3>1, <3>5, <4>1, DescendIsSeq, DriverOrderIsInsertOrder, InsertOrderIsOrder
    <3>8. IsTable(table')
      BY <1>3, <3>4, RecordIsTable
    <3> QED BY <1>1, <1>3, <2>1, <3>3, <3>5, <3>6, <3>7, <3>8 DEF Typed, R
  <2>7. CASE WalkNode
    <3>1. Head(work) \in Items
      BY <2>1, <2>7, MarksAreMarks DEF WalkNode
    <3>2. /\ work' = Children(Head(work), DriverOrder) \o Tail(work)
          /\ UNCHANGED <<phase, source, nss, tns, useMap, counter, current, table>>
      BY <2>7 DEF WalkNode, Descend, envVars, driverVars
    <3>3. work' \in Seq(Marked(R))
      <4>1. Items \subseteq Marked(R)
        BY DEF Marked
      <4> QED BY <2>1, <3>1, <3>2, <4>1, DescendIsSeq, DriverOrderIsInsertOrder, InsertOrderIsOrder
    <3> QED BY <1>1, <1>3, <2>1, <3>2, <3>3 DEF Typed, R
  <2>8. CASE ResolveEnd
    BY <2>1, <2>8 DEF ResolveEnd
  <2>9. CASE SkipSource \/ ResolveSource \/ \E f \in Filters : StartResolve(f)
    BY <1>4, <1>5, <1>6, <2>9
  <2> QED BY <2>2, <2>3, <2>4, <2>5, <2>6, <2>7, <2>8, <2>9 DEF DriverNext
<1>8. CASE ResolveEnd
  BY <1>1, <1>3, <1>8 DEF Typed, ResolveEnd, envVars, driverVars
<1> QED BY <1>4, <1>5, <1>6, <1>7, <1>8
           DEF DriverNext, SkipDecl, ConsumeDeclRef, WalkDeclaration, LeaveDeclaration, WalkName,
               WalkNode


(* What is saved can be restored. *)
LEMMA MaterializerTypes ==
  ASSUME TypeInv, MaterializerNext, UNCHANGED driverVars
  PROVE  TypeInv'
<1> USE DEF driverVars
<1>1. /\ program \in Programs /\ program \in Seq(Sources)
      /\ source \in 0 .. Len(program) /\ Len(program) \in Nat
      /\ UNCHANGED <<envVars, table, counter, current, useMap>>
      /\ IsTable(table) /\ index \in Nat /\ cursor \in Nat
      /\ slice # None => slice \in DOMAIN table /\ cursor \in 0 .. Len(table[slice])
  <2>1. UNCHANGED <<envVars, table, counter, current, useMap>>
    BY DEF MaterializerNext, StartMaterialize, MaterializeSource, MaterializeDecl, FinishDecl,
           MaterializeName, MaterializeNode, MaterializeEnd
  <2> QED BY <2>1, ProgramsAssumption DEF TypeInv, TypeOK, StateOK
<1> DEFINE Typed == /\ phase' \in {"materialize", "done", "panicked"}
                    /\ source' \in 0 .. Len(program)
                    /\ index' \in Nat /\ cursor' \in Nat
                    /\ slice' # None => slice' \in DOMAIN table /\ cursor' \in 0 .. Len(table[slice'])
                    /\ phase' = "materialize" => work' \in Seq(Marks(table))
<1>2. SUFFICES Typed
  <2>1. TypeOK'
    BY <1>1, <1>2 DEF TypeInv, TypeOK, Phases, envVars
  <2>2. WorkOK'
    BY <1>1, <1>2 DEF WorkOK
  <2>3. StateOK'
    BY <1>1, <1>2 DEF TypeInv, StateOK, envVars
  <2> QED BY <2>1, <2>2, <2>3 DEF TypeInv
<1>3. CASE StartMaterialize
  <2>1. <<>> \in Seq(Marks(table))
    OBVIOUS
  <2> QED BY <1>1, <1>3, <2>1 DEF StartMaterialize
<1>4. CASE MaterializeSource
  <2>1. /\ source + 1 \in 1 .. Len(program) /\ phase' = "materialize" /\ source' = source + 1
        /\ work' = TopItems(source + 1, program[source + 1].decls)
        /\ index' = 0 /\ UNCHANGED <<slice, cursor>>
    BY <1>1, <1>4 DEF MaterializeSource, Enter
  <2>2. program[source + 1].decls \in Seq(Nodes) /\ source + 1 \in Nat
    <3>1. program[source + 1] \in Sources
      BY <1>1, <2>1
    <3> QED BY <2>1, <3>1 DEF Sources
  <2>3. work' \in Seq(Items)
    BY <2>1, <2>2, TopItemsAreItems
  <2>4. work' \in Seq(Marks(table))
    BY <2>3, SeqMonotonic DEF Marks
  <2> QED BY <1>1, <2>1, <2>4
<1>5. CASE MaterializeEnd
  BY <1>1, <1>5 DEF MaterializeEnd, materializerVars
<1>6. CASE Building /\ (MaterializeDecl \/ FinishDecl \/ MaterializeName \/ MaterializeNode)
  <2>1. /\ phase = "materialize" /\ work # <<>> /\ work \in Seq(Marks(table))
    BY <1>6 DEF Building, TypeInv, WorkOK
  <2>2. Head(work) \in Marks(table) /\ Tail(work) \in Seq(Marks(table))
    BY <2>1
  <2>3. Items \subseteq Marks(table)
    BY DEF Marks
  <2>4. CASE MaterializeDecl
    <3> DEFINE item == Head(work)
               save == Leave([slice |-> slice, cursor |-> cursor])
    <3>1. item \in Items
      BY <2>2, <2>4, SavesAreMarks DEF MaterializeDecl
    <3>2. /\ work' = Children(item, MaterializerOrder) \o <<save>> \o Tail(work)
          /\ slice' \in DOMAIN table \cup {None} /\ cursor' = 0
          /\ phase' \in {phase, "panicked"} /\ index' = index + 1 /\ UNCHANGED source
      BY <2>4 DEF MaterializeDecl, Expect, EnterDecl
    <3>3. save \in Marks(table)
      <4>1. slice \in DOMAIN table \cup {None} /\ (slice # None => cursor <= Len(table[slice]))
        BY <1>1
      <4>2. [slice |-> slice, cursor |-> cursor] \in Saved(table)
        BY <1>1, <4>1 DEF Saved
      <4> QED BY <4>2 DEF Leave, Marks
    <3>4. Children(item, MaterializerOrder) \in Seq(Items)
      BY <3>1, ChildrenAreItems, MaterializerOrderIsOrder
    <3> HIDE DEF item, save
    <3>5. Children(item, MaterializerOrder) \in Seq(Marks(table))
      BY <2>3, <3>4, SeqMonotonic
    <3>6. work' \in Seq(Marks(table))
      BY <2>2, <3>2, <3>3, <3>5
    <3>7. slice' # None => 0 \in 0 .. Len(table[slice'])
      <4>1. slice' # None => \E S : table[slice'] \in Seq(S)
        BY <1>1, <3>2 DEF IsTable
      <4> QED BY <4>1
    <3> QED BY <1>1, <2>1, <3>2, <3>6, <3>7
  <2>5. CASE FinishDecl
    <3>1. Head(work) \in [leave : Saved(table)]
      BY <2>2, <2>5, SavesAreMarks DEF FinishDecl
    <3> DEFINE s == Head(work).leave
    <3>2. s \in Saved(table)
      BY <3>1
    <3>3. work' = Tail(work) /\ slice' = s.slice /\ cursor' = s.cursor
          /\ UNCHANGED <<phase, source, index>>
      BY <2>5 DEF FinishDecl
    <3> HIDE DEF s
    <3>4. cursor' \in Nat /\ (slice' # None => slice' \in DOMAIN table /\ cursor' <= Len(table[slice']))
      BY <3>2, <3>3 DEF Saved
    <3>5. slice' # None => \E S : table[slice'] \in Seq(S)
      BY <1>1, <3>4 DEF IsTable
    <3> QED BY <1>1, <2>1, <2>2, <3>3, <3>4, <3>5
  <2>6. CASE MaterializeName
    <3>1. Head(work) \in Items
      BY <2>2, <2>6, SavesAreMarks DEF MaterializeName
    <3>2. /\ work' = Children(Head(work), MaterializerOrder) \o Tail(work)
          /\ phase' \in {phase, "panicked"} /\ UNCHANGED <<source, index, slice>>
          /\ cursor' = IF Pull(Head(work)) = NoEntry THEN cursor ELSE cursor + 1
      BY <2>6 DEF MaterializeName, Expect, Descend
    <3>3. work' \in Seq(Marks(table))
      BY <2>1, <2>3, <3>1, <3>2, DescendIsSeq, MaterializerOrderIsOrder
    <3>4. slice # None => \E S : table[slice] \in Seq(S)
      BY <1>1 DEF IsTable
    <3>5. cursor' = cursor \/ (cursor' = cursor + 1 /\ slice # None /\ cursor < Len(table[slice]))
      BY <3>2 DEF Pull
    <3> QED BY <1>1, <2>1, <3>2, <3>3, <3>4, <3>5
  <2>7. CASE MaterializeNode
    <3>1. Head(work) \in Items
      BY <2>2, <2>7, SavesAreMarks DEF MaterializeNode
    <3>2. /\ work' = Children(Head(work), MaterializerOrder) \o Tail(work)
          /\ UNCHANGED <<phase, source, index, slice, cursor>>
      BY <2>7 DEF MaterializeNode, Descend, materializerVars
    <3>3. work' \in Seq(Marks(table))
      BY <2>1, <2>3, <3>1, <3>2, DescendIsSeq, MaterializerOrderIsOrder
    <3> QED BY <1>1, <2>1, <3>2, <3>3
  <2> QED BY <1>6, <2>4, <2>5, <2>6, <2>7
<1> QED BY <1>3, <1>4, <1>5, <1>6
           DEF MaterializerNext, MaterializeDecl, FinishDecl, MaterializeName, MaterializeNode

(* The first state. *)
LEMMA InitTypes == Init => TypeInv
<1> SUFFICES ASSUME Init PROVE TypeInv
  OBVIOUS
<1> USE DEF Init, InsertInit, DriverInit, MaterializerInit
<1>1. program \in Programs /\ program \in Seq(Sources)
  BY ProgramsAssumption
<1>2. TypeOK
  <2>1. nss \subseteq Namespaces
    BY DEF EmptyRelative, RootAbsolute, Ns, Namespaces
  <2> QED BY <1>1, <2>1 DEF TypeOK, Phases
<1>3. useMap \in UseMaps
  <2>1. useMap \in [{} -> TypeNames]
    BY DEF NoUses
  <2> QED BY <2>1 DEF UseMaps
<1> QED BY <1>1, <1>2, <1>3 DEF TypeInv, WorkOK, StateOK, IsTable

(* Every step of the three walks keeps it. *)
LEMMA NextTypes == TypeInv /\ [Next]_vars => TypeInv'
<1> SUFFICES ASSUME TypeInv, [Next]_vars PROVE TypeInv'
  OBVIOUS
<1>1. CASE Next
  BY <1>1, InsertTypes, DriverTypes, MaterializerTypes DEF Next
<1>2. CASE UNCHANGED vars
  <2> USE <1>2 DEF vars, insertVars, walkVars, envVars, driverVars, materializerVars
  <2>1. TypeOK'
    BY DEF TypeInv, TypeOK
  <2>2. WorkOK'
    BY DEF TypeInv, WorkOK, Refs
  <2>3. StateOK'
    BY DEF TypeInv, StateOK
  <2> QED BY <2>1, <2>2, <2>3 DEF TypeInv
<1> QED BY <1>1, <1>2

(* The environment only registers names that are interned, the cursor of the
   materializer stays in its slice, and the declaration names are recorded
   for is one that was counted. *)
THEOREM TypeCorrect == Spec => []TypeOK
<1>1. TypeInv => TypeOK
  BY DEF TypeInv
<1> QED BY <1>1, InitTypes, NextTypes, PTL DEF Spec


-----------------------------------------------------------------------------
(* Everything the later walks look up is interned.  Insert has done with a *)
(* set of items: their names are interned and what is below them is done   *)
(* or on the stack.  When insert ends the stack is empty, so the set is    *)
(* closed and holds all that occurs, and a walk that starts at the top     *)
(* never leaves it.                                                        *)

Done(D, rest) ==
  \A item \in D : Found(item) /\ Range(Children(item, InsertOrder)) \subseteq D \cup rest

HasTops(D, n) ==
  \A s \in 1 .. n : Range(TopItems(s, program[s].decls)) \subseteq D

Inserted(D) ==
  /\ D \subseteq Occurrences /\ Range(work) \subseteq Occurrences
  /\ Done(D, Range(work)) /\ HasTops(D \cup Range(work), source)

Walkable(D, stack) == \A w \in Range(stack) : IsWalked(w) => w \in D

NoneWalked(stack) == \A w \in Range(stack) : ~IsWalked(w)

InternInv ==
  /\ phase # "panicked"
  /\ phase = "insert" => \E D \in SUBSET Items : Inserted(D)
  /\ phase \in {"loaded", "resolve", "resolved", "materialize"} =>
       (\A x \in Occurrences : Found(x)) /\ Walkable(Occurrences, work)

(* Insert, seen from the later walks. *)
LEMMA OccurrencesAreDone ==
  ASSUME program \in Programs, \A x \in Occurrences : Found(x)
  PROVE  /\ Occurrences \in SUBSET Items
         /\ Done(Occurrences, {}) /\ HasTops(Occurrences, Len(program))
<1>1. Tops \subseteq Occurrences /\ Occurrences \subseteq Items /\ Closed(Occurrences)
  BY OccurrencesAre
<1>2. Done(Occurrences, {})
  BY <1>1 DEF Done, Closed
<1>3. HasTops(Occurrences, Len(program))
  <2>1. DOMAIN program = 1 .. Len(program)
    BY ProgramsAssumption
  <2> QED BY <1>1, <2>1 DEF HasTops, Tops
<1> QED BY <1>1, <1>2, <1>3

(* A materializer that meets no arguments of singleton(...) descends like
   the other walks. *)
LEMMA SameChildren ==
  ASSUME NoSingletonArgs, NEW item \in Items
  PROVE  Children(item, MaterializerOrder) = Children(item, InsertOrder)
<1>1. item.node \in Nodes /\ item.node.k \in DOMAIN Fields
  BY NodesAssumption DEF Items, IsNode
<1>2. CASE item.node.k # "singleton"
  BY <1>1, <1>2, MaterializerOrderIs DEF Children
<1>3. CASE item.node.k = "singleton"
  <2>1. item.node.args = <<>>
    BY <1>1, <1>3 DEF NoSingletonArgs
  <2>2. MaterializerOrder["singleton"] = <<"args">>
    BY DEF MaterializerOrder, OrElse, BuildDeclOrder, BuildMemberOrder, BuildMethodTypeOrder,
           BuildTypeOrder
  <2>3. InsertOrder["singleton"] = <<>>
    BY DEF InsertOrder, OrElse, InsertDeclOrder, InsertMemberOrder, InsertMethodTypeOrder,
           InsertTypeOrder
  <2>4. Under(item, "args") = <<>>
    BY <2>1 DEF Under
  <2> DEFINE some == <<"args">>
             ss == [i \in DOMAIN some |-> Under(item, some[i])]
             none == <<>>
             ts == [i \in DOMAIN none |-> Under(item, none[i])]
  <2>5. ss \in Seq(Seq({})) /\ ts \in Seq(Seq({}))
    <3>1. DOMAIN ss = 1 .. 1 /\ ss[1] = <<>>
      BY <2>4
    <3>2. ss = [i \in 1 .. 1 |-> <<>>]
      <4>1. some[1] = "args" /\ DOMAIN some = 1 .. 1
        OBVIOUS
      <4> HIDE DEF some
      <4> QED BY <2>4, <4>1
    <3>3. ts = <<>>
      OBVIOUS
    <3> HIDE DEF ss, ts
    <3> QED BY <3>2, <3>3
  <2> HIDE DEF ss, ts
  <2>6. FlattenSeq(ss) \in Seq({}) /\ FlattenSeq(ts) \in Seq({})
    BY <2>5, FlattenIsSeq
  <2>7. FlattenSeq(ss) = <<>> /\ FlattenSeq(ts) = <<>>
    BY <2>6
  <2>8. Children(item, MaterializerOrder) = FlattenSeq(ss)
    BY <1>3, <2>2 DEF Children, Under, ss
  <2>9. Children(item, InsertOrder) = FlattenSeq(ts)
    BY <1>3, <2>3 DEF Children, Under, ts
  <2> QED BY <2>7, <2>8, <2>9
<1> QED BY <1>2, <1>3

(* More names do no harm. *)
LEMMA DoneGrows ==
  ASSUME NEW D, NEW rest, Done(D, rest), nss \subseteq nss', tns \subseteq tns'
  PROVE  Done(D, rest)'
BY DEF Done, Found

(* The rest of a stack. *)
LEMMA RangeOfRest ==
  ASSUME NEW T, NEW w \in Seq(T), w # <<>>
  PROVE  Range(w) = {Head(w)} \cup Range(Tail(w))
<1> SUFFICES ASSUME NEW n \in Nat \ {0}, n = Len(w)
             PROVE  Range(w) = {Head(w)} \cup Range(Tail(w))
  OBVIOUS
<1>1. DOMAIN w = 1 .. n /\ DOMAIN Tail(w) = 1 .. n - 1 /\ Head(w) = w[1]
      /\ \A i \in 1 .. n - 1 : Tail(w)[i] = w[i + 1]
  OBVIOUS
<1>2. \A i \in 1 .. n : i = 1 \/ (i - 1 \in 1 .. n - 1 /\ w[i] = Tail(w)[i - 1])
  BY <1>1
<1>3. \A i \in 1 .. n - 1 : i + 1 \in 1 .. n /\ Tail(w)[i] = w[i + 1]
  BY <1>1
<1>4. 1 \in 1 .. n
  OBVIOUS
<1> DEFINE t == Tail(w)
           v == Head(w)
<1>5. Range(w) = {w[i] : i \in 1 .. n} /\ Range(t) = {t[i] : i \in 1 .. n - 1}
  BY <1>1 DEF Range
<1>6. \A i \in 1 .. n : w[i] \in {v} \cup {t[j] : j \in 1 .. n - 1}
  <2> SUFFICES ASSUME NEW i \in 1 .. n, i # 1 PROVE w[i] \in {t[j] : j \in 1 .. n - 1}
    BY <1>1
  <2>1. i - 1 \in 1 .. n - 1 /\ w[i] = t[i - 1]
    BY <1>2
  <2> HIDE DEF t
  <2> QED BY <2>1
<1>7. \A i \in 1 .. n - 1 : t[i] \in {w[j] : j \in 1 .. n}
  BY <1>3
<1>8. v = w[1]
  BY <1>1
<1> HIDE DEF t, v
<1>9. {w[i] : i \in 1 .. n} = {v} \cup {t[i] : i \in 1 .. n - 1}
  BY <1>4, <1>6, <1>7, <1>8
<1> QED BY <1>5, <1>9 DEF t, v

(* Three stacks, one on the other. *)
LEMMA RangeOfThree ==
  ASSUME NEW T, NEW a \in Seq(T), NEW b \in Seq(T), NEW c \in Seq(T)
  PROVE  Range(a \o b \o c) = Range(a) \cup Range(b) \cup Range(c)
<1> DEFINE d == a \o b
<1>1. d \in Seq(T) /\ d = a \o b
  OBVIOUS
<1> HIDE DEF d
<1>2. Range(d \o c) = Range(d) \cup Range(c)
  BY <1>1, RangeConcatenation, ZenonT(40)
<1>3. Range(d) = Range(a) \cup Range(b)
  BY <1>1, RangeConcatenation, ZenonT(40)
<1> QED BY <1>1, <1>2, <1>3

(* What is on the stack after a step down. *)
LEMMA RangeBelow ==
  ASSUME NEW T, NEW w \in Seq(T), w # <<>>, NEW c \in Seq(T)
  PROVE  /\ Range(w) \subseteq Range(c \o Tail(w)) \cup {Head(w)}
         /\ Range(c) \subseteq Range(c \o Tail(w))
         /\ Range(c \o Tail(w)) \subseteq Range(c) \cup Range(w)
<1>1. Tail(w) \in Seq(T)
  OBVIOUS
<1>2. Range(c \o Tail(w)) = Range(c) \cup Range(Tail(w))
  BY <1>1, RangeConcatenation, ZenonT(40)
<1>3. Range(w) = {Head(w)} \cup Range(Tail(w))
  BY RangeOfRest
<1> QED BY <1>2, <1>3

(* Insert does the next item. *)
LEMMA InsertDoes ==
  ASSUME TypeInv, phase = "insert", work # <<>>, NEW D, Inserted(D),
         NEW item, item = Head(work),
         nss \cup NamespacesOf(item) \subseteq nss', tns \cup NamesOf(item) \subseteq tns',
         work' = Children(item, InsertOrder) \o Tail(work),
         UNCHANGED <<program, source>>
  PROVE  item \in Occurrences /\ Inserted(D \cup {item})'
<1> DEFINE below == Children(item, InsertOrder)
           E == D \cup {item}
<1>1. work \in Seq(Items) /\ Tail(work) \in Seq(Items) /\ item \in Items
  BY DEF TypeInv, WorkOK
<1>2. Occurrences' = Occurrences
  BY DEF Occurrences, Tops
<1>3. below \in Seq(Items)
  BY <1>1, ChildrenAreItems, InsertOrderIsOrder
<1>4. /\ Range(work) \subseteq {item} \cup Range(work') /\ Range(below) \subseteq Range(work')
      /\ Range(work') \subseteq Range(below) \cup Range(work)
  BY <1>1, <1>3, RangeBelow
<1>5. item \in Occurrences /\ Range(below) \subseteq Occurrences
  <2>1. item \in Range(work)
    BY <1>1, RangeOfRest
  <2>2. item \in Occurrences /\ Closed(Occurrences)
    BY <2>1, OccurrencesAre DEF Inserted, TypeInv, StateOK
  <2> QED BY <2>2 DEF Closed
<1>6. E \subseteq Occurrences' /\ Range(work') \subseteq Occurrences'
  BY <1>2, <1>4, <1>5 DEF Inserted
<1>7. Found(item)'
  BY DEF Found
<1>8. ASSUME NEW d \in E
      PROVE  Found(d)' /\ Range(Children(d, InsertOrder)) \subseteq E \cup Range(work')
  <2>1. CASE d = item
    BY <1>4, <1>7, <2>1
  <2>2. CASE d \in D
    <3>1. Found(d) /\ Range(Children(d, InsertOrder)) \subseteq D \cup Range(work)
      BY <2>2 DEF Inserted, Done
    <3>2. Found(d)'
      BY <3>1 DEF Found
    <3> QED BY <1>4, <3>1, <3>2
  <2> QED BY <2>1, <2>2
<1>9. Done(E, Range(work))'
  BY <1>8 DEF Done
<1>10. HasTops(E \cup Range(work), source)'
  <2>1. D \cup Range(work) \subseteq E \cup Range(work')
    BY <1>4
  <2> QED BY <2>1 DEF Inserted, HasTops
<1> QED BY <1>5, <1>6, <1>9, <1>10 DEF Inserted

(* Insert goes on to the next source. *)
LEMMA InsertEnters ==
  ASSUME TypeInv, NEW D, Inserted(D), InsertSource
  PROVE  Inserted(D)'
<1>1. /\ UNCHANGED <<program, nss, tns>> /\ source' = source + 1 /\ work = <<>>
      /\ work' = TopItems(source + 1, program[source + 1].decls)
      /\ program \in Seq(Sources) /\ source + 1 \in 1 .. Len(program) /\ source \in Nat
  <2>1. program \in Seq(Sources) /\ source \in 0 .. Len(program) /\ Len(program) \in Nat
    BY ProgramsAssumption DEF TypeInv, TypeOK, StateOK
  <2>2. source < Len(program)
    BY DEF InsertSource
  <2> QED BY <2>1, <2>2 DEF InsertSource, Enter, envVars
<1>2. Range(work) = {}
  BY <1>1 DEF Range
<1>3. Occurrences' = Occurrences
  BY <1>1 DEF Occurrences, Tops
<1>4. Range(work') \subseteq Occurrences
  <2>1. DOMAIN program = 1 .. Len(program)
    BY <1>1
  <2>2. Range(work') \subseteq Tops
    BY <1>1, <2>1 DEF Tops
  <2> QED BY <2>2, OccurrencesAre DEF TypeInv, StateOK
<1>5. Done(D, Range(work))'
  BY <1>1, <1>2 DEF Inserted, Done, Found
<1>6. HasTops(D \cup Range(work), source)'
  <2> SUFFICES ASSUME NEW s \in 1 .. source + 1
               PROVE  Range(TopItems(s, program[s].decls)) \subseteq D \cup Range(work')
    BY <1>1 DEF HasTops
  <2>1. CASE s = source + 1
    BY <1>1, <2>1
  <2>2. CASE s # source + 1
    <3>1. s \in 1 .. source
      BY <1>1, <2>2
    <3> QED BY <1>2, <3>1 DEF Inserted, HasTops
  <2> QED BY <2>1, <2>2
<1> QED BY <1>3, <1>4, <1>5, <1>6 DEF Inserted

(* In the end it has done with everything. *)
LEMMA InsertedAll ==
  ASSUME TypeInv, NEW D, Inserted(D), work = <<>>, source = Len(program)
  PROVE  D = Occurrences /\ \A x \in Occurrences : Found(x)
<1>1. Range(work) = {}
  BY DEF Range
<1>2. Done(D, {}) /\ HasTops(D, Len(program)) /\ D \subseteq Occurrences
  BY <1>1 DEF Inserted
<1>3. Closed(D)
  BY <1>2 DEF Done, Closed
<1>4. Tops \subseteq D
  <2>1. DOMAIN program = 1 .. Len(program)
    BY ProgramsAssumption DEF TypeInv, StateOK
  <2> QED BY <1>2, <2>1 DEF Tops, HasTops
<1>5. Occurrences \subseteq D
  BY <1>3, <1>4, OccurrencesAre DEF TypeInv, StateOK
<1> QED BY <1>2, <1>5 DEF Done

(* What one item of insert changes. *)
LEMMA InsertSteps ==
  ASSUME TypeInv, InsertDecl \/ InsertGlobal \/ InsertNode
  PROVE  /\ phase = "insert" /\ work # <<>>
         /\ nss \cup NamespacesOf(Head(work)) \subseteq nss'
         /\ tns \cup NamesOf(Head(work)) \subseteq tns'
         /\ work' = Children(Head(work), InsertOrder) \o Tail(work)
         /\ UNCHANGED <<phase, program, source>>
<1>1. CASE InsertDecl \/ InsertNode
  BY <1>1 DEF InsertDecl, InsertNode, Intern, Descend
<1>2. CASE InsertGlobal
  <2>1. Head(work).node.k = "global" /\ UNCHANGED <<nss, tns>>
    BY <1>2 DEF InsertGlobal
  <2>2. NamesOf(Head(work)) = {} /\ NamespacesOf(Head(work)) = {}
    BY <2>1 DEF NamesOf, NamespacesOf, NameKinds, Scopes
  <2> QED BY <1>2, <2>1, <2>2 DEF InsertGlobal, Descend
<1> QED BY <1>1, <1>2

(* Insert interns whatever it passes. *)
LEMMA InsertInterns ==
  ASSUME TypeInv, InternInv, InsertNext
  PROVE  InternInv'
<1>1. phase = "insert" /\ program \in Programs /\ program' = program /\ Occurrences' = Occurrences
  <2>1. phase = "insert" /\ program' = program
    BY DEF InsertNext, InsertSource, InsertDecl, InsertGlobal, InsertDuplicate, InsertNode,
           InsertEnd, envVars
  <2> QED BY <2>1 DEF TypeInv, StateOK, Occurrences, Tops
<1>2. PICK D \in SUBSET Items : Inserted(D)
  BY <1>1 DEF InternInv
<1>3. CASE InsertSource
  <2>1. Inserted(D)'
    BY <1>2, <1>3, InsertEnters
  <2>2. phase' = "insert"
    BY <1>1, <1>3 DEF InsertSource
  <2> QED BY <2>1, <2>2 DEF InternInv
<1>4. CASE InsertDecl \/ InsertGlobal \/ InsertNode
  <2>1. PICK item : item = Head(work)
    OBVIOUS
  <2>2. Inserted(D \cup {item})' /\ item \in Occurrences /\ phase' = "insert"
    BY <1>1, <1>2, <1>4, <2>1, InsertSteps, InsertDoes
  <2>3. D \cup {item} \in SUBSET Items
    BY <1>1, <2>2, OccurrencesAre
  <2> QED BY <2>2, <2>3 DEF InternInv
<1>5. CASE InsertDuplicate
  BY <1>5 DEF InsertDuplicate, InternInv
<1>6. CASE InsertEnd
  <2>1. /\ UNCHANGED <<nss, tns, work>> /\ phase' = "loaded" /\ work = <<>>
        /\ source = Len(program)
    BY <1>6 DEF InsertEnd, envVars
  <2>2. \A x \in Occurrences' : Found(x)'
    BY <1>1, <1>2, <2>1, InsertedAll DEF Found
  <2>3. Walkable(Occurrences', work')
    BY <2>1 DEF Walkable, Range
  <2> QED BY <2>1, <2>2, <2>3 DEF InternInv
<1> QED BY <1>3, <1>4, <1>5, <1>6 DEF InsertNext


(* A later walk goes from the items insert has done with to others, with
   marks between. *)
LEMMA WalkableStep ==
  ASSUME NEW D \in SUBSET Items, Done(D, {}), NEW T, NEW stack \in Seq(T), stack # <<>>,
         Walkable(D, stack),
         Items \subseteq T, NEW item \in Items, item = Head(stack), IsWalked(item),
         NEW over \in Seq(T), NoneWalked(over),
         NEW next, next = Children(item, InsertOrder) \o over \o Tail(stack)
  PROVE  Walkable(D, next)
<1> DEFINE below == Children(item, InsertOrder)
           t == Tail(stack)
<1>1. t \in Seq(T) /\ Range(stack) = {item} \cup Range(t)
  BY RangeOfRest
<1>2. item \in D
  BY <1>1 DEF Walkable
<1>3. Range(below) \subseteq D
  BY <1>2 DEF Done
<1>4. below \in Seq(T)
  <2>1. below \in Seq(Items)
    BY ChildrenAreItems, InsertOrderIsOrder
  <2> QED BY <2>1, SeqMonotonic
<1> HIDE DEF below, t
<1>5. next = below \o over \o t
  BY DEF below, t
<1>6. Range(below \o over \o t) = Range(below) \cup Range(over) \cup Range(t)
  BY <1>1, <1>4, RangeOfThree
<1>8. Range(next) = Range(below) \cup Range(over) \cup Range(t)
  BY <1>5, <1>6
<1> QED BY <1>1, <1>3, <1>8 DEF Walkable, NoneWalked

(* Without marks between. *)
LEMMA WalkableDescent ==
  ASSUME NEW D \in SUBSET Items, Done(D, {}), NEW T, NEW stack \in Seq(T), stack # <<>>,
         Walkable(D, stack),
         Items \subseteq T, NEW item \in Items, item = Head(stack), IsWalked(item),
         NEW next, next = Children(item, InsertOrder) \o Tail(stack)
  PROVE  Walkable(D, next)
<1> DEFINE over == <<>>
<1>1. Children(item, InsertOrder) \in Seq(Items)
  BY ChildrenAreItems, InsertOrderIsOrder
<1>2. Children(item, InsertOrder) \o over = Children(item, InsertOrder)
  BY <1>1
<1>3. over \in Seq(T) /\ NoneWalked(over)
  BY DEF Range, NoneWalked
<1> HIDE DEF over
<1>4. next = Children(item, InsertOrder) \o over \o Tail(stack)
  BY <1>2
<1> QED BY <1>3, <1>4, WalkableStep

(* Marks in place of the first item. *)
LEMMA WalkableMarks ==
  ASSUME NEW D, NEW T, NEW stack \in Seq(T), stack # <<>>,
         Walkable(D, stack),
         NEW over \in Seq(T), NoneWalked(over),
         NEW next, next = over \o Tail(stack)
  PROVE  Walkable(D, next)
<1>1. Tail(stack) \in Seq(T) /\ Range(stack) = {Head(stack)} \cup Range(Tail(stack))
  BY RangeOfRest
<1> DEFINE t == Tail(stack)
<1>2. t \in Seq(T) /\ next = over \o t
  BY <1>1
<1> HIDE DEF t
<1>3. Range(next) = Range(over) \cup Range(t)
  <2>1. Range(over \o t) = Range(over) \cup Range(t)
    BY <1>2, RangeConcatenation, SMTT(30)
  <2> QED BY <1>2, <2>1
<1> QED BY <1>1, <1>3 DEF Walkable, NoneWalked, t

(* The first item taken off. *)
LEMMA WalkableRest ==
  ASSUME NEW D, NEW T, NEW stack \in Seq(T), stack # <<>>,
         Walkable(D, stack), NEW next, next = Tail(stack)
  PROVE  Walkable(D, next)
<1>1. Range(stack) = {Head(stack)} \cup Range(Tail(stack))
  BY RangeOfRest
<1> QED BY <1>1 DEF Walkable

(* Marks are not walked. *)
LEMMA MarksAreNotWalked ==
  /\ \A x : ~IsWalked(Leave(x))
  /\ \A x : ~IsWalked(Counted(x))
<1>1. \A x : DOMAIN Leave(x) = {"leave"} /\ DOMAIN Counted(x) = {"count"}
  BY DEF Leave, Counted
<1> QED BY <1>1 DEF IsWalked

(* The lookups of the driver succeed. *)
LEMMA DriverFinds ==
  ASSUME TypeInv, InternInv, DriverNext, UNCHANGED materializerVars
  PROVE  InternInv'
<1>1. /\ phase \in {"loaded", "resolve"} /\ program \in Seq(Sources) /\ program' = program
      /\ nss \subseteq nss' /\ tns \subseteq tns'
      /\ phase = "resolve" => work \in Seq(Marked(Refs))
      /\ Items \subseteq Marked(Refs)
  <2>1. /\ phase \in {"loaded", "resolve"} /\ program' = program
        /\ nss \subseteq nss' /\ tns \subseteq tns'
    BY DEF DriverNext, StartResolve, SkipSource, ResolveSource, SkipDecl, ConsumeDeclRef,
           WalkDeclaration, LeaveDeclaration, WalkName, WalkNode, RecordName, ResolveEnd, NextSource,
           Resolving, envVars
  <2> QED BY <2>1, ProgramsAssumption DEF TypeInv, WorkOK, StateOK, Marked
<1>2. PICK D \in SUBSET Items :
        D = Occurrences /\ Done(D, {}) /\ HasTops(D, Len(program)) /\ Walkable(D, work)
  BY <1>1, OccurrencesAreDone DEF InternInv, TypeInv, StateOK
<1>3. D = Occurrences' /\ \A x \in D : Found(x)'
  <2>1. Occurrences' = Occurrences
    BY <1>1 DEF Occurrences, Tops
  <2>2. Done(D, {})'
    BY <1>1, <1>2, DoneGrows
  <2> QED BY <1>2, <2>1, <2>2 DEF Done
<1>4. SUFFICES phase' \in {"resolve", "resolved"} /\ Walkable(D, work')
  BY <1>3 DEF InternInv
<1>5. CASE \E f \in Filters : StartResolve(f)
  BY <1>5 DEF StartResolve, Walkable, Range
<1>6. CASE SkipSource
  BY <1>2, <1>6 DEF SkipSource, NextSource, Walkable
<1>7. CASE ResolveSource
  <2>1. /\ source + 1 \in 1 .. Len(program) /\ phase' = "resolve"
        /\ work' = TopItems(source + 1, program[source + 1].decls)
    <3>1. source < Len(program) /\ source \in 0 .. Len(program) /\ Len(program) \in Nat
      BY <1>1, <1>7 DEF ResolveSource, NextSource, TypeInv, TypeOK
    <3> QED BY <1>7, <3>1 DEF ResolveSource, NextSource, Enter
  <2>2. Range(work') \subseteq D
    BY <1>2, <2>1 DEF HasTops
  <2> QED BY <2>1, <2>2 DEF Walkable
<1>8. CASE ResolveEnd
  BY <1>2, <1>8 DEF ResolveEnd, Walkable
<1>9. CASE Resolving /\ (SkipDecl \/ ConsumeDeclRef \/ WalkDeclaration \/ LeaveDeclaration
                            \/ WalkName \/ WalkNode)
  <2> DEFINE R == Marked(Refs)
  <2>1. phase = "resolve" /\ work # <<>> /\ work \in Seq(R) /\ Items \subseteq R
    BY <1>1, <1>9 DEF Resolving
  <2>2. Head(work) \in R /\ Tail(work) \in Seq(R) /\ Head(work) \in Range(work)
    <3>1. Head(work) \in R /\ Tail(work) \in Seq(R)
      BY <2>1
    <3>2. Head(work) \in Range(work)
      BY <2>1, RangeOfRest
    <3> QED BY <3>1, <3>2
  <2>3. IsWalked(Head(work)) => Head(work) \in D /\ Head(work) \in Items /\ Found(Head(work))
    BY <1>2, <2>2 DEF Walkable, Done
  <2>4. CASE SkipDecl
    <3> DEFINE c == Counted(Head(work))
               over == <<c>>
    <3>1. phase' = phase /\ work' = over \o Tail(work)
      BY <2>4 DEF SkipDecl
    <3>2. c \in R
      <4>1. c \in [count : Items]
        BY <2>3, <2>4 DEF SkipDecl, Counted
      <4> QED BY <4>1 DEF Marked
    <3>3. ~IsWalked(c)
      BY MarksAreNotWalked
    <3> HIDE DEF R, c
    <3>4. over \in Seq(R) /\ NoneWalked(over)
      BY <3>2, <3>3 DEF NoneWalked, Range
    <3> HIDE DEF over
    <3> QED BY <1>2, <2>1, <3>1, <3>3, <3>4, WalkableMarks
  <2>5. CASE ConsumeDeclRef
    <3> DEFINE over == CountedBelow(Head(work).count)
    <3>1. phase' = phase /\ work' = over \o Tail(work)
      BY <2>5 DEF ConsumeDeclRef
    <3>2. Head(work).count \in Items
      BY <2>2, <2>5, MarksAreMarks DEF ConsumeDeclRef
    <3>3. over \in Seq([count : Items])
      BY <3>2, CountedBelowIsSeq
    <3> HIDE DEF over
    <3>4. over \in Seq(R)
      <4>1. [count : Items] \subseteq R
        BY DEF Marked
      <4> HIDE DEF R
      <4> QED BY <3>3, <4>1, SeqMonotonic
    <3>5. NoneWalked(over)
      <4>1. Range(over) \subseteq [count : Items]
        BY <3>3, RangeOfSeq
      <4> QED BY <4>1 DEF NoneWalked, IsWalked
    <3> HIDE DEF R
    <3> QED BY <1>2, <2>1, <3>1, <3>4, <3>5, WalkableMarks
  <2>6. CASE WalkDeclaration
    <3> DEFINE l == Leave(current)
               over == <<l>>
    <3>1. PICK item \in Items : item = Head(work) /\ IsWalked(item) /\ Found(item)
      BY <2>3, <2>6 DEF WalkDeclaration
    <3>2. phase' = phase /\ work' = Children(item, InsertOrder) \o over \o Tail(work)
      BY <2>6, <3>1, DriverOrderIsInsertOrder DEF WalkDeclaration, Expect
    <3>3. l \in R
      BY DEF TypeInv, TypeOK, Refs, Leave, Marked
    <3>4. ~IsWalked(l)
      BY MarksAreNotWalked
    <3> HIDE DEF R, l
    <3>5. over \in Seq(R) /\ NoneWalked(over)
      BY <3>3, <3>4 DEF NoneWalked, Range
    <3> HIDE DEF over
    <3> QED BY <1>2, <2>1, <3>1, <3>2, <3>4, <3>5, WalkableStep
  <2>7. CASE LeaveDeclaration
    <3>1. phase' = phase /\ work' = Tail(work)
      BY <2>7 DEF LeaveDeclaration
    <3> HIDE DEF R
    <3> QED BY <1>2, <2>1, <3>1, WalkableRest
  <2>8. CASE WalkName \/ WalkNode
    <3>1. PICK item \in Items : item = Head(work) /\ IsWalked(item) /\ Found(item)
      BY <2>3, <2>8 DEF WalkName, WalkNode
    <3>2. phase' = phase /\ work' = Children(item, InsertOrder) \o Tail(work)
      BY <2>8, <3>1, DriverOrderIsInsertOrder DEF WalkName, WalkNode, Expect, Descend
    <3> HIDE DEF R
    <3> QED BY <1>2, <2>1, <3>1, <3>2, WalkableDescent
  <2> QED BY <1>9, <2>4, <2>5, <2>6, <2>7, <2>8
<1> QED BY <1>5, <1>6, <1>7, <1>8, <1>9
           DEF DriverNext, SkipDecl, ConsumeDeclRef, WalkDeclaration, LeaveDeclaration, WalkName,
               WalkNode

(* So do the materializer's. *)
LEMMA MaterializerFinds ==
  ASSUME NoSingletonArgs, TypeInv, InternInv, MaterializerNext, UNCHANGED driverVars
  PROVE  InternInv'
<1>1. /\ phase \in {"loaded", "resolved", "materialize"}
      /\ program \in Seq(Sources) /\ program' = program /\ UNCHANGED <<nss, tns>>
      /\ phase = "materialize" => work \in Seq(Marks(table))
      /\ Items \subseteq Marks(table)
  <2>1. /\ phase \in {"loaded", "resolved", "materialize"} /\ UNCHANGED envVars
    BY DEF MaterializerNext, StartMaterialize, MaterializeSource, MaterializeDecl, FinishDecl,
           MaterializeName, MaterializeNode, MaterializeEnd, Building
  <2> QED BY <2>1, ProgramsAssumption DEF TypeInv, WorkOK, StateOK, Marks, envVars
<1>2. PICK D \in SUBSET Items :
        D = Occurrences /\ Done(D, {}) /\ HasTops(D, Len(program)) /\ Walkable(D, work)
  BY <1>1, OccurrencesAreDone DEF InternInv, TypeInv, StateOK
<1>3. D = Occurrences' /\ \A x \in D : Found(x)'
  <2>1. Occurrences' = Occurrences
    BY <1>1 DEF Occurrences, Tops
  <2>2. Done(D, {})'
    BY <1>1, <1>2, DoneGrows
  <2> QED BY <1>2, <2>1, <2>2 DEF Done
<1>4. SUFFICES phase' \in {"materialize", "done"} /\ Walkable(D, work')
  BY <1>3 DEF InternInv
<1>5. CASE StartMaterialize
  BY <1>5 DEF StartMaterialize, Walkable, Range
<1>6. CASE MaterializeSource
  <2>1. /\ source + 1 \in 1 .. Len(program) /\ phase' = "materialize"
        /\ work' = TopItems(source + 1, program[source + 1].decls)
    <3>1. source < Len(program) /\ source \in 0 .. Len(program) /\ Len(program) \in Nat
      BY <1>1, <1>6 DEF MaterializeSource, TypeInv, TypeOK
    <3> QED BY <1>6, <3>1 DEF MaterializeSource, Enter
  <2>2. Range(work') \subseteq D
    BY <1>2, <2>1 DEF HasTops
  <2> QED BY <2>1, <2>2 DEF Walkable
<1>7. CASE MaterializeEnd
  BY <1>2, <1>7 DEF MaterializeEnd, Walkable
<1>8. CASE Building /\ (MaterializeDecl \/ FinishDecl \/ MaterializeName \/ MaterializeNode)
  <2> DEFINE R == Marks(table)
  <2>1. phase = "materialize" /\ work # <<>> /\ work \in Seq(R) /\ Items \subseteq R
    BY <1>1, <1>8 DEF Building
  <2>2. Head(work) \in Range(work)
    BY <2>1, RangeOfRest
  <2>3. IsWalked(Head(work)) =>
          /\ Head(work) \in D /\ Head(work) \in Items /\ Found(Head(work))
          /\ Children(Head(work), MaterializerOrder) = Children(Head(work), InsertOrder)
    BY <1>2, <2>2, SameChildren DEF Walkable, Done
  <2>4. CASE MaterializeDecl
    <3> DEFINE l == Leave([slice |-> slice, cursor |-> cursor])
               over == <<l>>
    <3>1. PICK item \in Items :
            /\ item = Head(work) /\ IsWalked(item) /\ Found(item)
            /\ Children(item, MaterializerOrder) = Children(item, InsertOrder)
      BY <2>3, <2>4 DEF MaterializeDecl
    <3>2. phase' = phase /\ work' = Children(item, InsertOrder) \o over \o Tail(work)
      BY <2>4, <3>1 DEF MaterializeDecl, Expect
    <3>3. l \in R
      <4>1. [slice |-> slice, cursor |-> cursor] \in Saved(table)
        BY DEF TypeInv, TypeOK, StateOK, Saved
      <4> QED BY <4>1 DEF Leave, Marks
    <3>4. ~IsWalked(l)
      BY MarksAreNotWalked
    <3> HIDE DEF R, l
    <3>5. over \in Seq(R) /\ NoneWalked(over)
      BY <3>3, <3>4 DEF NoneWalked, Range
    <3> HIDE DEF over
    <3> QED BY <1>2, <2>1, <3>1, <3>2, <3>4, <3>5, WalkableStep
  <2>5. CASE FinishDecl
    <3>1. phase' = phase /\ work' = Tail(work)
      BY <2>5 DEF FinishDecl
    <3> HIDE DEF R
    <3> QED BY <1>2, <2>1, <3>1, WalkableRest
  <2>6. CASE MaterializeName \/ MaterializeNode
    <3>1. PICK item \in Items :
            /\ item = Head(work) /\ IsWalked(item) /\ Found(item)
            /\ Children(item, MaterializerOrder) = Children(item, InsertOrder)
      BY <2>3, <2>6 DEF MaterializeName, MaterializeNode
    <3>2. phase' = phase /\ work' = Children(item, InsertOrder) \o Tail(work)
      BY <2>6, <3>1 DEF MaterializeName, MaterializeNode, Expect, Descend
    <3> HIDE DEF R
    <3> QED BY <1>2, <2>1, <3>1, <3>2, WalkableDescent
  <2> QED BY <1>8, <2>4, <2>5, <2>6
<1> QED BY <1>5, <1>6, <1>7, <1>8
           DEF MaterializerNext, MaterializeDecl, FinishDecl, MaterializeName, MaterializeNode

(* Nothing is done at first. *)
LEMMA InitInterns == Init => Inserted({}) /\ InternInv
<1> SUFFICES ASSUME Init PROVE Inserted({}) /\ InternInv
  OBVIOUS
<1>1. phase = "insert" /\ source = 0 /\ work = <<>>
  BY DEF Init, InsertInit
<1>2. Inserted({})
  BY <1>1 DEF Inserted, Done, HasTops, Range
<1> QED BY <1>1, <1>2 DEF InternInv

(* With one exception, every step of the three walks keeps it. *)
LEMMA NextInterns ==
  ASSUME NoSingletonArgs
  PROVE  TypeInv /\ InternInv /\ [Next]_vars => InternInv'
<1> SUFFICES ASSUME TypeInv, InternInv, [Next]_vars PROVE InternInv'
  OBVIOUS
<1>1. CASE Next
  BY <1>1, InsertInterns, DriverFinds, MaterializerFinds DEF Next
<1>2. CASE UNCHANGED vars
  <2>1. UNCHANGED <<phase, program, source, work, nss, tns>>
    BY <1>2 DEF vars, insertVars, walkVars, envVars
  <2>2. Occurrences' = Occurrences
    BY <2>1 DEF Occurrences, Tops
  <2>3. \A D : Inserted(D)' <=> Inserted(D)
    BY <2>1, <2>2 DEF Inserted, Done, HasTops, Found
  <2> QED BY <2>1, <2>2, <2>3 DEF InternInv, Walkable, Found
<1> QED BY <1>1, <1>2

(* No `expect` of the driver or of the materializer fails, as long as no
   type is written singleton(C)[...]: insert walks by the arguments, the
   materializer looks them up. *)
THEOREM AllInterned == NoSingletonArgs => (Spec => []EverythingInterned)
<1> SUFFICES ASSUME NoSingletonArgs PROVE Spec => []EverythingInterned
  OBVIOUS
<1>1. InternInv => EverythingInterned
  BY DEF InternInv, EverythingInterned
<1>2. TypeInv /\ InternInv /\ [Next]_vars => InternInv'
  BY NextInterns
<1> QED BY <1>1, <1>2, InitTypes, NextTypes, InitInterns, PTL DEF Spec

-----------------------------------------------------------------------------
(* Duplicates.  Insert has registered the declarations it has done with;   *)
(* when it refuses another one, that one is not among them.  It is not,    *)
(* because no declaration on the stack lies around another one there or    *)
(* around one that is done.                                                *)

\* a is the position of b, or of something around it.
Leads(a, b) == Len(a) <= Len(b) /\ \A i \in 1 .. Len(a) : b[i] = a[i]

Apart(w) ==
  \A i, j \in DOMAIN w :
    i # j /\ IsDecl(w[i].node) /\ IsDecl(w[j].node) => ~Leads(w[i].at, w[j].at)

Fresh(D, w) ==
  \A i \in DOMAIN w : \A v \in D :
    IsDecl(w[i].node) /\ IsDecl(v.node) => ~Leads(w[i].at, v.at)

(* What is around the same thing is one around the other. *)
LEMMA LeadsAre ==
  ASSUME NEW a \in Paths, NEW b \in Paths, NEW c \in Paths
  PROVE  /\ Leads(a, a)
         /\ Leads(a, b) /\ Leads(b, c) => Leads(a, c)
         /\ Leads(a, c) /\ Leads(b, c) => Leads(a, b) \/ Leads(b, a)
<1>1. Len(a) \in Nat /\ Len(b) \in Nat /\ Len(c) \in Nat
  BY DEF Paths
<1>2. Leads(a, b) /\ Leads(b, c) => Leads(a, c)
  BY <1>1 DEF Leads
<1>3. Leads(a, c) /\ Leads(b, c) => Leads(a, b) \/ Leads(b, a)
  BY <1>1 DEF Leads
<1> QED BY <1>1, <1>2, <1>3 DEF Leads

(* A path made longer. *)
LEMMA LeadsBelow ==
  ASSUME NEW a \in Paths, NEW f, NEW i \in Nat, NEW b \in Paths, b = a \o <<f, i>>
  PROVE  Leads(a, b) /\ ~Leads(b, a)
<1>1. Len(a) \in Nat /\ Len(b) = Len(a) + 2 /\ \A k \in 1 .. Len(a) : b[k] = a[k]
  BY DEF Paths
<1> QED BY <1>1 DEF Leads

LEMMA LeadsBeside ==
  ASSUME NEW a \in Paths, NEW f, NEW i \in Nat, NEW j \in Nat, i # j,
         NEW b \in Paths, b = a \o <<f, i>>, NEW c \in Paths, c = a \o <<f, j>>
  PROVE  ~Leads(b, c)
<1> DEFINE n == Len(a) + 2
<1>1. n \in Nat /\ n > 0 /\ Len(b) = n /\ b[n] = i /\ c[n] = j
  BY DEF Paths
<1> HIDE DEF n
<1>2. n \in 1 .. Len(b)
  BY <1>1
<1> QED BY <1>1, <1>2 DEF Leads

(* The declarations under a declaration are its members. *)
LEMMA DeclChildren ==
  ASSUME NEW x \in Items
  PROVE  \E k \in Nat : \A i \in DOMAIN Children(x, InsertOrder) :
           IsDecl(Children(x, InsertOrder)[i].node) =>
             /\ IsDecl(x.node) /\ i - k \in Nat
             /\ Children(x, InsertOrder)[i].at = x.at \o <<"members", i - k>>
<1>1. CASE x.node.k \notin Scopes
  <2>1. Children(x, InsertOrder) \in Seq(KinOf(x))
    BY ChildrenAreKin, InsertOrderIsOrder
  <2>2. \A i \in DOMAIN Children(x, InsertOrder) : ~IsDecl(Children(x, InsertOrder)[i].node)
    BY <1>1, <2>1 DEF KinOf, Kin
  <2> QED BY <2>2
<1>2. CASE x.node.k \in Scopes
  <2> DEFINE f == IF x.node.k = "class" THEN "super" ELSE "selfs"
             p == Under(x, "params")
             q == Under(x, f)
             m == Under(x, "members")
  <2>1. {"params", f, "members"} \subseteq Fields[x.node.k] /\ f # "members"
    BY <1>2 DEF Fields, Scopes
  <2>2. InsertOrder[x.node.k] = <<"params", f, "members">>
    <3>1. x.node.k \in DOMAIN InsertDeclOrder /\ InsertDeclOrder[x.node.k] = <<"params", f, "members">>
      BY <1>2 DEF InsertDeclOrder, Scopes
    <3> QED BY <3>1, InsertOrderParts
  <2> HIDE DEF f
  <2>3. Children(x, InsertOrder) = FlattenSeq(<<p, q, m>>)
    <3> DEFINE fs == <<"params", f, "members">>
    <3>1. [i \in DOMAIN fs |-> Under(x, fs[i])] = <<p, q, m>>
      OBVIOUS
    <3> QED BY <2>2, <3>1 DEF Children
  <2>4. p \in Seq(Items) /\ q \in Seq(Items) /\ m \in Seq(Items)
    BY <2>1, UnderIsItems
  <2>5. /\ \A i \in DOMAIN p : ~IsDecl(p[i].node)
        /\ \A i \in DOMAIN q : ~IsDecl(q[i].node)
    BY <2>1, UnderIsKin
  <2>6. \A i \in DOMAIN m : m[i].at = x.at \o <<"members", i>>
    BY DEF Under, Item
  <2>7. IsDecl(x.node)
    BY <1>2 DEF Scopes, IsDecl, DeclKinds
  <2> HIDE DEF p, q, m
  <2> DEFINE c == Both(p, Both(q, m))
             k == Len(p) + Len(q)
  <2>8. Children(x, InsertOrder) = c
    BY <2>3, <2>4, FlattenOfThree
  <2>9. k \in Nat
    BY <2>4
  <2>10. ASSUME NEW i \in DOMAIN c
         PROVE  \/ i \in DOMAIN p /\ c[i] = p[i]
                \/ i - Len(p) \in DOMAIN q /\ c[i] = q[i - Len(p)]
                \/ i - k \in DOMAIN m /\ c[i] = m[i - k]
    <3> DEFINE r == Both(q, m)
    <3>1. r \in Seq(Items) /\ Len(r) = Len(q) + Len(m)
      BY <2>4 DEF Both
    <3>2. ASSUME NEW j \in DOMAIN r
          PROVE  \/ j \in DOMAIN q /\ r[j] = q[j]
                 \/ j - Len(q) \in DOMAIN m /\ r[j] = m[j - Len(q)]
      <4>1. Len(q) \in Nat /\ j \in Nat
        BY <2>4, <3>2, PlaceInBoth
      <4> QED BY <2>4, <3>2, <4>1, PlaceInBoth
    <3> HIDE DEF r
    <3>3. c = Both(p, r) /\ Len(p) \in Nat /\ Len(q) \in Nat
      BY <2>4 DEF r
    <3>4. /\ i \in Nat
          /\ \/ i \in DOMAIN p /\ c[i] = p[i]
             \/ i - Len(p) \in DOMAIN r /\ c[i] = r[i - Len(p)]
      <4>1. i \in DOMAIN Both(p, r)
        BY <2>10, <3>3
      <4> HIDE DEF c
      <4>2. /\ i \in Nat
            /\ i <= Len(p) => i \in DOMAIN p /\ c[i] = p[i]
            /\ i > Len(p) => i - Len(p) \in DOMAIN r /\ c[i] = r[i - Len(p)]
        BY <2>4, <3>1, <3>3, <4>1, PlaceInBoth
      <4> QED BY <3>3, <4>2
    <3>5. (i - Len(p)) - Len(q) = i - k
      BY <3>3, <3>4
    <3> QED BY <3>2, <3>4, <3>5
  <2>11. \A i \in DOMAIN c : IsDecl(c[i].node) =>
           i - k \in Nat /\ c[i].at = x.at \o <<"members", i - k>>
    <3> SUFFICES ASSUME NEW i \in DOMAIN c, IsDecl(c[i].node)
                 PROVE  i - k \in Nat /\ c[i].at = x.at \o <<"members", i - k>>
      OBVIOUS
    <3> HIDE DEF c, k
    <3>1. i - k \in DOMAIN m /\ c[i] = m[i - k]
      BY <2>5, <2>10
    <3>2. DOMAIN m \subseteq Nat
      BY <2>4
    <3> QED BY <2>6, <3>1, <3>2
  <2> HIDE DEF c, k
  <2> QED BY <2>7, <2>8, <2>9, <2>11
<1> QED BY <1>1, <1>2

\* On the stack next, after item: its members, and what was behind it on w.
Member(item, y, i) == IsDecl(item.node) /\ i \in Nat /\ y.at = item.at \o <<"members", i>>

Succeeds(next, w, item, n, k) ==
  \A i \in DOMAIN next :
    /\ i \in Nat /\ next[i] \in Items
    /\ IsDecl(next[i].node) =>
         \/ Member(item, next[i], i - k)
         \/ i - n + 1 \in DOMAIN w \ {1} /\ next[i] = w[i - n + 1]

LEMMA StackSucceeds ==
  ASSUME NEW c \in Seq(Items), NEW w \in Seq(Items), w # <<>>, NEW item, NEW k \in Nat,
         \A i \in DOMAIN c : IsDecl(c[i].node) => Member(item, c[i], i - k)
  PROVE  \E n \in Nat : Succeeds(Both(c, Tail(w)), w, item, n, k)
<1> DEFINE next == Both(c, Tail(w))
<1>1. PICK n \in Nat : \A i \in DOMAIN next :
        /\ i \in Nat /\ next[i] \in Items
        /\ \/ i \in DOMAIN c /\ next[i] = c[i]
           \/ i - n + 1 \in DOMAIN w \ {1} /\ next[i] = w[i - n + 1]
  BY PlaceInRest
<1> HIDE DEF next
<1>2. Succeeds(next, w, item, n, k)
  BY <1>1, Zenon DEF Succeeds
<1> QED BY <1>2, Zenon DEF next

LEMMA DescentSucceeds ==
  ASSUME NEW w \in Seq(Items), w # <<>>, NEW item, item = Head(w)
  PROVE  \E n \in Nat, k \in Nat : Succeeds(Children(item, InsertOrder) \o Tail(w), w, item, n, k)
<1> DEFINE c == Children(item, InsertOrder)
<1>1. item \in Items
  OBVIOUS
<1>2. c \in Seq(Items)
  BY <1>1, ChildrenAreItems, InsertOrderIsOrder
<1>3. PICK k \in Nat : \A i \in DOMAIN c :
        IsDecl(c[i].node) =>
          IsDecl(item.node) /\ i - k \in Nat /\ c[i].at = item.at \o <<"members", i - k>>
  BY <1>1, DeclChildren
<1> HIDE DEF c
<1>4. \A i \in DOMAIN c : IsDecl(c[i].node) => Member(item, c[i], i - k)
  BY <1>3, Zenon DEF Member
<1>5. PICK n \in Nat : Succeeds(Both(c, Tail(w)), w, item, n, k)
  BY <1>2, <1>4, StackSucceeds
<1> QED BY <1>5, Zenon DEF Both, c

LEMMA SuccessorsAreApart ==
  ASSUME NEW w, 1 \in DOMAIN w, \A i \in DOMAIN w : w[i] \in Items,
         NEW D \in SUBSET Items, Apart(w), Fresh(D, w),
         NEW item, item = w[1], NEW n \in Nat, NEW k \in Nat,
         NEW next, Succeeds(next, w, item, n, k)
  PROVE  Apart(next) /\ Fresh(D \cup {item}, next)
<1> DEFINE Old(i) == i - n + 1 \in DOMAIN w \ {1} /\ next[i] = w[i - n + 1]
           New(i) == Member(item, next[i], i - k)
<1>1. item \in Items /\ \A v \in Items : v.at \in Paths
  BY DEF Items, Paths
<1>2. ASSUME NEW i \in DOMAIN next, IsDecl(next[i].node)
      PROVE  i \in Nat /\ next[i].at \in Paths /\ (New(i) \/ Old(i))
  BY <1>1, <1>2 DEF Succeeds
<1>3. ASSUME NEW i \in DOMAIN next, IsDecl(next[i].node), New(i)
      PROVE  IsDecl(item.node) /\ Leads(item.at, next[i].at) /\ ~Leads(next[i].at, item.at)
  <2>1. next[i].at \in Paths
    BY <1>2, <1>3
  <2>2. /\ IsDecl(item.node) /\ i - k \in Nat /\ item.at \in Paths
        /\ next[i].at = item.at \o <<"members", i - k>>
    BY <1>1, <1>3 DEF Member
  <2> QED BY <2>1, <2>2, LeadsBelow
<1>4. ASSUME NEW i \in DOMAIN next, IsDecl(next[i].node), Old(i), IsDecl(item.node)
      PROVE  ~Leads(item.at, next[i].at) /\ ~Leads(next[i].at, item.at)
  BY <1>4 DEF Apart
<1>5. Apart(next)
  <2> SUFFICES ASSUME NEW i \in DOMAIN next, NEW j \in DOMAIN next, i # j,
                      IsDecl(next[i].node), IsDecl(next[j].node), Leads(next[i].at, next[j].at)
               PROVE  FALSE
    BY DEF Apart
  <2>1. PICK a \in Paths : a = next[i].at
    BY <1>2
  <2>2. PICK b \in Paths : b = next[j].at
    BY <1>2
  <2>3. i \in Nat /\ j \in Nat /\ (New(i) \/ Old(i)) /\ (New(j) \/ Old(j))
    BY <1>2
  <2>4. Leads(a, b) /\ item.at \in Paths
    BY <1>1, <2>1, <2>2
  <2>5. CASE New(i) /\ New(j)
    <3>1. i - k # j - k /\ i - k \in Nat /\ j - k \in Nat
      BY <2>3, <2>5 DEF Member
    <3>2. a = item.at \o <<"members", i - k>> /\ b = item.at \o <<"members", j - k>>
      BY <2>1, <2>2, <2>5 DEF Member
    <3> QED BY <2>4, <3>1, <3>2, LeadsBeside
  <2>6. CASE New(i) /\ Old(j)
    <3>1. IsDecl(item.node) /\ Leads(item.at, a)
      BY <1>3, <2>1, <2>6
    <3>2. Leads(item.at, b)
      BY <2>4, <3>1, LeadsAre
    <3> QED BY <1>4, <2>2, <2>6, <3>1, <3>2
  <2>7. CASE Old(i) /\ New(j)
    <3>1. IsDecl(item.node) /\ Leads(item.at, b)
      BY <1>3, <2>2, <2>7
    <3>2. Leads(item.at, a) \/ Leads(a, item.at)
      BY <2>4, <3>1, LeadsAre
    <3> QED BY <1>4, <2>1, <2>7, <3>1, <3>2
  <2>8. CASE Old(i) /\ Old(j)
    <3>1. i - n + 1 # j - n + 1
      BY <2>3
    <3> QED BY <2>8, <3>1 DEF Apart
  <2> QED BY <2>3, <2>5, <2>6, <2>7, <2>8
<1>6. Fresh(D \cup {item}, next)
  <2> SUFFICES ASSUME NEW i \in DOMAIN next, NEW v \in D \cup {item},
                      IsDecl(next[i].node), IsDecl(v.node), Leads(next[i].at, v.at)
               PROVE  FALSE
    BY DEF Fresh
  <2>1. next[i].at \in Paths /\ (New(i) \/ Old(i))
    BY <1>2
  <2>2. CASE v = item
    BY <1>3, <1>4, <2>1, <2>2
  <2>3. CASE v \in D /\ New(i)
    <3>1. v.at \in Paths /\ item.at \in Paths
      BY <1>1, <2>3
    <3>2. IsDecl(item.node) /\ Leads(item.at, next[i].at)
      BY <1>3, <2>3
    <3>3. Leads(item.at, v.at)
      BY <2>1, <3>1, <3>2, LeadsAre
    <3> QED BY <2>3, <3>2, <3>3 DEF Fresh
  <2>4. CASE v \in D /\ Old(i)
    BY <2>4 DEF Fresh
  <2> QED BY <2>1, <2>2, <2>3, <2>4
<1> QED BY <1>5, <1>6

(* Insert comes to no declaration twice. *)
LEMMA StaysFresh ==
  ASSUME NEW w \in Seq(Items), w # <<>>, NEW D \in SUBSET Items, Apart(w), Fresh(D, w),
         NEW item, item = Head(w),
         NEW next, next = Children(item, InsertOrder) \o Tail(w)
  PROVE  Apart(next) /\ Fresh(D \cup {item}, next)
<1>1. PICK n \in Nat, k \in Nat : Succeeds(next, w, item, n, k)
  BY DescentSucceeds, Zenon
<1>2. 1 \in DOMAIN w /\ item = w[1] /\ \A i \in DOMAIN w : w[i] \in Items
  OBVIOUS
<1> QED BY <1>1, <1>2, SuccessorsAreApart

\* The declarations among the items done, as they are registered.
Named(D)   == {d \in D : IsDecl(d.node) /\ d.node.k # "global"}
Globals(D) == {d \in D : d.node.k = "global"}

Registered(D) ==
  /\ DOMAIN decls = {FullName(d) : d \in Named(D)}
  /\ \A d \in Named(D) : decls[FullName(d)].kind = d.node.k
  /\ \A d, e \in Named(D) : d.at # e.at /\ FullName(d) = FullName(e) => d.node.k \in Scopes
  /\ globals = {d.node.var : d \in Globals(D)}
  /\ \A d, e \in Globals(D) : d.at # e.at => d.node.var # e.node.var

\* They are in the sources walked so far.
Placed(x) == Len(x.at) >= 2 /\ x.at[1] \in 1 .. source

Unrepeated(D) ==
  /\ Inserted(D) /\ Registered(D)
  /\ Apart(work) /\ Fresh(D, work) /\ \A x \in D \cup Range(work) : Placed(x)

DupInv ==
  /\ phase = "insert" => \E D \in SUBSET Items : Unrepeated(D)
  /\ phase = "failed" => Clash
  /\ phase = "loaded" => ~Clash

(* What is registered once more is what was registered. *)
LEMMA StillRegistered ==
  ASSUME NEW D, Registered(D), NEW item, ~IsDecl(item.node), UNCHANGED <<decls, globals>>
  PROVE  Registered(D \cup {item})'
<1>1. item.node.k # "global"
  BY DEF IsDecl, DeclKinds
<1>2. Named(D \cup {item}) = Named(D) /\ Globals(D \cup {item}) = Globals(D)
  BY <1>1 DEF Named, Globals
<1> QED BY <1>2 DEF Registered

(* A declaration is registered under its name. *)
LEMMA RegistersName ==
  ASSUME NEW D, Registered(D), NEW item, IsDecl(item.node), item.node.k # "global",
         ~Clashes(item), UNCHANGED globals,
         decls' = IF FullName(item) \in DOMAIN decls THEN decls
                  ELSE Put(decls, FullName(item), Entry(item))
  PROVE  Registered(D \cup {item})'
<1> DEFINE full == FullName(item)
           E == D \cup {item}
<1>1. Named(E) = Named(D) \cup {item} /\ Globals(E) = Globals(D)
  BY DEF Named, Globals
<1>2. Entry(item).kind = item.node.k
  BY DEF Entry
<1>3. /\ DOMAIN decls' = DOMAIN decls \cup {full}
      /\ \A n \in DOMAIN decls : decls'[n] = decls[n]
      /\ full \notin DOMAIN decls => decls'[full].kind = item.node.k
  <2>1. CASE full \in DOMAIN decls
    BY <2>1
  <2>2. CASE full \notin DOMAIN decls
    <3> DEFINE v == Entry(item)
    <3>1. decls' = Put(decls, full, v)
      BY <2>2
    <3> HIDE DEF full, v
    <3>2. /\ DOMAIN decls' = DOMAIN decls \cup {full} /\ decls'[full] = v
          /\ \A n \in DOMAIN decls : n # full => decls'[n] = decls[n]
      <4>1. DOMAIN decls' = DOMAIN decls \cup {full}
        BY <3>1 DEF Put, OrElse
      <4>2. decls'[full] = v
        BY <3>1 DEF Put, OrElse
      <4>3. \A n \in DOMAIN decls : n # full => decls'[n] = decls[n]
        BY <3>1 DEF Put, OrElse
      <4> QED BY <4>1, <4>2, <4>3
    <3>3. v.kind = item.node.k
      BY <1>2 DEF v
    <3> QED BY <2>2, <3>2, <3>3
  <2> QED BY <2>1, <2>2
<1>4. ASSUME NEW d \in Named(D)
      PROVE  FullName(d) \in DOMAIN decls /\ decls[FullName(d)].kind = d.node.k
  BY DEF Registered
<1>5. ASSUME NEW d \in Named(D), FullName(d) = full
      PROVE  d.node.k = item.node.k /\ item.node.k \in Scopes
  BY <1>4, <1>5 DEF Clashes
<1>6. ASSUME NEW d \in Named(E) PROVE decls'[FullName(d)].kind = d.node.k
  <2>1. CASE d \in Named(D)
    BY <1>3, <1>4, <2>1
  <2>2. CASE d = item /\ full \notin DOMAIN decls
    BY <1>3, <2>2
  <2>3. CASE d = item /\ full \in DOMAIN decls
    <3>1. PICK e \in Named(D) : FullName(e) = full
      BY <2>3 DEF Registered
    <3>2. decls[full].kind = e.node.k /\ e.node.k = item.node.k
      BY <1>4, <1>5, <3>1
    <3> QED BY <1>3, <2>3, <3>2
  <2> QED BY <1>1, <2>1, <2>2, <2>3
<1>7. ASSUME NEW d \in Named(E), NEW e \in Named(E), d.at # e.at, FullName(d) = FullName(e)
      PROVE  d.node.k \in Scopes
  <2>1. CASE d \in Named(D) /\ e \in Named(D)
    BY <1>7, <2>1 DEF Registered
  <2>2. CASE d = item /\ e \in Named(D)
    BY <1>5, <1>7, <2>2
  <2>3. CASE d \in Named(D) /\ e = item
    BY <1>5, <1>7, <2>3
  <2>4. CASE d = item /\ e = item
    BY <1>7, <2>4
  <2> QED BY <1>1, <2>1, <2>2, <2>3, <2>4
<1>8. DOMAIN decls' = {FullName(d) : d \in Named(E)}
  <2>1. DOMAIN decls = {FullName(d) : d \in Named(D)}
    BY DEF Registered
  <2> QED BY <1>1, <1>3, <2>1
<1> HIDE DEF E, full
<1> QED BY <1>1, <1>6, <1>7, <1>8 DEF Registered, E

(* So is a global variable. *)
LEMMA RegistersGlobal ==
  ASSUME NEW D, Registered(D), NEW item, item.node.k = "global",
         item.node.var \notin globals, globals' = globals \cup {item.node.var}, UNCHANGED decls
  PROVE  Registered(D \cup {item})'
<1>1. Named(D \cup {item}) = Named(D) /\ Globals(D \cup {item}) = Globals(D) \cup {item}
  BY DEF Named, Globals
<1>2. globals = {d.node.var : d \in Globals(D)}
  BY DEF Registered
<1>3. globals' = {d.node.var : d \in Globals(D) \cup {item}}
  BY <1>2
<1>4. \A d \in Globals(D) : d.node.var # item.node.var
  BY <1>2
<1>5. \A d, e \in Globals(D) \cup {item} : d.at # e.at => d.node.var # e.node.var
  BY <1>4 DEF Registered
<1> QED BY <1>1, <1>3, <1>5 DEF Registered

(* When there is nothing left no two declarations clash. *)
LEMMA RegisteredDoNotClash ==
  ASSUME Registered(Occurrences)
  PROVE  ~Clash
<1> DEFINE named == {d \in Declarations : d.node.k # "global"}
<1>1. named = Named(Occurrences) /\ Declarations \ named = Globals(Occurrences)
  BY DEF Declarations, Named, Globals, IsDecl, DeclKinds
<1>2. ASSUME NEW d \in named, NEW e \in named, d.at # e.at, FullName(d) = FullName(e)
      PROVE  d.node.k = e.node.k /\ d.node.k \in Scopes
  BY <1>1, <1>2 DEF Registered
<1>3. ASSUME NEW d \in Declarations \ named, NEW e \in Declarations \ named, d.at # e.at
      PROVE  d.node.var # e.node.var
  BY <1>1, <1>3 DEF Registered
<1> QED BY <1>2, <1>3 DEF Clash

(* What is refused clashes with what is registered. *)
LEMMA RefusedClashes ==
  ASSUME TypeInv, NEW D \in SUBSET Items, Unrepeated(D), InsertDuplicate
  PROVE  Clash
<1> DEFINE named == {d \in Declarations : d.node.k # "global"}
<1>1. work # <<>> /\ work \in Seq(Items)
  BY DEF InsertDuplicate, TypeInv, WorkOK
<1>2. PICK item \in Items : item = Head(work) /\ 1 \in DOMAIN work /\ item = work[1]
  BY <1>1
<1>3. item \in Range(work) /\ IsDecl(item.node)
  BY <1>1, <1>2, RangeOfRest DEF InsertDuplicate
<1>4. item \in Declarations
  BY <1>3 DEF Unrepeated, Inserted, Declarations
<1>5. \A d \in Named(D) : d \in named
  BY DEF Unrepeated, Inserted, Declarations, Named
<1>6. \A d \in Globals(D) : d \in Declarations \ named
  BY DEF Unrepeated, Inserted, Declarations, Globals, IsDecl, DeclKinds
<1>7. ASSUME NEW d \in D, IsDecl(d.node) PROVE item.at # d.at
  <2>1. ~Leads(item.at, d.at)
    BY <1>2, <1>3, <1>7 DEF Unrepeated, Fresh
  <2>2. item.at \in Paths
    BY <1>2 DEF Items, Paths
  <2>3. Leads(item.at, item.at)
    BY <2>2, LeadsAre
  <2> QED BY <2>1, <2>3
<1>8. CASE item.node.k = "global"
  <2>1. item.node.var \in globals
    BY <1>2, <1>8 DEF InsertDuplicate
  <2>2. PICK d \in Globals(D) : d.node.var = item.node.var
    BY <2>1 DEF Unrepeated, Registered
  <2>3. d \in D /\ IsDecl(d.node)
    BY DEF Globals, IsDecl, DeclKinds
  <2>4. item.at # d.at /\ d \in Declarations \ named /\ item \in Declarations \ named
    BY <1>4, <1>6, <1>7, <1>8, <2>3
  <2> QED BY <2>2, <2>4 DEF Clash
<1>9. CASE item.node.k # "global"
  <2>1. Clashes(item)
    BY <1>2, <1>9 DEF InsertDuplicate
  <2>2. PICK d \in Named(D) : FullName(d) = FullName(item)
    BY <2>1 DEF Clashes, Unrepeated, Registered
  <2>3. decls[FullName(item)].kind = d.node.k
    BY <2>2 DEF Unrepeated, Registered
  <2>4. item.node.k # d.node.k \/ item.node.k \notin Scopes
    BY <2>1, <2>3 DEF Clashes
  <2>5. d \in D /\ IsDecl(d.node)
    BY DEF Named
  <2>6. item.at # d.at /\ d \in named /\ item \in named
    BY <1>4, <1>5, <1>7, <1>9, <2>5
  <2> QED BY <2>2, <2>4, <2>6 DEF Clash
<1> QED BY <1>8, <1>9

(* An item is done with; what is below it is in the same source. *)
LEMMA StaysUnrepeated ==
  ASSUME TypeInv, NEW D \in SUBSET Items, Unrepeated(D), InsertDecl \/ InsertGlobal \/ InsertNode
  PROVE  \E E \in SUBSET Items : Unrepeated(E)'
<1>1. /\ phase = "insert" /\ work # <<>> /\ work \in Seq(Items) /\ UNCHANGED <<program, source>>
      /\ work' = Children(Head(work), InsertOrder) \o Tail(work)
  BY InsertSteps DEF TypeInv, WorkOK
<1>2. PICK item \in Items : item = Head(work)
  BY <1>1
<1> DEFINE E == D \cup {item}
<1>3. Inserted(E)'
  BY <1>1, <1>2, InsertSteps, InsertDoes DEF Unrepeated
<1>4. Registered(E)'
  <2>1. CASE InsertDecl
    BY <1>2, <2>1, RegistersName DEF InsertDecl, Unrepeated
  <2>2. CASE InsertGlobal
    BY <1>2, <2>2, RegistersGlobal DEF InsertGlobal, Unrepeated
  <2>3. CASE InsertNode
    BY <1>2, <2>3, StillRegistered DEF InsertNode, Unrepeated
  <2> QED BY <2>1, <2>2, <2>3
<1>5. Apart(work') /\ Fresh(E, work')
  BY <1>1, <1>2, StaysFresh DEF Unrepeated
<1>6. ASSUME NEW x \in E \cup Range(work') PROVE Placed(x)'
  <2>1. Placed(item)
    BY <1>1, <1>2, RangeOfRest DEF Unrepeated
  <2>2. CASE x \in D \cup {item} \cup Range(work)
    BY <1>1, <2>1, <2>2 DEF Unrepeated, Placed
  <2>3. CASE x \in Range(Children(item, InsertOrder))
    <3>1. Kin(item, x) /\ x \in Items
      BY <2>3, ChildIs
    <3>2. Len(item.at) \in Nat
      BY DEF Items
    <3> QED BY <1>1, <2>1, <3>1, <3>2 DEF Placed, Kin
  <2>4. x \in D \cup {item} \cup Range(work) \cup Range(Children(item, InsertOrder))
    <3>1. Children(item, InsertOrder) \in Seq(Items)
      BY ChildrenAreItems, InsertOrderIsOrder
    <3>2. Range(work') \subseteq Range(Children(item, InsertOrder)) \cup Range(work)
      BY <1>1, <1>2, <3>1, RangeBelow
    <3> QED BY <3>2
  <2> QED BY <2>2, <2>3, <2>4
<1> HIDE DEF E
<1>7. E \in SUBSET Items
  BY DEF E
<1>8. Unrepeated(E)'
  BY <1>3, <1>4, <1>5, <1>6 DEF Unrepeated
<1> QED BY <1>7, <1>8

(* The next source is another one. *)
LEMMA EntersUnrepeated ==
  ASSUME TypeInv, NEW D \in SUBSET Items, Unrepeated(D), InsertSource
  PROVE  Unrepeated(D)'
<1>1. /\ UNCHANGED <<program, decls, globals>> /\ source' = source + 1 /\ source \in Nat
      /\ work' = TopItems(source + 1, program[source + 1].decls)
  BY DEF InsertSource, Enter, envVars, TypeInv, TypeOK
<1>2. Inserted(D)'
  BY InsertEnters DEF Unrepeated
<1>3. Registered(D)'
  BY <1>1 DEF Unrepeated, Registered
<1>4. /\ DOMAIN work' = DOMAIN program[source + 1].decls
      /\ \A i \in DOMAIN work' : work'[i].at = <<source + 1, i>>
  BY <1>1 DEF TopItems, Item
<1>5. Apart(work')
  <2> SUFFICES ASSUME NEW i \in DOMAIN work', NEW j \in DOMAIN work', i # j,
                      Leads(work'[i].at, work'[j].at)
               PROVE  FALSE
    BY DEF Apart
  <2> DEFINE p == work'[i].at
             q == work'[j].at
  <2>1. p = <<source + 1, i>> /\ q = <<source + 1, j>>
    BY <1>4
  <2> HIDE DEF p, q
  <2>2. Len(p) = 2 /\ p[2] = i /\ q[2] = j
    BY <2>1
  <2>3. Leads(p, q)
    BY DEF p, q
  <2>4. 2 \in 1 .. Len(p)
    BY <2>2
  <2>5. p[2] = q[2]
    BY <2>3, <2>4 DEF Leads
  <2> QED BY <2>2, <2>5
<1>6. ASSUME NEW v \in D PROVE Placed(v)' /\ v.at[1] # source + 1
  BY <1>1 DEF Unrepeated, Placed
<1>7. Fresh(D, work')
  <2> SUFFICES ASSUME NEW i \in DOMAIN work', NEW v \in D, Leads(work'[i].at, v.at) PROVE FALSE
    BY DEF Fresh
  <2> DEFINE p == work'[i].at
  <2>1. p = <<source + 1, i>>
    BY <1>4
  <2> HIDE DEF p
  <2>2. Len(p) = 2 /\ p[1] = source + 1
    BY <2>1
  <2>3. Leads(p, v.at) /\ 1 \in 1 .. Len(p)
    BY <2>2 DEF p
  <2>4. v.at[1] = source + 1
    BY <2>2, <2>3 DEF Leads
  <2> QED BY <1>6, <2>4
<1>8. ASSUME NEW x \in Range(work') PROVE Placed(x)'
  <2>1. PICK i \in DOMAIN work' : x = work'[i]
    BY DEF Range
  <2> DEFINE p == x.at
  <2>2. p = <<source + 1, i>>
    BY <1>4, <2>1
  <2> HIDE DEF p
  <2>3. Len(p) = 2 /\ p[1] = source + 1
    BY <2>2
  <2>4. source + 1 \in 1 .. source'
    BY <1>1
  <2> QED BY <2>3, <2>4 DEF Placed, p
<1> QED BY <1>2, <1>3, <1>5, <1>6, <1>7, <1>8 DEF Unrepeated

LEMMA InitUnrepeated == Init => DupInv
<1> SUFFICES ASSUME Init PROVE DupInv
  OBVIOUS
<1>1. phase = "insert" /\ work = <<>> /\ decls = [n \in {} |-> None] /\ globals = {}
  BY DEF Init, InsertInit
<1>2. Registered({})
  BY <1>1 DEF Registered, Named, Globals
<1>3. Unrepeated({})
  BY <1>1, <1>2, InitInterns DEF Unrepeated, Apart, Fresh, Range
<1> QED BY <1>1, <1>3 DEF DupInv

LEMMA NextUnrepeated == TypeInv /\ DupInv /\ [Next]_vars => DupInv'
<1> SUFFICES ASSUME TypeInv, DupInv, [Next]_vars PROVE DupInv'
  OBVIOUS
<1>1. CASE InsertNext
  <2>1. phase = "insert" /\ program' = program
    BY <1>1 DEF InsertNext, InsertSource, InsertDecl, InsertGlobal, InsertDuplicate, InsertNode,
                InsertEnd, envVars
  <2>2. PICK D \in SUBSET Items : Unrepeated(D)
    BY <2>1 DEF DupInv
  <2>3. Clash' <=> Clash
    BY <2>1 DEF Clash, Declarations, Occurrences, Tops
  <2>4. CASE InsertSource
    <3>1. phase' = "insert"
      BY <2>1, <2>4 DEF InsertSource
    <3> QED BY <2>2, <2>4, <3>1, EntersUnrepeated DEF DupInv
  <2>5. CASE InsertDecl \/ InsertGlobal \/ InsertNode
    <3>1. phase' = "insert"
      BY <2>1, <2>5, InsertSteps
    <3> QED BY <2>2, <2>5, <3>1, StaysUnrepeated DEF DupInv
  <2>6. CASE InsertDuplicate
    <3>1. phase' = "failed"
      BY <2>6 DEF InsertDuplicate
    <3> QED BY <2>2, <2>3, <2>6, <3>1, RefusedClashes DEF DupInv
  <2>7. CASE InsertEnd
    <3>1. phase' = "loaded" /\ work = <<>> /\ source = Len(program)
      BY <2>7 DEF InsertEnd
    <3>2. D = Occurrences
      BY <2>2, <3>1, InsertedAll DEF Unrepeated
    <3>3. ~Clash
      BY <2>2, <3>2, RegisteredDoNotClash DEF Unrepeated
    <3> QED BY <2>3, <3>1, <3>3 DEF DupInv
  <2> QED BY <1>1, <2>4, <2>5, <2>6, <2>7 DEF InsertNext
<1>2. CASE DriverNext
  <2>1. phase \in {"loaded", "resolve"}
    BY <1>2 DEF DriverNext, StartResolve, SkipSource, ResolveSource, SkipDecl, ConsumeDeclRef,
                WalkDeclaration, LeaveDeclaration, WalkName, WalkNode, ResolveEnd, NextSource,
                Resolving
  <2>2. phase' \in {"resolve", "resolved", "panicked"}
    BY <1>2 DEF DriverNext, StartResolve, SkipSource, ResolveSource, SkipDecl, ConsumeDeclRef,
                WalkDeclaration, LeaveDeclaration, WalkName, WalkNode, ResolveEnd, NextSource,
                Resolving, Expect
  <2> QED BY <2>2 DEF DupInv
<1>3. CASE MaterializerNext
  <2>1. phase' \in {"materialize", "done", "panicked"}
    BY <1>3 DEF MaterializerNext, StartMaterialize, MaterializeSource, MaterializeDecl, FinishDecl,
                MaterializeName, MaterializeNode, MaterializeEnd, Building, Expect
  <2> QED BY <2>1 DEF DupInv
<1>4. CASE UNCHANGED vars
  <2>1. UNCHANGED <<phase, program, source, work, nss, tns, decls, globals>>
    BY <1>4 DEF vars, insertVars, walkVars, envVars
  <2>2. Occurrences' = Occurrences /\ (Clash' <=> Clash)
    BY <2>1 DEF Clash, Declarations, Occurrences, Tops
  <2>3. \A D : Unrepeated(D)' <=> Unrepeated(D)
    BY <2>1, <2>2 DEF Unrepeated, Inserted, Done, HasTops, Found, Registered, Placed
  <2> QED BY <2>1, <2>2, <2>3 DEF DupInv
<1> QED BY <1>1, <1>2, <1>3, <1>4 DEF Next

(* Loading fails if, and only if, two declarations somewhere in the sources
   cannot stand together, whatever order they come in. *)
THEOREM LoadingFailsOnClashes == Spec => []DuplicatesAreErrors
<1>1. DupInv => DuplicatesAreErrors
  BY DEF DupInv, DuplicatesAreErrors
<1> QED BY <1>1, InitTypes, NextTypes, InitUnrepeated, NextUnrepeated, PTL DEF Spec

=============================================================================
