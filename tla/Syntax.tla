-------------------------------- MODULE Syntax --------------------------------
(***************************************************************************)
(* Signatures as trees, and how a walk takes one apart.  A node is a       *)
(* record with its kind `k`; its other fields are a name or sequences of   *)
(* child nodes (an optional child is a sequence of at most one).           *)
(*                                                                         *)
(*   declarations  class, module, interface, typealias, constant, global,  *)
(*                 classalias (class and module aliases)                   *)
(*   names         ref: a type name with arguments (class, interface and   *)
(*                 alias types, super classes, self types, mixins, the     *)
(*                 right-hand side of an alias); singleton: singleton(C)   *)
(*   members       method, overload, attribute (attributes and variables), *)
(*                 plain (public, private, alias)                          *)
(*   types         function, proc, block, group (tuple, union, ...), leaf; *)
(*                 param is a type parameter with its bounds               *)
(*                                                                         *)
(* Three walks visit the same tree: insert interns the names, the driver   *)
(* resolves them, the materializer consumes what the driver recorded.  A   *)
(* walk is given by the order in which it visits the fields of each kind:  *)
(* it is written down once per walk, from the code of that walk.           *)
(***************************************************************************)
EXTENDS Names, SequencesExt

CONSTANTS
  Nodes,        \* the nodes of the trees there may be
  Depth         \* Depth[n]: how deep the tree under n is

\* Partial functions: f, and g where f is not defined (@@ of module TLC,
\* which has no definition a proof could use); f with x mapped to v.
OrElse(f, g) == [x \in DOMAIN f \cup DOMAIN g |-> IF x \in DOMAIN f THEN f[x] ELSE g[x]]
Put(f, x, v) == OrElse([y \in {x} |-> v], f)

DeclKinds == {"class", "module", "interface", "typealias", "constant", "global",
              "classalias"}
Scopes    == {"class", "module"}
NameKinds == {"ref", "singleton"}

IsDecl(node) == node.k \in DeclKinds

\* The fields with children, by kind.
Fields ==
  [class      |-> {"params", "super", "members"},
   module     |-> {"params", "selfs", "members"},
   interface  |-> {"params", "members"},
   typealias  |-> {"params", "type"},
   constant   |-> {"type"},
   global     |-> {"type"},
   classalias |-> {"old"},
   ref        |-> {"args"},
   singleton  |-> {"args"},
   method     |-> {"overloads"},
   overload   |-> {"params", "type", "block"},
   attribute  |-> {"type"},
   plain      |-> {},
   function   |-> {"required", "optional", "rest", "trailing", "keywords",
                   "optkeywords", "restkeywords", "returns"},
   proc       |-> {"type", "block", "self"},
   block      |-> {"type", "self"},
   group      |-> {"types"},
   leaf       |-> {},
   param      |-> {"upper", "lower", "default"}]

\* The grammar, as far as the walks rely on it: names are where they are
\* expected, and declarations are nested in classes and modules only.
IsNode(n) ==
  /\ n.k \in DOMAIN Fields
  /\ n.k \in (NameKinds \cup DeclKinds) \ {"global"} => n.name \in TypeNames
  /\ \A f \in Fields[n.k] :
       /\ n[f] \in Seq(Nodes)
       /\ \A i \in DOMAIN n[f] : IsDecl(n[f][i]) => n.k \in Scopes /\ f = "members"

ASSUME NodesAssumption == \A n \in Nodes : IsNode(n)

\* Trees are finite.
ASSUME DepthAssumption ==
  /\ Depth \in [Nodes -> Nat]
  /\ \A n \in Nodes : \A f \in Fields[n.k] : \A i \in DOMAIN n[f] : Depth[n[f][i]] < Depth[n]

Clauses ==
  [k : {"single"}, name : TypeNames, as : Symbols \cup {None}]
    \cup [k : {"wildcard"}, ns : Namespaces]

\* A source: the text of its first lines, its use clauses, its declarations.
Sources == [head : Seq(STRING), uses : Seq(Clauses), decls : Seq(Nodes)]

\* What is still to be walked is a stack of items: a node, the context it is
\* in, and its position in the source, the path of fields from the top.
Item(node, ctx, at) == [node |-> node, ctx |-> ctx, at |-> at]

TopItems(source, decls) ==
  [i \in DOMAIN decls |-> Item(decls[i], <<>>, <<source, i>>)]

\* A declaration's name with the prefix of the scope it is in.
FullName(item) == WithPrefix(Scope(item.ctx), item.node.name)

\* The context inside a node.
Inside(item) ==
  CASE item.node.k \in Scopes   -> Append(item.ctx, FullName(item))
    [] item.node.k = "global"   -> <<>>
    [] OTHER                    -> item.ctx

\* The items in one field.  A super class belongs to the context outside.
Under(item, f) ==
  [i \in DOMAIN item.node[f] |->
     Item(item.node[f][i], IF f = "super" THEN item.ctx ELSE Inside(item), item.at \o <<f, i>>)]

Children(item, order) ==
  LET fields == order[item.node.k]
  IN  FlattenSeq([i \in DOMAIN fields |-> Under(item, fields[i])])

\* The names a declaration's insertion interns, and their namespaces.
NamesOf(item) ==
  IF item.node.k \in NameKinds THEN {item.node.name}
  ELSE IF IsDecl(item.node) /\ item.node.k # "global"
       THEN {item.node.name, FullName(item)} ELSE {}

NamespacesOf(item) ==
  {n.ns : n \in NamesOf(item)}
    \cup (IF item.node.k \in Scopes THEN {ToNamespace(FullName(item))} ELSE {})

=============================================================================
