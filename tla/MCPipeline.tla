------------------------------ MODULE MCPipeline ------------------------------
(***************************************************************************)
(* Small programs for the pipeline: pairs of declarations from a pool in   *)
(* which every node kind occurs, in one source or in two, with and without *)
(* a use directive, a magic comment and a filter.                          *)
(***************************************************************************)
EXTENDS Pipeline

MCKind == [s \in Symbols |-> CASE s = "_E" -> "Interface" [] s = "t" -> "TypeAlias"
                              [] OTHER   -> "Class"]

Rel(path, name) == Tn(Ns(path, FALSE), name)
Abs(path, name) == Tn(Ns(path, TRUE), name)
A == Rel(<<>>, "A")   B == Rel(<<>>, "B")   E == Rel(<<>>, "_E")   T == Rel(<<>>, "t")

(* Nodes. *)
Ref(n, args)   == [k |-> "ref", name |-> n, args |-> args]
To(n)          == Ref(n, <<>>)
Single(n, args) == [k |-> "singleton", name |-> n, args |-> args]
Group(types)   == [k |-> "group", types |-> types]
Leaf           == [k |-> "leaf"]
Function(req, rest, kws, ret) ==
  [k |-> "function", required |-> req, optional |-> <<>>, rest |-> rest,
   trailing |-> <<>>, keywords |-> kws, optkeywords |-> <<>>, restkeywords |-> <<>>,
   returns |-> <<ret>>]
Block(type, self)       == [k |-> "block", type |-> <<type>>, self |-> self]
Proc(type, block, self) == [k |-> "proc", type |-> <<type>>, block |-> block, self |-> self]
Param(upper, default)   == [k |-> "param", upper |-> upper, lower |-> <<>>,
                            default |-> default]
Overload(params, type, block) ==
  [k |-> "overload", params |-> params, type |-> <<type>>, block |-> block]
Method(overloads) == [k |-> "method", overloads |-> overloads]
Attribute(type)   == [k |-> "attribute", type |-> <<type>>]
Plain             == [k |-> "plain"]

(* Declarations. *)
Class(n, params, super, members) ==
  [k |-> "class", name |-> n, params |-> params, super |-> super, members |-> members]
Module(n, selfs, members) ==
  [k |-> "module", name |-> n, params |-> <<>>, selfs |-> selfs, members |-> members]
Interface(n, members) == [k |-> "interface", name |-> n, params |-> <<>>, members |-> members]
Constant(n, type)     == [k |-> "constant", name |-> n, type |-> <<type>>]
Global(s, type)       == [k |-> "global", var |-> s, type |-> <<type>>]
ClassAlias(n, old)    == [k |-> "classalias", name |-> n, old |-> <<To(old)>>]
TypeAlias(n, params, type) ==
  [k |-> "typealias", name |-> n, params |-> params, type |-> <<type>>]

Callback == Proc(Function(<<To(B)>>, <<>>, <<>>, Leaf),
                 <<Block(Function(<<To(A)>>, <<>>, <<>>, To(E)), <<To(B)>>)>>, <<To(A)>>)
Signature == Overload(<<Param(<<To(B)>>, <<To(A)>>)>>,
                      Function(<<To(A)>>, <<To(E)>>, <<To(B)>>, Group(<<To(E), To(A)>>)),
                      <<Block(Function(<<To(B)>>, <<>>, <<>>, To(A)), <<To(T)>>)>>)

\* A class with a nested class between two members, as in the comment on
\* CursorState.
Nesting == Class(A, <<Param(<<To(E)>>, <<>>)>>, <<Ref(B, <<To(A)>>)>>,
             <<Ref(E, <<To(B)>>), Class(B, <<>>, <<>>, <<Attribute(To(A))>>),
               Plain, Attribute(Single(B, <<>>))>>)

MCPool ==
  {Nesting,
   Class(A, <<>>, <<>>, <<Interface(E, <<Method(<<Signature>>)>>), Attribute(To(E))>>),
   Class(Rel(<<"A">>, "B"), <<>>, <<To(A)>>, <<Attribute(Callback)>>),
   Class(B, <<>>, <<>>, <<ClassAlias(A, B), Attribute(To(Rel(<<"A">>, "B")))>>),
   Module(A, <<Ref(E, <<To(B)>>)>>, <<Module(B, <<>>, <<Constant(A, To(B))>>), Ref(B, <<>>)>>),
   Interface(E, <<Method(<<Signature>>)>>),
   TypeAlias(T, <<Param(<<To(A)>>, <<To(E)>>)>>, Group(<<To(A), To(Rel(<<"B">>, "t"))>>)),
   ClassAlias(B, Rel(<<"A">>, "B")),
   Global("A", Group(<<To(A), To(Rel(<<"A">>, "_E"))>>)),
   Constant(A, To(Abs(<<>>, "B")))}

\* The use directives of a source: use ::A::B, use ::A as B, use ::A::*.
Use(n, as) == [k |-> "single", name |-> n, as |-> as]
UseB    == Use(Abs(<<"A">>, "B"), None)
UseAAsB == Use(Abs(<<>>, "A"), "B")
UseAll  == [k |-> "wildcard", ns |-> Ns(<<"A">>, TRUE)]

\* Heads of sources: a magic comment up to the end of its line, and text.
Magic(gap, value, rest) == <<"#">> \o gap \o <<"resolve-type-names", ":", " ", value>> \o rest
Off    == Magic(<<" ">>, "false", <<"\n">>)
OffCr  == Magic(<<" ">>, "false", <<"\r", "\n">>)
Near == {Magic(<<>>, "false", <<"\n">>), Magic(<<" ">>, "true", <<"\n">>),
         Magic(<<" ">>, "false", <<"x", "\n">>), Magic(<<" ">>, "false", <<" ", "\n">>),
         <<"#", " ", "resolve-type-names", ":", "false", "\n">>,
         <<"#", "x", "\n">> \o Off, <<"\n">> \o Off, OffCr}

Source(head, uses, ds) == [head |-> head, uses |-> uses, decls |-> ds]

OneSource  == {<<Source(<<>>, uses, <<d, e, f>>)>> :
                 uses \in {<<>>, <<UseAll>>}, d, e, f \in MCPool}
TwoSources == {<<Source(head, <<>>, <<d>>), Source(<<>>, uses, <<e, Global("B", To(B))>>)>> :
                 head \in {<<>>, Off}, uses \in {<<UseB>>, <<UseAll, UseAAsB>>, <<UseAAsB, UseAll>>},
                 d, e \in MCPool}
Commented  == {<<Source(head, <<UseAll>>, <<Nesting>>), Source(<<>>, <<>>, <<Global("B", To(B))>>)>> :
                 head \in Near}

MCPrograms == OneSource \cup TwoSources \cup Commented

MCFilters == {None, {Abs(<<>>, "A")}, {Abs(<<>>, "B"), Abs(<<>>, "t")}}

\* Use directives whose targets are written without the leading ::, and a
\* class in which such a target is hidden by another class.
Hiding == Class(A, <<>>, <<>>, <<Class(A, <<>>, <<>>, <<>>), Attribute(To(B))>>)

RelativeUsePrograms ==
  {<<Source(<<>>, <<use>>, <<Hiding>>)>> :
     use \in {Use(A, "B"), [k |-> "wildcard", ns |-> Ns(<<"A">>, FALSE)]}}

\* Types written with arguments to singleton(...).
SingletonPrograms ==
  {<<Source(<<>>, <<>>, <<Class(A, <<>>, <<>>, <<>>),
                           Constant(B, Single(A, <<To(n)>>))>>)>> :
     n \in {A, B, E}}

\* The nodes of all these programs.
RECURSIVE Within(_)
Within(n) == {n} \cup UNION {UNION {Within(n[f][i]) : i \in DOMAIN n[f]} : f \in Fields[n.k]}

MCNodes == UNION {Within(d) : d \in MCPool \cup {Global("B", To(B)), Hiding}}

SingletonNodes == MCNodes \cup UNION {Within(Constant(B, Single(A, <<To(n)>>))) : n \in {A, B, E}}

MCDepth[n \in Nodes] ==
  LET below == UNION {Range(n[f]) : f \in Fields[n.k]}
  IN  IF below = {} THEN 0 ELSE Max({MCDepth[m] : m \in below}) + 1

=============================================================================
