-------------------------------- MODULE Insert --------------------------------
(***************************************************************************)
(* crates/librbs-core/src/env.rs (from_paths, after parsing) and           *)
(* env/insert.rs: the sources are walked one after the other, every        *)
(* declaration is registered under its absolute name and every name below  *)
(* it is interned, so that the later walks can do with lookups.            *)
(***************************************************************************)
EXTENDS Syntax

CONSTANT Programs   \* the sequences of sources to load

ASSUME ProgramsAssumption ==
  \A p \in Programs :
    /\ p \in Seq(Sources)
    /\ \A i \in DOMAIN p : \A j \in DOMAIN p[i].decls : IsDecl(p[i].decls[j])

VARIABLES
  phase,        \* "insert", "failed", "loaded", "resolve", "resolved",
                \* "materialize", "done" or "panicked"
  program,      \* the parsed sources
  source,       \* index of the source being walked, 0 before the first
  work,         \* items of that source still to be walked
  nss, tns,     \* interned namespaces and type names
  decls,        \* partial function: absolute name to its entry
  globals       \* names of global variables

walkVars   == <<phase, source, work>>
envVars    == <<program, nss, tns, decls, globals>>
insertVars == <<walkVars, envVars>>

\* The order in which insert visits the fields of a node.
InsertDeclOrder ==
  [class      |-> <<"params", "super", "members">>,
   module     |-> <<"params", "selfs", "members">>,
   interface  |-> <<"params", "members">>,
   typealias  |-> <<"params", "type">>,
   constant   |-> <<"type">>,
   global     |-> <<"type">>,
   classalias |-> <<"old">>]

InsertMemberOrder ==
  [method    |-> <<"overloads">>,
   attribute |-> <<"type">>,
   plain     |-> <<>>]

InsertMethodTypeOrder ==
  [overload |-> <<"params", "type", "block">>,
   block    |-> <<"type", "self">>,
   param    |-> <<"upper", "lower", "default">>]

InsertTypeOrder ==
  [ref       |-> <<"args">>,
   singleton |-> <<>>,
   group     |-> <<"types">>,
   proc      |-> <<"type", "block", "self">>,
   function  |-> <<"required", "optional", "rest", "trailing", "keywords",
                   "optkeywords", "restkeywords", "returns">>,
   leaf      |-> <<>>]

InsertWithoutSelf == \* mutant: the self type of a block is forgotten
  [OrElse(OrElse(InsertDeclOrder, InsertMemberOrder),
          OrElse(InsertMethodTypeOrder, InsertTypeOrder))
     EXCEPT !.block = <<"type">>]

InsertOrder ==
  OrElse(OrElse(InsertDeclOrder, InsertMemberOrder),
         OrElse(InsertMethodTypeOrder, InsertTypeOrder))

Entry(item) ==
  IF item.node.k = "classalias"
  THEN [kind |-> "classalias", old |-> item.node.old[1].name, ctx |-> item.ctx]
  ELSE [kind |-> item.node.k]

ClashesUnlessScopes(item) == \* mutant: a class may be reopened as a module
  LET full == FullName(item)
  IN  full \in DOMAIN decls /\ ~(item.node.k \in Scopes /\ decls[full].kind \in Scopes)

\* A class may be declared again as a class, a module as a module; nothing
\* else may be declared twice.
Clashes(item) ==
  LET full == FullName(item)
  IN  full \in DOMAIN decls /\ ~(item.node.k \in Scopes /\ decls[full].kind = item.node.k)

Intern(item) ==
  /\ nss' = nss \cup NamespacesOf(item)
  /\ tns' = tns \cup NamesOf(item)

Enter(i) ==
  /\ source' = i
  /\ work'   = TopItems(i, program[i].decls)

\* expect("... pre-interned by insert"): the later walks panic on a miss.
Expect(found) == phase' = IF found THEN phase ELSE "panicked"

\* The first of the items in work is replaced by its children.
Descend(order) == work' = Children(Head(work), order) \o Tail(work)

-----------------------------------------------------------------------------
InsertSource ==
  /\ phase = "insert" /\ work = <<>> /\ source < Len(program)
  /\ Enter(source + 1)
  /\ UNCHANGED <<phase, envVars>>

InsertDecl ==
  /\ phase = "insert" /\ work # <<>> /\ IsDecl(Head(work).node)
  /\ Head(work).node.k # "global"
  /\ ~Clashes(Head(work))
  /\ LET item == Head(work) full == FullName(item)
     IN  /\ decls' = IF full \in DOMAIN decls THEN decls
                     ELSE Put(decls, full, Entry(item))
         /\ Intern(item)
  /\ Descend(InsertOrder)
  /\ UNCHANGED <<phase, source, program, globals>>

InsertGlobal ==
  /\ phase = "insert" /\ work # <<>> /\ Head(work).node.k = "global"
  /\ Head(work).node.var \notin globals
  /\ globals' = globals \cup {Head(work).node.var}
  /\ Descend(InsertOrder)
  /\ UNCHANGED <<phase, source, program, nss, tns, decls>>

\* Error::DuplicatedDeclaration: `?` passes it up to from_paths and the
\* environment is dropped.
InsertDuplicate ==
  /\ phase = "insert" /\ work # <<>> /\ IsDecl(Head(work).node)
  /\ IF Head(work).node.k = "global" THEN Head(work).node.var \in globals
     ELSE Clashes(Head(work))
  /\ phase' = "failed"
  /\ work' = <<>>
  /\ UNCHANGED <<source, envVars>>

InsertNode ==
  /\ phase = "insert" /\ work # <<>> /\ ~IsDecl(Head(work).node)
  /\ Intern(Head(work))
  /\ Descend(InsertOrder)
  /\ UNCHANGED <<phase, source, program, decls, globals>>

InsertEnd ==
  /\ phase = "insert" /\ work = <<>> /\ source = Len(program)
  /\ phase' = "loaded"
  /\ UNCHANGED <<source, work, envVars>>

InsertInit ==
  /\ phase   = "insert"
  /\ program \in Programs
  /\ source  = 0
  /\ work    = <<>>
  /\ nss     = {EmptyRelative, RootAbsolute}
  /\ tns     = {}
  /\ decls   = [n \in {} |-> None]
  /\ globals = {}

InsertNext ==
  \/ InsertSource \/ InsertDecl \/ InsertGlobal \/ InsertDuplicate
  \/ InsertNode \/ InsertEnd

=============================================================================
