----------------------------- MODULE Materializer -----------------------------
(***************************************************************************)
(* ext/librbs/src/materialize: every source is walked a third time to      *)
(* build the Ruby objects.  The names take what the driver recorded: a     *)
(* cursor runs over the entries of the declaration being built, and        *)
(* nothing but the order of the two walks ties an entry to its name.       *)
(***************************************************************************)
EXTENDS Driver

VARIABLES
  attached,     \* the environment has a Resolution
  directives,   \* the directives of the source
  index,        \* counter of declarations in the source
  slice,        \* DeclRef whose entries are read, None without entries
  cursor,       \* entries of the slice already taken
  made          \* the name object built last: [at, own, entry, name], or None

materializerVars == <<attached, directives, index, slice, cursor, made>>
vars == <<insertVars, driverVars, materializerVars>>

\* The order in which the materializer visits the fields of a node.  Unlike
\* the other two walks it builds the arguments of singleton(C).
BuildDeclOrder ==
  [class      |-> <<"params", "super", "members">>,
   module     |-> <<"params", "selfs", "members">>,
   interface  |-> <<"params", "members">>,
   typealias  |-> <<"params", "type">>,
   constant   |-> <<"type">>,
   global     |-> <<"type">>,
   classalias |-> <<"old">>]

BuildMemberOrder ==
  [method    |-> <<"overloads">>,
   attribute |-> <<"type">>,
   plain     |-> <<>>]

BuildMethodTypeOrder ==
  [overload |-> <<"params", "type", "block">>,
   block    |-> <<"type", "self">>,
   param    |-> <<"upper", "lower", "default">>]

BuildTypeOrder ==
  [ref       |-> <<"args">>,
   singleton |-> <<"args">>,
   group     |-> <<"types">>,
   proc      |-> <<"type", "block", "self">>,
   function  |-> <<"required", "optional", "rest", "trailing", "keywords",
                   "optkeywords", "restkeywords", "returns">>,
   leaf      |-> <<>>]

ReturnFirst == \* mutant: a function's return type is built before the rest
  [OrElse(OrElse(BuildDeclOrder, BuildMemberOrder),
          OrElse(BuildMethodTypeOrder, BuildTypeOrder))
     EXCEPT !.function = <<"returns">> \o SubSeq(@, 1, Len(@) - 1)]

MaterializerOrder ==
  OrElse(OrElse(BuildDeclOrder, BuildMemberOrder),
         OrElse(BuildMethodTypeOrder, BuildTypeOrder))

NoEntry == [at |-> <<>>, resolved |-> FALSE, name |-> None]

PullBeyond(item) == \* mutant: the entry after the cursor
  IF slice # None /\ cursor + 1 < Len(table[slice]) THEN table[slice][cursor + 2]
  ELSE NoEntry

\* pull_resolution, at the cursor.
Pull(item) ==
  IF slice # None /\ cursor < Len(table[slice]) THEN table[slice][cursor + 1]
  ELSE NoEntry

\* A declaration's own name is absolute as soon as there is a Resolution.
OwnName(item) == IF attached THEN FullName(item) ELSE item.node.name

EnterKeepingCursor(ref) == \* mutant: the cursor is not reset
  /\ slice'  = IF attached /\ ref \in DOMAIN table THEN ref ELSE None
  /\ cursor' = cursor

EnterDecl(ref) ==
  /\ slice'  = IF attached /\ ref \in DOMAIN table THEN ref ELSE None
  /\ cursor' = 0

Building == phase = "materialize" /\ work # <<>>

-----------------------------------------------------------------------------
\* materialize_all, on the resolved environment or on one never resolved.
StartMaterialize ==
  /\ phase \in {"loaded", "resolved"}
  /\ attached' = (phase = "resolved")
  /\ phase' = "materialize"
  /\ source' = 0 /\ work' = <<>>
  /\ UNCHANGED <<envVars, directives, index, slice, cursor, made>>

\* materialize_directives: the magic comment, then the use clauses as written.
Directives(src) == MagicDirective(src.head) \o src.uses

MaterializeSource ==
  /\ phase = "materialize" /\ work = <<>> /\ source < Len(program)
  /\ Enter(source + 1)
  /\ directives' = Directives(program[source + 1])
  /\ index' = 0
  /\ UNCHANGED <<phase, envVars, attached, slice, cursor, made>>

MaterializeDecl ==
  /\ Building /\ IsWalked(Head(work)) /\ IsDecl(Head(work).node)
  /\ LET item == Head(work)
     IN  /\ Expect(Found(item))
         /\ made' = [at |-> item.at, own |-> TRUE, entry |-> NoEntry,
                     name |-> IF item.node.k = "global" THEN None ELSE OwnName(item)]
         /\ work' = Children(item, MaterializerOrder)
                      \o <<Leave([slice |-> slice, cursor |-> cursor])>> \o Tail(work)
  /\ EnterDecl(DeclRef(index))
  /\ index' = index + 1
  /\ UNCHANGED <<source, envVars, attached, directives>>

FinishWithoutRestore == \* mutant: the cursor of the enclosing one is lost
  /\ Building /\ IsLeave(Head(work))
  /\ work'   = Tail(work)
  /\ made'   = None
  /\ UNCHANGED <<phase, source, envVars, attached, directives, index, slice, cursor>>

FinishDecl ==
  /\ Building /\ IsLeave(Head(work))
  /\ work'   = Tail(work)
  /\ slice'  = Head(work).leave.slice
  /\ cursor' = Head(work).leave.cursor
  /\ made'   = None
  /\ UNCHANGED <<phase, source, envVars, attached, directives, index>>

MaterializeName ==
  /\ Building /\ IsWalked(Head(work)) /\ Head(work).node.k \in NameKinds
  /\ Expect(Found(Head(work)))
  /\ LET item  == Head(work)
         entry == Pull(item)
     IN  /\ made' = [at |-> item.at, own |-> FALSE, entry |-> entry,
                     name |-> IF entry = NoEntry THEN item.node.name ELSE entry.name]
         /\ cursor' = IF entry = NoEntry THEN cursor ELSE cursor + 1
  /\ Descend(MaterializerOrder)
  /\ UNCHANGED <<source, envVars, attached, directives, index, slice>>

MaterializeNode ==
  /\ Building /\ IsWalked(Head(work))
  /\ ~IsDecl(Head(work).node) /\ Head(work).node.k \notin NameKinds
  /\ Descend(MaterializerOrder)
  /\ UNCHANGED <<phase, source, envVars, materializerVars>>

MaterializeEnd ==
  /\ phase = "materialize" /\ work = <<>> /\ source = Len(program)
  /\ phase' = "done"
  /\ UNCHANGED <<source, work, envVars, materializerVars>>

MaterializerInit ==
  /\ attached = FALSE
  /\ directives = <<>>
  /\ index    = 0
  /\ slice    = None
  /\ cursor   = 0
  /\ made     = None

MaterializerNext ==
  \/ StartMaterialize \/ MaterializeSource \/ MaterializeDecl \/ FinishDecl
  \/ MaterializeName \/ MaterializeNode \/ MaterializeEnd

=============================================================================
