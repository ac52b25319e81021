--------------------------- MODULE LazyEnvironment ---------------------------
(***************************************************************************)
(* lib/librbs/patches/environment.rb with resolve_type_names and           *)
(* materialize_all of ext/librbs/src/lib.rs: an RBS::Environment holds a   *)
(* handle to a core environment, and its Ruby side, @sources and the six   *)
(* Hashes, is filled on first access by handing every source to upstream's *)
(* add_source.  add_source is Ruby code: it reaches patched accessors      *)
(* again, other threads may run meanwhile, and it may raise.  A source     *)
(* counts as one unit, in @sources and in the Hashes alike.                *)
(***************************************************************************)
EXTENDS Naturals, Sequences

CONSTANTS
  Envs,         \* the RBS::Environment objects there may be
  Loaded,       \* the one from_loader returned
  Sources,      \* number of sources it was loaded from
  Threads,      \* Ruby threads
  Uses,         \* for each thread, the objects it may come to use
  MayRaise,     \* whether a call may end in an exception
  MaxDepth,     \* bound: nested calls of a thread
  None

ASSUME SourcesAssumption == Sources \in Nat /\ MaxDepth \in Nat
ASSUME LoadedAssumption  == Loaded \in Envs
ASSUME UsesAssumption    == Uses \in [Threads -> SUBSET Envs]
ASSUME NoneAssumption    == None \notin Envs \cup {"plain", "resolved"}

VARIABLES
  exists,       \* the objects handed out so far
  handle,       \* the core environment behind @__librbs_handle: "plain",
                \* "resolved" (with @__librbs_resolution), None when absent
  flag,         \* @__librbs_materialized
  sources,      \* what add_source was given: sequence of [index, as]
  stack,        \* calls each thread is in, innermost last
  seen,         \* the env an accessor or dup answered for last and the
                \* sources it showed, or None
  shared        \* history: environments that a thread called while another
                \* one was materializing them

vars == <<exists, handle, flag, sources, stack, seen, shared>>

\* A call of an accessor of env, or of initialize_copy for its copy: where
\* it is, the next source to add, and the handle it read.
Call(env, copy) == [env |-> env, copy |-> copy, at |-> "ensure", next |-> 1, as |-> None]

Top(t)     == stack[t][Len(stack[t])]
At(t, pc)  == stack[t] # <<>> /\ Top(t).at = pc
Goto(t, f) == stack' = [stack EXCEPT ![t][Len(stack[t])] = f]
Pop(t)     == stack' = [stack EXCEPT ![t] = SubSeq(@, 1, Len(@) - 1)]
Push(t, f) == stack' = [stack EXCEPT ![t] = Append(@, f)]

\* The calls all threads are in.
Frames == UNION {{stack[t][i] : i \in DOMAIN stack[t]} : t \in Threads}

\* g is a new object; which of the unused ones does not matter.
Fresh(t, g) ==
  LET unused == Uses[t] \ (exists \cup {f.copy : f \in Frames})
  IN  unused # {} /\ g = CHOOSE h \in unused : TRUE

\* Thread t calls e while another is in a call of it, and e is not settled.
Settled(t, e) ==
  \A u \in Threads \ {t} : \A i \in DOMAIN stack[u] :
    stack[u][i].env = e => flag[e] /\ stack[u][i].at \in {"ensure", "materialize", "return"}

CopiesOf(e) == {f.copy : f \in {c \in Frames : c.env = e /\ c.copy # None}}

\* What is made from a shared environment is shared from the start.
MadeFrom(e, new, now) == IF e \in now THEN now \cup new ELSE now \ new

Share(t, e, copy) ==
  shared' = MadeFrom(e, copy, IF Settled(t, e) THEN shared
                              ELSE shared \cup {e} \cup CopiesOf(e))

-----------------------------------------------------------------------------
(* Calls from outside.                                                     *)

Access(t, e) ==
  /\ stack[t] = <<>>
  /\ e \in exists \cap Uses[t]
  /\ Push(t, Call(e, None))
  /\ Share(t, e, {})
  /\ UNCHANGED <<exists, handle, flag, sources, seen>>

\* dup: the VM copies the instance variables, then calls initialize_copy,
\* which first materializes the original.
Dup(t, e, g) ==
  /\ stack[t] = <<>>
  /\ e \in exists \cap Uses[t] /\ Fresh(t, g)
  /\ handle' = [handle EXCEPT ![g] = handle[e]]
  /\ flag'   = [flag EXCEPT ![g] = flag[e]]
  /\ Push(t, Call(e, g))
  /\ Share(t, e, {g})
  /\ UNCHANGED <<exists, sources, seen>>

ResolveInPlace(t, e, g) == \* mutant: the resolution goes to the original too
  /\ stack[t] = <<>>
  /\ e \in exists \cap Uses[t] /\ handle[e] # None /\ Fresh(t, g)
  /\ exists' = exists \cup {g}
  /\ handle' = [handle EXCEPT ![g] = "resolved", ![e] = "resolved"]
  /\ flag'   = [flag EXCEPT ![g] = FALSE]
  /\ shared' = shared \ {g}
  /\ UNCHANGED <<sources, stack, seen>>

\* The native resolve_type_names: a clone of the core environment behind a
\* new object.  It runs without giving up the GVL until the object is made.
ResolveTypeNames(t, e, g) ==
  /\ stack[t] = <<>>
  /\ e \in exists \cap Uses[t] /\ handle[e] # None /\ Fresh(t, g)
  /\ exists' = exists \cup {g}
  /\ handle' = [handle EXCEPT ![g] = "resolved"]
  /\ flag'   = [flag EXCEPT ![g] = FALSE]
  /\ shared' = shared \ {g}
  /\ UNCHANGED <<sources, stack, seen>>

\* Without a handle upstream's own resolve_type_names rebuilds every source.
ResolveUpstream(t, e, g) ==
  /\ stack[t] = <<>>
  /\ e \in exists \cap Uses[t] /\ handle[e] = None /\ Fresh(t, g)
  /\ exists'  = exists \cup {g}
  /\ handle'  = [handle EXCEPT ![g] = None]
  /\ flag'    = [flag EXCEPT ![g] = FALSE]
  /\ sources' = [sources EXCEPT ![g] =
                   [i \in DOMAIN sources[e] |-> [index |-> sources[e][i].index,
                                                 as    |-> "resolved"]]]
  /\ shared'  = MadeFrom(e, {g}, shared)
  /\ UNCHANGED <<stack, seen>>

-----------------------------------------------------------------------------
(* What a call does, step by step.                                         *)

EnsureMaterialized(t) ==
  /\ At(t, "ensure")
  /\ LET e == Top(t).env
     IN  Goto(t, [Top(t) EXCEPT !.at = IF flag[e] \/ handle[e] = None
                                       THEN "return" ELSE "materialize"])
  /\ UNCHANGED <<exists, handle, flag, sources, seen, shared>>

\* materialize_all tests the flag once more and reads the handle.
MaterializeAll(t) ==
  /\ At(t, "materialize")
  /\ LET e == Top(t).env
     IN  Goto(t, IF flag[e] THEN [Top(t) EXCEPT !.at = "return"]
                 ELSE [Top(t) EXCEPT !.at = "classes", !.as = handle[e]])
  /\ UNCHANGED <<exists, handle, flag, sources, seen, shared>>

SetFlagLast(t) == \* mutant: the flag is not set before the first call
  /\ At(t, "classes")
  /\ Goto(t, [Top(t) EXCEPT !.at = "add"])
  /\ UNCHANGED <<exists, handle, flag, sources, seen, shared>>

\* ClassRefs::resolve evaluates Ruby constants, then the flag is set.
SetFlag(t) ==
  /\ At(t, "classes")
  /\ flag' = [flag EXCEPT ![Top(t).env] = TRUE]
  /\ Goto(t, [Top(t) EXCEPT !.at = "add"])
  /\ UNCHANGED <<exists, handle, sources, seen, shared>>

AddPastEnd(t) == \* mutant: one source too many
  /\ At(t, "add") /\ Top(t).next <= Sources + 1
  /\ Len(stack[t]) < MaxDepth
  /\ stack' = [stack EXCEPT ![t] =
                 Append([@ EXCEPT ![Len(@)].at = "index"], Call(Top(t).env, None))]
  /\ UNCHANGED <<exists, handle, flag, sources, seen, shared>>

\* add_source, which calls an accessor of the same environment first.
AddSource(t) ==
  /\ At(t, "add") /\ Top(t).next <= Sources
  /\ Len(stack[t]) < MaxDepth
  /\ stack' = [stack EXCEPT ![t] =
                 Append([@ EXCEPT ![Len(@)].at = "index"], Call(Top(t).env, None))]
  /\ UNCHANGED <<exists, handle, flag, sources, seen, shared>>

IndexSource(t) ==
  /\ At(t, "index")
  /\ LET f == Top(t)
     IN  /\ sources' = [sources EXCEPT ![f.env] =
                          Append(@, [index |-> f.next, as |-> f.as])]
         /\ Goto(t, [f EXCEPT !.at = "add", !.next = @ + 1])
  /\ UNCHANGED <<exists, handle, flag, seen, shared>>

MaterializeEnd(t) ==
  /\ At(t, "add") /\ Top(t).next > Sources
  /\ Goto(t, [Top(t) EXCEPT !.at = "return"])
  /\ UNCHANGED <<exists, handle, flag, sources, seen, shared>>

\* super(): the instance variables as they are now.
Return(t) ==
  /\ At(t, "return") /\ Top(t).copy = None
  /\ Pop(t)
  /\ seen' = IF Len(stack[t]) > 1 THEN seen
             ELSE [env |-> Top(t).env, sources |-> sources[Top(t).env]]
  /\ UNCHANGED <<exists, handle, flag, sources, shared>>

CopyWithHandle(t) == \* mutant: the copy is not cut off from the handle
  /\ At(t, "return") /\ Top(t).copy # None
  /\ Pop(t)
  /\ sources' = [sources EXCEPT ![Top(t).copy] = sources[Top(t).env]]
  /\ exists'  = exists \cup {Top(t).copy}
  /\ seen'    = [env |-> Top(t).copy, sources |-> sources[Top(t).env]]
  /\ UNCHANGED <<handle, flag, shared>>

\* The rest of initialize_copy: upstream copies the Hashes, then the copy
\* loses the handle it was given.
ReturnCopy(t) ==
  /\ At(t, "return") /\ Top(t).copy # None
  /\ LET g == Top(t).copy
     IN  /\ sources' = [sources EXCEPT ![g] = sources[Top(t).env]]
         /\ exists'  = exists \cup {g}
         /\ handle'  = [handle EXCEPT ![g] = None]
         /\ flag'    = [flag EXCEPT ![g] = @ \/ handle[g] # None]
         /\ seen'    = [env |-> g, sources |-> sources[Top(t).env]]
  /\ Pop(t)
  /\ UNCHANGED shared

\* An exception unwinds the thread out of all its calls.
Raise(t) ==
  /\ MayRaise
  /\ stack[t] # <<>> /\ Top(t).at # "return"
  /\ stack' = [stack EXCEPT ![t] = <<>>]
  /\ UNCHANGED <<exists, handle, flag, sources, seen, shared>>

-----------------------------------------------------------------------------
Init ==
  /\ exists  = {Loaded}
  /\ handle  = [e \in Envs |-> IF e = Loaded THEN "plain" ELSE None]
  /\ flag    = [e \in Envs |-> FALSE]
  /\ sources = [e \in Envs |-> <<>>]
  /\ stack   = [t \in Threads |-> <<>>]
  /\ seen    = None
  /\ shared  = {}

Run(t) ==
  \/ EnsureMaterialized(t) \/ MaterializeAll(t) \/ SetFlag(t)
  \/ AddSource(t) \/ IndexSource(t) \/ MaterializeEnd(t)
  \/ Return(t) \/ ReturnCopy(t)

Next ==
  \E t \in Threads :
    \/ Run(t) \/ Raise(t)
    \/ \E e \in Envs : Access(t, e)
    \/ \E e, g \in Envs :
         Dup(t, e, g) \/ ResolveTypeNames(t, e, g) \/ ResolveUpstream(t, e, g)

\* A thread inside a call runs on: Ruby schedules its threads in turn.
Spec == Init /\ [][Next]_vars /\ \A t \in Threads : WF_vars(Run(t))

-----------------------------------------------------------------------------
(* Properties.                                                             *)

Handles == {"plain", "resolved"}

TypeOK ==
  /\ exists \subseteq Envs
  /\ handle \in [Envs -> Handles \cup {None}]
  /\ flag \in [Envs -> BOOLEAN]
  /\ sources \in [Envs -> Seq([index : 1 .. Sources, as : Handles])]
  /\ \A t \in Threads : \A i \in DOMAIN stack[t] :
       /\ stack[t][i].env \in exists
       /\ stack[t][i].at \in {"ensure", "materialize", "classes", "add", "index", "return"}
       /\ stack[t][i].next \in 1 .. Sources + 1

\* add_source is called at most once per source and in order, on re-entry, on
\* copies and after an exception too: materialize_all is idempotent because
\* the flag is set before the first call, and initialize_copy cuts the copy
\* off from the handle.
EachSourceOnce ==
  \A e \in exists \ shared : \A i \in DOMAIN sources[e] : sources[e][i].index = i

\* An accessor reached from add_source does not materialize again: a thread
\* is never more than two calls deep.
ReentryIsShallow == \A t \in Threads : Len(stack[t]) <= 2

\* Resolving leaves the original as it was: an environment that was loaded
\* shows names as written, one that was resolved shows them resolved, never
\* a mixture ("identical to upstream's self-is-unchanged contract").
OriginalStaysUnresolved ==
  \A e \in exists : \A i \in DOMAIN sources[e] :
    /\ sources[e][i].as = IF e = Loaded THEN "plain" ELSE sources[e][1].as
    /\ handle[e] # None => sources[e][i].as = handle[e]

\* What an accessor or dup has answered is final: whatever is copied,
\* resolved or read afterwards, the environment never grows or changes
\* behind a caller that has its Hashes (the memoized Hash of
\* docs/design.md 2.5; initialize_copy severs the copy for this).
AnswersAreFinal ==
  seen # None /\ seen.env \notin shared => sources[seen.env] = seen.sources

\* Every call returns or raises.
CallsReturn == \A t \in Threads : stack[t] # <<>> ~> stack[t] = <<>>

\* What docs/design.md 2.5 says ("the first call ... materializes all six
\* Hashes at once", "subsequent calls return the memoized Hash"): no
\* accessor returns Hashes that lack a source.
AccessorsAreComplete == seen # None => Len(seen.sources) = Sources

=============================================================================
