-------------------------- MODULE EnvironmentLoader --------------------------
(***************************************************************************)
(* EnvironmentLoader of ext/librbs/src/lib.rs with                         *)
(* lib/librbs/patches/environment_loader.rb: the directories and libraries *)
(* added so far stand behind a mutex; add, libs, each_dir and load are     *)
(* native methods that call back into Ruby.  A Ruby thread runs while it   *)
(* holds the global VM lock and may lose it whenever Ruby code runs, but   *)
(* not while native code waits for the mutex.                              *)
(***************************************************************************)
EXTENDS Naturals, Sequences

CONSTANTS
  Threads,      \* Ruby threads sharing a loader
  Dirs,         \* directories that may be added
  LibNames,     \* names of libraries
  Versions,     \* versions asked for, besides none
  DependsOn,    \* DependsOn[n]: what the sources say n depends on
  Adds,         \* what is added from outside: records [lib, deps]
  Known,        \* libraries that gem_sig_path or the repository finds
  HasCore,      \* whether there is a core_root
  StringIO,     \* the library load adds by itself
  MayRaise,     \* whether Ruby code may raise
  MaxCalls,     \* bound: calls made from outside
  MaxDepth,     \* bound: nested calls of a thread
  None

Libs == [name : LibNames, version : Versions \cup {None}]

ASSUME LibrariesAssumption ==
  /\ DependsOn \in [LibNames -> Seq(LibNames)]
  /\ StringIO \in LibNames /\ Known \subseteq Libs
  /\ Adds \subseteq [lib : Libs, deps : BOOLEAN]
  /\ HasCore \in BOOLEAN /\ MayRaise \in BOOLEAN

ASSUME BoundsAssumption == MaxCalls \in Nat /\ MaxDepth \in Nat

ASSUME NoneAssumption == None \notin Threads

VARIABLES
  gvl,          \* the thread that runs
  lock,         \* the thread that holds the mutex of additions, or None
  dirs, libs,   \* additions
  stack,        \* calls each thread is in, innermost last
  calls,        \* calls made from outside so far
  past,         \* every value additions had (to state properties)
  owed,         \* libraries added together with their dependencies
  cutShort,     \* those of them whose dependencies an exception kept out
  loaded        \* the last environment loaded: [specs, since], or None

additions == <<dirs, libs, past>>
record    == <<calls, owed, cutShort, loaded>>
vars      == <<gvl, lock, additions, stack, record>>

Members(s) == {s[i] : i \in DOMAIN s}

\* resolve_library_dir: a directory needs no lookup.
Found(x) == x \in Libs => x \in Known

\* A call: the method, its argument, where it is, what it has still to deal
\* with, its snapshot of additions, and the number of values they had had
\* when it began.
Frame(op, arg, at) ==
  [op |-> op, arg |-> arg, at |-> at, todo |-> <<>>, dirs |-> <<>>, libs |-> <<>>,
   since |-> Len(past)]

AddCall(lib, deps) == Frame("add", [lib |-> lib, deps |-> deps], "lock")
LoadCall == Frame("load", None, IF HasCore THEN "libs" ELSE "lock")

Running(t)  == gvl = t /\ stack[t] # <<>>
Top(t)      == stack[t][Len(stack[t])]
At(t, op, pc) == Running(t) /\ Top(t).op = op /\ Top(t).at = pc

Below(t)    == SubSeq(stack[t], 1, Len(stack[t]) - 1)
Become(t, f)     == stack' = [stack EXCEPT ![t] = Append(Below(t), f)]
Pop(t)           == stack' = [stack EXCEPT ![t] = Below(t)]
PushOn(t, f, g)  == /\ Len(stack[t]) < MaxDepth
                    /\ stack' = [stack EXCEPT ![t] = Append(Append(Below(t), f), g)]

\* Locking the mutex needs it to be free; the critical sections of all
\* methods but libs run no Ruby code and are a single step.
Enters(t, op) == At(t, op, "lock") /\ lock = None

\* The calls that are left in place: up to a block of each_dir, which rescues
\* the exception or breaks off the each_dir above it, or none.
Handlers(t) == {0} \cup {n \in 1 .. Len(stack[t]) - 1 : stack[t][n].at = "block"}

\* The adds above the first n calls.
Abandoned(t, n) ==
  {stack[t][i].arg.lib :
     i \in {j \in n + 1 .. Len(stack[t]) : stack[t][j].op = "add" /\ stack[t][j].at = "deps"}}

UnwindLocked(t) == \* mutant: the exception keeps the mutex
  \E n \in Handlers(t) :
    /\ stack' = [stack EXCEPT ![t] = SubSeq(@, 1, n)]
    /\ lock'  = lock
    /\ cutShort' = cutShort \cup Abandoned(t, n)
    /\ UNCHANGED <<gvl, additions, calls, owed, loaded>>

\* An exception leaves the calls of the thread above where it is handled;
\* guards are dropped.
Unwind(t) ==
  \E n \in Handlers(t) :
    /\ stack' = [stack EXCEPT ![t] = SubSeq(@, 1, n)]
    /\ lock'  = IF lock = t THEN None ELSE lock
    /\ cutShort' = cutShort \cup Abandoned(t, n)
    /\ UNCHANGED <<gvl, additions, calls, owed, loaded>>

-----------------------------------------------------------------------------
(* Threads and calls.                                                      *)

Blocked(t) == stack[t] # <<>> /\ Top(t).at = "blocked"

\* Ruby may switch threads wherever Ruby code runs.
Switch(t) ==
  /\ gvl # t
  /\ ~Blocked(gvl)
  /\ gvl' = t
  /\ UNCHANGED <<lock, additions, stack, record>>

\* Calls from the program, or from the block of each_dir: add(path:),
\* add(library:), add_collection's add, libs, each_dir and load.
Requests ==
  {Frame("path", d, "lock") : d \in Dirs}
    \cup {AddCall(a.lib, a.deps) : a \in Adds}
    \cup {Frame("libs", None, "lock"), Frame("each_dir", None, "lock"), LoadCall}

Request(t, f) ==
  /\ gvl = t
  /\ stack[t] = <<>> \/ At(t, "each_dir", "block")
  /\ calls < MaxCalls /\ Len(stack[t]) < MaxDepth
  /\ calls' = calls + 1
  /\ stack' = [stack EXCEPT ![t] = Append(@, f)]
  /\ UNCHANGED <<gvl, lock, additions, owed, cutShort, loaded>>

\* lock() waits without releasing the global VM lock.
Block(t) ==
  /\ Running(t) /\ Top(t).at = "lock" /\ lock # None
  /\ Become(t, [Top(t) EXCEPT !.at = "blocked"])
  /\ UNCHANGED <<gvl, lock, additions, record>>

Raise(t) ==
  /\ MayRaise
  /\ Running(t) /\ ~Blocked(t)
  /\ Unwind(t)

-----------------------------------------------------------------------------
(* add                                                                     *)

AddPath(t) ==
  /\ Enters(t, "path")
  /\ dirs' = Append(dirs, Top(t).arg)
  /\ past' = Append(past, [dirs |-> dirs', libs |-> libs])
  /\ Pop(t)
  /\ UNCHANGED <<gvl, lock, libs, record>>

AddAgain(t) == \* mutant: a library that is there already is added again
  /\ Enters(t, "add")
  /\ LET a == Top(t).arg
     IN  /\ libs' = Append(libs, a.lib)
         /\ past' = Append(past, [dirs |-> dirs, libs |-> libs'])
         /\ owed' = IF a.deps THEN owed \cup {a.lib} ELSE owed
         /\ IF a.deps
            THEN Become(t, [Top(t) EXCEPT !.at = "deps", !.todo = DependsOn[a.lib.name]])
            ELSE Pop(t)
  /\ UNCHANGED <<gvl, lock, dirs, calls, cutShort, loaded>>

AddedByName(t) == \* mutant: a library counts as present under any version
  /\ Enters(t, "add")
  /\ LET a == Top(t).arg
     IN  IF \E l \in Members(libs) : l.name = a.lib.name
         THEN Pop(t) /\ UNCHANGED <<libs, past, owed>>
         ELSE /\ libs' = Append(libs, a.lib)
              /\ past' = Append(past, [dirs |-> dirs, libs |-> libs'])
              /\ owed' = IF a.deps THEN owed \cup {a.lib} ELSE owed
              /\ IF a.deps
                 THEN Become(t, [Top(t) EXCEPT !.at = "deps", !.todo = DependsOn[a.lib.name]])
                 ELSE Pop(t)
  /\ UNCHANGED <<gvl, lock, dirs, calls, cutShort, loaded>>

\* add_library, then, if the library is new, resolve_dependencies.
AddLibrary(t) ==
  /\ Enters(t, "add")
  /\ LET a == Top(t).arg
     IN  IF a.lib \in Members(libs)
         THEN Pop(t) /\ UNCHANGED <<libs, past, owed>>
         ELSE /\ libs' = Append(libs, a.lib)
              /\ past' = Append(past, [dirs |-> dirs, libs |-> libs'])
              /\ owed' = IF a.deps THEN owed \cup {a.lib} ELSE owed
              /\ IF a.deps
                 THEN Become(t, [Top(t) EXCEPT !.at = "deps", !.todo = DependsOn[a.lib.name]])
                 ELSE Pop(t)
  /\ UNCHANGED <<gvl, lock, dirs, calls, cutShort, loaded>>

AddLatestDependency(t) == \* mutant: the version looked up is asked for
  /\ At(t, "add", "deps") /\ Top(t).todo # <<>>
  /\ PushOn(t, [Top(t) EXCEPT !.todo = Tail(@)],
               AddCall([name |-> Head(Top(t).todo), version |-> "latest"], TRUE))
  /\ UNCHANGED <<gvl, lock, additions, record>>

\* The next dependency, added in turn with its own dependencies.
AddDependency(t) ==
  /\ At(t, "add", "deps") /\ Top(t).todo # <<>>
  /\ PushOn(t, [Top(t) EXCEPT !.todo = Tail(@)],
               AddCall([name |-> Head(Top(t).todo), version |-> None], TRUE))
  /\ UNCHANGED <<gvl, lock, additions, record>>

AddReturn(t) ==
  /\ At(t, "add", "deps") /\ Top(t).todo = <<>>
  /\ Pop(t)
  /\ UNCHANGED <<gvl, lock, additions, record>>

-----------------------------------------------------------------------------
(* libs: a Library and a Set#<< per entry, with the mutex held.            *)

LibsLock(t) ==
  /\ Enters(t, "libs")
  /\ lock' = t
  /\ Become(t, [Top(t) EXCEPT !.at = "convert", !.todo = libs])
  /\ UNCHANGED <<gvl, additions, record>>

LibsConvert(t) ==
  /\ At(t, "libs", "convert") /\ Top(t).todo # <<>>
  /\ Become(t, [Top(t) EXCEPT !.todo = Tail(@), !.libs = Append(@, Head(Top(t).todo))])
  /\ UNCHANGED <<gvl, lock, additions, record>>

\* load goes on with the set: without stringio it adds it.
HasSome(set) == \* mutant: any library will do
  set # <<>>

HasStringIO(set) == \E l \in Members(set) : l.name = StringIO

LibsReturn(t) ==
  /\ At(t, "libs", "convert") /\ Top(t).todo = <<>>
  /\ lock' = None
  /\ LET below == Below(t)
         n     == Len(below)
     IN  stack' = [stack EXCEPT ![t] =
                     IF n > 0 /\ below[n].op = "load"
                     THEN [below EXCEPT ![n].at =
                             IF HasStringIO(Top(t).libs) THEN "lock" ELSE "stringio"]
                     ELSE below]
  /\ UNCHANGED <<gvl, additions, record>>

-----------------------------------------------------------------------------
(* each_dir: the core, every library, every directory of a snapshot.       *)

EachDirLock(t) ==
  /\ Enters(t, "each_dir")
  /\ Become(t, [Top(t) EXCEPT !.at = "next", !.libs = libs, !.dirs = dirs,
                  !.todo = (IF HasCore THEN <<None>> ELSE <<>>) \o libs \o dirs])
  /\ UNCHANGED <<gvl, lock, additions, record>>

EachDirYieldAgain(t) == \* mutant: the block gets the same directory again
  /\ At(t, "each_dir", "next") /\ Top(t).todo # <<>>
  /\ Found(Head(Top(t).todo))
  /\ Become(t, [Top(t) EXCEPT !.at = "block"])
  /\ UNCHANGED <<gvl, lock, additions, record>>

EachDirYield(t) ==
  /\ At(t, "each_dir", "next") /\ Top(t).todo # <<>>
  /\ Found(Head(Top(t).todo))
  /\ Become(t, [Top(t) EXCEPT !.at = "block", !.todo = Tail(@)])
  /\ UNCHANGED <<gvl, lock, additions, record>>

EachDirResume(t) ==
  /\ At(t, "each_dir", "block")
  /\ Become(t, [Top(t) EXCEPT !.at = "next"])
  /\ UNCHANGED <<gvl, lock, additions, record>>

EachDirReturn(t) ==
  /\ At(t, "each_dir", "next") /\ Top(t).todo = <<>>
  /\ Pop(t)
  /\ UNCHANGED <<gvl, lock, additions, record>>

-----------------------------------------------------------------------------
(* load                                                                    *)

LoadLibs(t) ==
  /\ At(t, "load", "libs")
  /\ PushOn(t, Top(t), Frame("libs", None, "lock"))
  /\ UNCHANGED <<gvl, lock, additions, record>>

LoadStringIO(t) ==
  /\ At(t, "load", "stringio")
  /\ PushOn(t, [Top(t) EXCEPT !.at = "lock"],
               AddCall([name |-> StringIO, version |-> None], TRUE))
  /\ UNCHANGED <<gvl, lock, additions, record>>

LoadLock(t) ==
  /\ Enters(t, "load")
  /\ Become(t, [Top(t) EXCEPT !.at = "lookup", !.todo = libs, !.libs = libs, !.dirs = dirs])
  /\ UNCHANGED <<gvl, lock, additions, record>>

LoadLookup(t) ==
  /\ At(t, "load", "lookup") /\ Top(t).todo # <<>>
  /\ Found(Head(Top(t).todo))
  /\ Become(t, [Top(t) EXCEPT !.todo = Tail(@)])
  /\ UNCHANGED <<gvl, lock, additions, record>>

\* The DirSpecs handed to discovery.
DirSpec(x, skip) == [of |-> x, skip_hidden |-> skip]

Specs(ds, ls) ==
  (IF HasCore THEN <<DirSpec(None, TRUE)>> ELSE <<>>)
    \o [i \in DOMAIN ls |-> DirSpec(ls[i], TRUE)]
    \o [i \in DOMAIN ds |-> DirSpec(ds[i], FALSE)]

LoadEndDirs(t) == \* mutant: the directories are read when the lookups are done
  /\ At(t, "load", "lookup") /\ Top(t).todo = <<>>
  /\ loaded' = [specs |-> Specs(dirs, Top(t).libs), since |-> Top(t).since]
  /\ Pop(t)
  /\ UNCHANGED <<gvl, lock, additions, calls, owed, cutShort>>

\* Discovery and parsing; the environment gets its handle.
LoadEnd(t) ==
  /\ At(t, "load", "lookup") /\ Top(t).todo = <<>>
  /\ loaded' = [specs |-> Specs(Top(t).dirs, Top(t).libs), since |-> Top(t).since]
  /\ Pop(t)
  /\ UNCHANGED <<gvl, lock, additions, calls, owed, cutShort>>

\* UnknownLibraryError, from each_dir and from load.
UnknownLibrary(t) ==
  /\ At(t, "each_dir", "next") \/ At(t, "load", "lookup")
  /\ Top(t).todo # <<>> /\ ~Found(Head(Top(t).todo))
  /\ Unwind(t)

-----------------------------------------------------------------------------
Init ==
  /\ gvl \in Threads
  /\ lock  = None
  /\ dirs  = <<>> /\ libs = <<>>
  /\ past  = <<[dirs |-> <<>>, libs |-> <<>>]>>
  /\ stack = [t \in Threads |-> <<>>]
  /\ calls = 0
  /\ owed  = {} /\ cutShort = {}
  /\ loaded = None

Run(t) ==
  \/ Block(t) \/ UnknownLibrary(t)
  \/ AddPath(t) \/ AddLibrary(t) \/ AddDependency(t) \/ AddReturn(t)
  \/ LibsLock(t) \/ LibsConvert(t) \/ LibsReturn(t)
  \/ EachDirLock(t) \/ EachDirYield(t) \/ EachDirResume(t) \/ EachDirReturn(t)
  \/ LoadLibs(t) \/ LoadStringIO(t) \/ LoadLock(t) \/ LoadLookup(t) \/ LoadEnd(t)

Next ==
  \E t \in Threads :
    \/ Switch(t) \/ Run(t) \/ Raise(t)
    \/ \E f \in Requests : Request(t, f)

\* Ruby lets every thread that waits for the global VM lock have it in turn,
\* and a thread that has it runs on.
Spec ==
  Init /\ [][Next]_vars
    /\ \A t \in Threads : SF_vars(Switch(t)) /\ SF_vars(Run(t))

-----------------------------------------------------------------------------
(* Properties.                                                             *)

Ops    == {"path", "add", "libs", "each_dir", "load"}
Points == {"lock", "blocked", "deps", "convert", "next", "block", "libs", "stringio", "lookup"}

Values == [dirs : Seq(Dirs), libs : Seq(Libs)]

TypeOK ==
  /\ gvl \in Threads /\ lock \in Threads \cup {None}
  /\ dirs \in Seq(Dirs) /\ libs \in Seq(Libs)
  /\ past \in Seq(Values) /\ past # <<>>
  /\ past[Len(past)] = [dirs |-> dirs, libs |-> libs]
  /\ owed \subseteq Members(libs) /\ cutShort \subseteq owed
  /\ \A t \in Threads : \A i \in DOMAIN stack[t] :
       LET f == stack[t][i]
       IN  /\ f.op \in Ops /\ f.at \in Points
           /\ f.op = "add" => f.arg.lib \in Libs
           /\ f.since \in 1 .. Len(past)

\* The set libs shows has no entry twice, whichever threads add what at the
\* same time and in whatever way dependencies lead back to one another.
LibsDistinct == \A i, j \in DOMAIN libs : libs[i] = libs[j] => i = j

\* The mutex is held across Ruby code by libs alone, as long as it builds its
\* set; an exception gives it back.
LockBelongsToLibs ==
  \A t \in Threads :
    lock = t <=> stack[t] # <<>> /\ Top(t).op = "libs" /\ Top(t).at = "convert"

\* A library added with its dependencies has them all, once its add is over
\* on the thread that inserted it and unless an exception cut that short:
\* also when several threads add what depends on each other, and although
\* the second add of a library returns without looking at dependencies.
Adding(l) ==
  \E t \in Threads : \E f \in Members(stack[t]) :
    f.op = "add" /\ f.at = "deps" /\ f.arg.lib = l

DependenciesFollow ==
  \A l \in owed \ cutShort : ~Adding(l) =>
    \A n \in Members(DependsOn[l.name]) : [name |-> n, version |-> None] \in Members(libs)

\* load and each_dir work on additions as they were at one moment after the
\* call, whatever is added while they call back into Ruby.
SnapshotIsOneMoment ==
  /\ \A t \in Threads : \A f \in Members(stack[t]) :
       f.at \in {"next", "block", "lookup"} =>
         \E k \in f.since .. Len(past) : past[k] = [dirs |-> f.dirs, libs |-> f.libs]
  /\ loaded # None =>
       \E k \in loaded.since .. Len(past) : loaded.specs = Specs(past[k].dirs, past[k].libs)

\* A loader with a core never loads an environment without stringio.
LoadsHaveStringIO ==
  loaded # None /\ HasCore =>
    \E i \in DOMAIN loaded.specs :
      loaded.specs[i].of \in Libs /\ loaded.specs[i].of.name = StringIO

\* Every call returns or raises, cycles of dependencies included, unless the
\* running thread waits for the mutex.
CallsReturn ==
  \A t \in Threads : stack[t] # <<>> ~> (stack[t] = <<>> \/ \E u \in Threads : Blocked(u))

\* What the comment in each_dir says of the mutex ("so we can drop the mutex
\* before yielding back to Ruby (which could otherwise re-enter our
\* methods)"): no method finds it taken by one that is in Ruby code.
NobodyBlocks == \A t \in Threads : ~Blocked(t)

=============================================================================
