# A TLA+ model of librbs

librbs loads RBS signatures, resolves the type names in them and hands the result to Ruby. It is a
drop-in replacement for the slow part of the `rbs` gem: a Rust core (`crates/librbs-core`), a Ruby
extension (`ext/librbs`) and a few patches of `RBS::Environment` and `RBS::EnvironmentLoader`
(`lib/librbs/patches`). This directory models the parts of it that carry state and decisions, checks
them with TLC on small instances and proves the central properties with TLAPS.

Contents: 1 inventory; 2 modules and how they correspond to the code; 3 runs; 4 fairness; 5 proofs;
6 where code and comments disagree; 7 abstractions; 8 what is not modelled; 9 plan; 10 how to run.

## 1. Inventory

```
 RBS::EnvironmentLoader --load_env--> Discovery --> from_paths (parallel parse) --> Insert
        (Ruby, mutex)                                                                |
                                                                       CoreEnvironment, Interner
 RBS::Environment <-- handle -- materialize_all <-- Resolution <-- Driver -- Resolver + UseMap
   (Ruby, lazy)                     |
                               Materializer (reads AST, Interner, Resolution)
```

| component | state | operations | what makes it correct |
|---|---|---|---|
| Interner (`interner.rs`) | three tables (symbols, namespaces, type names), each `rev` and `map`; ids are indices into `rev` | intern, append, parent, join, with_prefix, to_namespace; read-only look-ups; clone | ids and values in bijection, no stored id out of range, an id never changes its meaning, a clone agrees with its origin |
| Type-name resolver (`resolver/type_name.rs`) | the set of declared names, the alias table, a cache, and per query a set `visited` and the recursion | build, resolve | an answer is a declaration, and is the one the name refers to; every query ends; an answer does not depend on what was asked before |
| Environment and insert (`env.rs`, `env/insert.rs`) | the interner, `class_decls`, `interface_decls`, ..., the sources | insert_rbs_source, a recursive walk over declarations; from_paths | a duplicate is an error in whatever order; every name below a declaration is interned |
| Use map (`env/use_map.rs`) | symbol -> type name; children of each namespace | build, single and wildcard clauses, resolve | a used name is rewritten at its head only, to what the last clause that brings it in means by it; targets ought to be absolute, and nothing makes them so (finding 4) |
| Driver (`resolver/driver.rs`, `env/resolution.rs`) | position in the walk, declaration counter, use map, the recorded names | resolve_type_names: walk every source, number the declarations, record one name per occurrence | what is recorded is what the later walk asks for |
| Materializer (`ext/.../materialize*.rs`) | cursor into the recorded names, counter, context | build the Ruby object of each declaration, taking one entry per name | in lockstep with the driver |
| Native handle (`ext/librbs/src/lib.rs`, `patches/environment.rb`) | per Ruby object: handle, flag, `@sources` and six Hashes | the patched accessors, dup, resolve_type_names, materialize_all, all re-entrant | sources are added once; an answer is complete and final; resolving a copy leaves the original alone |
| Environment loader (`lib.rs`, `environment_loader.rb`) | `dirs` and `libs` behind a mutex, `core_root` | add (with dependencies, recursively), libs, each_dir with a block, load | a library is there once and with its dependencies; a load sees one moment; the mutex is free whenever Ruby code runs; every call ends |
| File discovery and reading (`discovery.rs`, `env.rs`) | per walk: what is left, files found; per load: the first error | walks of all directories in parallel, sort, dedup, parallel read and parse | the answer is that of a sequential load, independent of threads and readdir; an error has its cause |
| Directives, magic comments (`directive.rs`, `driver.rs`) | the directives of a source | two hand-written matchers of one pattern, at different stages | they agree with each other and with upstream |
| Locations, FFI, parser bindings, sources | C memory | construction of Ruby objects | no control flow of their own |
| Gem entry (`lib/librbs.rb`) | none | require, fall back on LoadError | one branch |

How they interact. Insert, driver and materializer are three hand-written recursive walks over one
AST. Nothing in the data connects a recorded name with the place it was recorded for: the
materializer trusts that it visits names in the driver's order and numbers declarations alike. Insert
prepares the interner for both: later look-ups are read-only and end in `expect`. Driver and resolver
share the interner mutably: `use` directives and rewritten heads intern names between two queries
of the resolver, which caches. The core environment is shared by `Arc`; resolve_type_names works on a
clone. On the Ruby side materialize_all calls upstream's `add_source`, which calls the patched
accessors, which call materialize_all.

Hard behaviours: order and completeness across three walks; recursion through alias cycles with a
shared `visited`; a cache over a growing interner; ids that must keep their meaning across clones;
re-entry, exceptions and a second thread in the middle of materialization; `dup` copying half of the lazy
state; a mutex under a global VM lock, with call-backs into Ruby in between; parallel walks on a disk
that changes.
`PROJECT.json` lists them one by one ("hazards").

## 2. Modules

| module | models | notes |
|---|---|---|
| `Interner` | `interner.rs` | by id, with the width of an id; `Handles` are interners, one of which may be cloned from another |
| `InternerProofs` | | theorems about `Interner` |
| `Names` | names and contexts as values | what the ids stand for; used by all modules below, justified by `Interner!HashConsed` |
| `Scoping` | the reference: what a name refers to | a declarative definition, written without stack, cache or visited set: what aliases stand for is the least solution of the equations their right-hand sides are |
| `TypeNameResolver` | `resolver.rs`, `resolver/type_name.rs` | one action per step of the segment walk |
| `TypeNameResolverProofs` | | theorems about `TypeNameResolver` |
| `Syntax` | `node_kind.rs` and the AST | nodes as records; `Children(item, order)` lists what a walk visits below a node |
| `Insert` | `env/insert.rs` | extends `Syntax` |
| `Driver` | `driver.rs`, `use_map.rs`, `resolution.rs` | extends `Insert` |
| `Materializer` | `materialize*.rs` | extends `Driver` |
| `Pipeline` | the three composed | extends `Materializer`; the properties between walks |
| `SequenceProofs` | | lemmas about flattened sequences, folds and functions on trees |
| `PipelineProofs` | | types, interning and duplicates: theorems about `Pipeline` |
| `LockstepProofs` | | what the walks agree on and what names mean: theorems about `Pipeline` |
| `NameLookup` | what the driver relies on when it calls resolve | abstract specification: a query is answered in one step; `TypeNameResolver!IsLookup` is the refinement, `IsAnswered` the liveness |
| `MagicComment` | the pattern in `driver.rs` and in `directive.rs` | operators over token sequences; used by `Driver` and `Materializer` |
| `LazyEnvironment` | `patches/environment.rb`, `materialize_all`, `resolve_type_names` | calls as stacks per Ruby thread |
| `LazyEnvironmentProofs` | | theorems about `LazyEnvironment` |
| `EnvironmentLoader` | `EnvironmentLoader` of `lib.rs`, `patches/environment_loader.rb` | calls as stacks per Ruby thread, the mutex, the global VM lock |
| `EnvironmentLoaderProofs` | | theorems about `EnvironmentLoader` |
| `FileLoading` | what `load_env` relies on | abstract specification: one answer, as of a sequential load |
| `Discovery` | `discovery.rs`, the parallel part of `from_paths` | implements `FileLoading` (`IsSequentialLoad`) |
| `DiscoveryProofs` | | theorems about `Discovery` |
| `MC...` | | instances for TLC |

**Interner.** `symbols[h]`, `namespaces[h]`, `typeNames[h]` are the tables of interner `h`: `rev` is
the vector, `map` the hash map, id `i` sits at `rev[i+1]`. `Add` is the three-line body of `intern`
(look up, push, insert), and `NextId` cuts to the width of the id as the `as u32` casts do. A
namespace's path and a type name's three fields hold ids of the *same* interner. `Mutate(h)` is the
choice of a method call with arguments in range; `Share` and `Clone` are `Arc::new` and the
`env.interner.clone()` of resolve_type_names, after which the original is not mutated. `FrozenAppend`,
`FrozenJoin`, `FrozenParent` are the look-ups of the `&self` methods, None where the code's `?` returns.

**TypeNameResolver.** `all` and `aliases` are the fields of the Rust struct; `nss`, `tns` are what is
interned. A `Frame` of `stack` is one activation of the segment walk: the name, the context, the
namespace reached so far, the segments to do, and the alias it is normalising (None in the outermost).
`Step...` are the branches of the loop body, `ReturnAlias`, `ReturnClass`, `ReturnQualified` what
happens when a frame ends; `Fail` unwinds as `?` does. Every read of the interner goes
through `Frozen...`. `InternName` is the environment of the resolver: the driver interning use targets.

`Lookup` instantiates `NameLookup` with `query` for the pending query and the last `answer` as question
and result: the frames, `visited`, the cache and the interner are hidden. `NameLookup` answers with
`Scoping!Referent`, or with None for a qualified interface or alias name (finding 1), never touches the
declarations, and answers every query. `Scoping` finds what aliases stand for in rounds: in the first no alias
stands for anything, and in each further one an alias stands for what its right-hand side leads to given the round before
(`Better`). After one round per alias nothing changes any more (proved, `Settles`), and what stands for nothing then is
defined through itself or goes through a name that is not declared.

**Insert, Driver, Materializer.** A signature is a tree of nodes from the constant `Nodes`; `NodesAssumption`
says what a parser's trees look like (`IsNode`: fields hold sequences of nodes, declarations occur among the
members of classes and modules only), and `DepthAssumption` that a child is less deep than its parent: trees are
finite, which is why functions over them exist. `ProgramsAssumption` and `FiltersAssumption` say that the sources are
made of such nodes and that a filter is a set of names, `NoneAssumption` that None is no `DeclRef`. `work` is the list of items a walk has still to visit: a preorder
agenda that stands for the Rust call stack. An item is a node with its position `at` (source, then child
numbers) and context. Each module states the order of the fields of every node for *its* walk
(`InsertOrder`, `DriverOrder`, `MaterializerOrder`) from its own source file, so agreement between the
walks is checked and not built in. `table` is the Resolution: a sequence of entries for each
(source, declaration index); an entry carries, besides the name, the position it was recorded for. That
position is auxiliary: no guard reads it, `Lockstep` compares it. `slice`, `cursor` are the
`CursorState`; an `expect` that fails moves `phase` to `"panicked"`. `made` is the last name built.
The driver asks `Scoping!Referent` for the answer of the resolver, and keeps the answer in the resolver's `cache`, which
all sources share; `AnswersAreReferents` justifies it where names are interned, and the divergences are in the resolver's own runs.
`Pipeline` says what the three walks amount to. `Occurrences` are the items of all trees of the program, at any depth, each with the
context insert would visit it in; `Declarations` are the declarations among them. `DuplicatesAreErrors` compares loading with
a definition of a clash that knows no order. `NamesMeanReferents` compares the name of every object built from an entry with
`Scoping`, asked for what is meant by the name as written, in the context it is in (`Means`). What is meant (`Meant`) is stated
without the driver's `AddClause`, `UseMapOf` and `Mapped`: each clause, by itself, brings in some symbols (`Brought`), its target made absolute
first as `use_map.rs` requires of the caller; the last clause that brings in the first segment of a name decides,
and the other segments follow. Nothing of how the name got there, through use map, cache, table and cursor, occurs in
the property. A source has a `head`, the
tokens of its first lines: `SkipSource` asks `MagicComment!Disabled` (the driver's matcher, on the first
line), `MaterializeSource` puts `MagicDirective` (the matcher of `directive.rs`, on the whole text) at the
front of `directives`.

**LazyEnvironment.** `handle`, `flag` are the two instance variables, `sources` what `@sources` and the
Hashes were given. A call is on `stack[t]` with a program counter that stops wherever Ruby code runs:
before the flag is read, between reading and setting it, and in the loop before and after the effect of
`add_source`, which calls an accessor of the same environment first. `Raise` empties the stack at any of these
points. A thread may do anything to any environment in its `Uses`, also while another thread is in a call of
it. `shared` is a history variable: the environments that a thread entered while another one was in the
middle of materializing them, and the copies made from these. `EachSourceOnce` and `AnswersAreFinal` are
stated for all others, the other properties for all.

**EnvironmentLoader.** `gvl` is the thread that runs; `Switch` may happen before any step, as every point
between two steps of the model runs Ruby code. `lock` is the holder of the mutex. Critical sections
without Ruby code (`add_path`, `add_library`, the snapshots) are one step; `libs` takes the mutex in one step,
converts library by library and releases it in another. A thread that finds the mutex taken is
`"blocked"` and can neither run nor be switched away from, since `Mutex::lock` keeps the global VM lock.
`add` of a new library becomes a frame that walks its dependencies (`todo`), each of which is a call of
its own; `each_dir` hands one directory after the other to its block, from which any method may be
called (`Request` at `"block"`); `load` asks `libs`, adds stringio, takes a snapshot and looks the
libraries up. An exception (`Raise`, `UnknownLibrary`) unwinds the thread as a whole
or up to a block of `each_dir` that rescues it or breaks off, and drops a held guard (`Unwind`). `past`, `owed`, `cutShort`,
`since` are histories that properties need and no guard reads.

**Discovery.** Per DirSpec, `todo` holds the entries its walk has still to look at, a set because readdir
has no order, and `out` the files pushed; `over` holds the specs whose walk has ended; each entry is a step, so walks interleave with one another
and with `Change`, by which other programs create and delete files. The merge is one step, as it is
sequential and touches nothing shared; then files are read one by one in any order, and the first error stays in
`error`, from which on the pool may stop at any time (rayon's `collect` into a `Result`). A path is a sequence of segments
and `Rank` the order of the paths as text, by which `Sorted` is determined: no walk meets a file twice, which the proof shows. `FileLoading` knows only which files were there `always` or
`ever` during the load. It promises an answer, the files in order if it succeeds, and a cause if it
fails.

Definitions marked `\* mutant:` stand next to the one they vary. They belong to no specification;
substituting one must break the property that `PROJECT.json` pairs it with.

## 3. Runs

Every passing run also checks that all its actions occur. Sizes are distinct states.

| run | instance | what it shows |
|---|---|---|
| `interner` | 2 interners, 2 strings of two kinds, at most 2 symbols, 4 namespaces, 2 type names, paths up to 2, ids below 256; 388,864 states | `HashConsed`, `NoDanglingId`, `OneIdPerText`, `SplitRejoins`, `CloneAgrees`, action property `IdsStable` |
| `resolver` | 620 environments: 343 with up to 3 aliases of 6 right-hand sides, 277 with classes and interfaces nested in all well-placed ways and 1 or 2 references; 8 queries, 2 names interned at any time; 64,629 states | `ResolvesToDeclarations`, `VisitedIsPending`, `AnswersAreReferents`, and the refinement `IsLookup`, liveness `IsAnswered` |
| `pipeline` | 2,608 programs, 3 filters; 349,911 states | `Lockstep`, `SlicesUsedUp`, `EverythingInterned`, `RawOnlyWhereSkipped`, `DuplicatesAreErrors`, `NamesMeanReferents` |
| `lazy_environment` | 3 environments, 2 sources, 2 threads, calls nested up to 3, exceptions; 213,409 states | `EachSourceOnce`, `ReentryIsShallow`, `OriginalStaysUnresolved`, `AnswersAreFinal`, liveness `CallsReturn` |
| `environment_loader` | 2 threads, 1 directory, 2 libraries that depend on each other, 3 calls from outside, exceptions; 303,128 states | `LibsDistinct`, `LockBelongsToLibs`, `DependenciesFollow`, `SnapshotIsOneMoment`, `LoadsHaveStringIO`, liveness `CallsReturn` |
| `discovery` | 3 lists of overlapping specs, 3 disks of up to 5 files, bad files, an unreadable directory, 2 changes; 435,722 states | `LoadedFilesWereRead`, `ErrorsAreReal`, and the refinement `IsSequentialLoad`, liveness `IsAnswered` |

The other six runs expect a violation, one for each finding of section 6.

Why the bounds are enough.

- *Interner.* An operation touches at most two entries of one table, so a wrong duplicate, a wrong id or
  a dangling reference needs two entries at most. The two namespaces every interner starts with leave two
  more, which gives every one-segment path and a two-segment one of each kind. Two interners are an original
  and its clone; for longer chains of clones there is the proof. `IdLimit` stays above the table bounds:
  the code has no check, and an interner of 2^32 entries does not fit into memory. `MaxSymbols`,
  `MaxNamespaces`, `MaxTypeNames` cap the tables, `MaxPath` the arguments of one operation.
- *Resolver, aliases.* Two top-level aliases and one inside a class give self loops, cycles of two and
  three, chains, an alias reached through a cycle in its own tail, and an alias whose right-hand side
  goes through another (`D::C`). The three queries cover an unqualified name in a class, two aliases
  in the path and an absolute name. An environment is asked the queries whose names it has interned, in
  every order and any number of times, so every answer also occurs from the cache.
- *Resolver, qualified.* A two-segment path is the shortest for which the parent of the namespace
  matters. The names interned between queries are namespaces of the references.
- *Pipeline.* One source of three declarations or two sources of one and two, from a pool of ten
  declarations in which every node kind and every optional field occurs; one class carries a nested class
  between two members, which is the case the save and restore is for. With three declarations a skipped one
  can stand before, between and after resolved ones. Filters: none, one class, another
  class and a type alias; uses: none, wildcard, a single one, and a wildcard and a single one with `as` for the same symbol in both
  orders, so that it matters which is the last; their targets are absolute, so that finding 4 does not hide
  what else could go wrong.
  The magic comment is left out or written in nine ways: as intended, without a blank, with `true`, with text or a
  blank after the value, without a blank before the value, not at the start (twice) or before CR LF.
- *LazyEnvironment.* Two sources give a middle of the loop. Three objects: the original, a copy, a copy of
  a copy or a resolved one. `MaxDepth` 3 is one more than the depth that `ReentryIsShallow` allows,
  so the bound does not imply the property. The second thread works with the loaded environment only: it is where
  the two meet, and what either makes of it is a copy like any other.
- *EnvironmentLoader.* Two threads are enough for one to wait for the other. Three calls are two that meet
  and one before or after them, or one from the block of an `each_dir`. csv and stringio depend on each
  other, so that dependencies form a cycle; csv comes with a version, too, which is another entry and one
  that cannot be found. `MaxDepth` 6 is the deepest nesting of three calls, so it cuts nothing off.
- *Discovery.* The files are in a directory, in a hidden one, in a dotted one, one is no signature, and one
  is named so that the order of paths is not the order of segments. The specs cover a directory
  twice with and without its hidden part, one below the other, a single file and a directory that does not
  exist. Two changes let a file come and go, or two walks see three disks.

`CHECK_DEADLOCK FALSE` stands where the system may stop: a table cap is reached, an environment in
which no query can be asked, a pipeline or a load that is done, a loader whose calls are used up or whose
running thread waits for the mutex (finding 6). `LazyEnvironment` has none: a Ruby program can always
call an accessor, and a state without a step would be a thread that waits for ever.

## 4. Fairness

- `TypeNameResolver!Spec` has `WF_vars(Walk)`: the walk is ordinary single-threaded Rust code, which goes
  on once called. Neither asking a query nor interning a name is fair.
- `LazyEnvironment!Spec` has `WF_vars(Run(t))` for each thread: Ruby schedules its threads, and a call
  that was entered goes on. Exceptions are not fair, and no call from outside is ever forced.

- `EnvironmentLoader!Spec` has `SF_vars(Switch(t))` and `SF_vars(Run(t))` for each thread: Ruby gives every thread that
  waits for the global VM lock its turn, and a thread runs for a while when it has it. Strong, because
  both are enabled only now and then: `Run(t)` only while `t` has the lock, `Switch(t)` only while it has
  not and the running thread is not blocked. Exceptions, calls from outside and calls from a block are not fair.
- `Discovery!Spec` has `WF_vars(Load)`: the threads of the pool go on until the load is over. Which of
  them goes on is open, and other programs are not fair.
- `NameLookup` and `FileLoading` state their liveness directly, as a formula (`Answered`), so that
  the refinement does not depend on how the detailed specifications get there. `TypeNameResolver` and `Discovery` refer to
  the two halves of such a `Spec` by a name each: `IsLookup` and `IsSequentialLoad`, which are also proved, and `IsAnswered`.

`Interner` and `Pipeline` state safety only and have no fairness.

## 5. Proofs

Checked by TLAPS for all values of the constants that satisfy the named assumptions.

**`InternerProofs`**: `Invariance`, `TypeCorrect`, `HashConsing`, `NoDangling`, `TextDeterminesId`,
`Rejoining`, `ClonesAgree`, `StableIds`. Assumptions: the handle of the original is a handle; `None` is no id; the kind of each string
is one of three; the caps are at most the id's width (`WidthAssumption`, the one thing the code
leaves unchecked). The invariant `IInv` says that tables are well formed and bijective (`TablesOK`), that
entries refer into their own interner (`EntriesInRange`), that the kind of a type name follows from its
string, and that a clone extends its origin (`Cloned`). Bijectivity alone is not inductive: to append a
segment to a namespace needs the path to be in range, and `CloneAgrees` speaks of entries of *both*
interners, which match only because ids are never reassigned. `MutationGrows` shows that all operations are
one kind of step, growth of one interner; the invariant is then proved for growth once. `Rejoining` needs one more
invariant, `Rooted`: the two root namespaces stay where `new` put them, and whatever is in a table is found
by its value.

**`TypeNameResolverProofs`** (with `SequenceProofs`): `Invariance`, `TypeCorrect`, `AnswersAreDeclared`, `VisitedIsExact`, `Leading`,
`AnswersAreRight` and the refinement `LooksUp`. Assumptions: environments and queries have their types; one table holds classes and
aliases, so no name is both, and all declared names and the namespaces of all interned names are interned (`DeclarationsAssumption`;
`Pipeline!EverythingInterned` is about how they came there); there are finitely many aliases; `None` differs from all there is. Environments may be any
size, with any aliases, cycles included.

`IInv` adds two facts to the three properties: what a frame has reached so far is a
declaration (`ReachedIsDeclared`) and a waiting frame stands at the alias the frame above it normalises
(`BelowIsWaiting`); without them the result of `ReturnAlias` could be anything and `visited` could
not be tied to the stack. `VisitedIsExact` is what bounds the recursion: no alias is pending twice.

`WInv` adds what the frames mean. `Way(t, tn, ctx)` is what the segments of a path lead to one by one if aliases stand for `t`, and
`Stands` what they do stand for. Every frame has come to its place on the way under `Stands` (`OnTheWay`), and the frame
above it walks the right-hand side of the alias that its next segment names (`Awaits`). Then:

- The scope search through the frozen tables, from the innermost scope outwards, finds what `Scoping` finds
  (`HitIsInnermost`, `CandidateIs`): a declared name is interned, so the look-ups that fail would not have led to a declaration.
- `Stands` is a solution (`Settles`): each round keeps the answers of the one before and either changes nothing, and then no later one
  does, or answers one more alias. So a frame at its end hands down what the alias stands for (`AtTheEnd`, `ReturnLeads`).
- A frame at a dead end leads nowhere, nor does any frame that waits for it (`DeadEnd`, `LeadsNowhere`), so giving up at once, as `?`
  does, is right.
- An alias met while it is pending stands for nothing (`CircleStandsForNothing`): in no round does one alias of the circle get an answer,
  as its successor would have had one in the round before.

`LooksUp` then has only to see which steps end a query. NameLookup's instance has its own copies of the operators of `Scoping`; that they
are the same is a chain of lemmas (`SameNames` to `SameReferent`).

**`LazyEnvironmentProofs`**: `Invariance`, `TypeCorrect`, `SourcesAreAddedOnce`, `NoDeepReentry`, `NoMixture`,
`AnswersStay`, for any number of environments, sources and threads. None of the properties is inductive. `IInv` says
what each call in progress has read and done (`CallsOK`: how far the loop is, that the handle
it read is the environment's, that a second call sits on top of an `add_source` of the same
environment); that two threads meet in an environment that is not shared only where it is settled
(`Calm`); that the object a dup is making belongs to that call alone (`OwnCopies`); that sources are in order and
of one kind (`EnvsOK`); and that an environment that has answered is not being filled (`Final`, which carries
`AnswersAreFinal`). Nesting of at most two is part of `CallsOK` and needs the flag, which the outer call
has set. The steps of `Next` are reduced to a few shapes (enter, move, fill, return), for which each part is
proved once.

**`EnvironmentLoaderProofs`**: `Invariance`, `TypeCorrect`, `NoLibraryTwice`, `LockDiscipline`,
`DependenciesArrive`, `SnapshotsAreConsistent`, `StringIOIsLoaded`, for any threads, libraries, dependencies and
depth of calls. `IInv` describes the calls on every stack (`StacksGood`): where a call can wait below another one, what
lists and snapshots it holds, and, behind `DependenciesFollow`, that each dependency of a library being added is in
the table, on the list still to be worked off, or about to be added by the call above (`HasDependencies`).
`OwedComplete` says that a library owed its dependencies has them or is still being added. `StringIOIsLoaded`
rests on libraries never being taken away: once `libs` has shown stringio, or its add has returned, it is in
every later snapshot.

**`DiscoveryProofs`** (with `SequenceProofs`): `Invariance`, `TypeCorrect`, `OnlyWhatWasRead`, `ErrorsHaveACause` and the refinement
`LoadsSequentially`, for any disk, specs and changes. Assumptions: files are paths, none of them a prefix of another
(`FilesAssumption`: what has something below it is a directory); no two have the same rank; unreadable directories are no files
(`DiskAssumption`); `None` differs from all there is. `IInv` has three parts.

- `Walks` says of the walk of each spec: no entry of `todo` is above another one (`Frontier`), and nothing found is below one
  (`Found`), so nothing is met twice; every file that is there all the time and that the spec takes is found or below an entry of
  `todo`, and every unreadable directory on the way to a file that stays is below one (`Reached`), so after the last entry nothing is
  missing and nothing was passed over. What is found, and what a walk failed at, is what the spec takes or enters (`Found`, `Stopped`).
- `Reads` keeps for every file of the list that it was read well, is still unread, or that an error is kept.
- `Answers` keeps for an answer given what it was made of.

`LoadsSequentially` then goes step by step: every step of `Discovery` is a step of `FileLoading` or leaves its variables alone
(`StepsAreSequential`). `Change` is `Vanish` or `Appear`; `Loaded` is `Succeed`, the known files of a spec being those its walk has found that
were not there all the time (`LoadedSucceeds`); `FailLoad` and `DiscoverFail` are `Fail`. Behind the first are two facts about the
data: the files of a walk can be put in order, in one way (`CanBeOrdered`, `SortedIs`), and the fold of `Merge`
is that of `Concatenated` (`SameFold`).

**`PipelineProofs`** (with `SequenceProofs`): `TypeCorrect`, `AllInterned` and `LoadingFailsOnClashes`, for programs of any number of sources, trees of any
size and depth, and any filters. None of the properties is inductive.

- `TypeInv` types all of the state: what is on the agenda of the walk (`WorkOK`: items of the tree and the marks of
  the phase), the table, what the marks have saved. `TypeOK` needs it because a finished declaration restores
  `slice` and `cursor` from its mark: the invariant (`Saved`, `Marked`) says that a saved cursor stays within the
  slice it belongs to, and every mark's slice is in the table, which only grows.
- `InternInv` carries `EverythingInterned`. While inserting, every name below an item the walk has dealt with
  is interned or the item is still on the agenda (`Done`), so that after the last one every top-level declaration has its
  whole tree interned (`HasTops`). While driver and materializer walk, every item on the agenda is such an interned
  one (`Walkable`), which makes the next look-up succeed. Since the materializer builds the arguments of
  `singleton(C)[...]` and insert does not visit them, the theorem has the hypothesis `NoSingletonArgs`: without it
  it is false (finding 2), and the run `pipeline_singleton_args` shows how. The items that were dealt with and those on the agenda
  are `Occurrences`, and after the last one they are all of them (`InsertedAll`).
- `DupInv` carries `DuplicatesAreErrors`. What has been dealt with is what is registered, each declaration under its full name and its
  kind, no two of them in a clash (`Registered`). A duplicate that is refused clashes with one of them. The converse needs that
  what clashes is *another* declaration: that no declaration comes up twice. Positions show it: the declarations on the agenda are in
  places that are not around each other (`Apart`, `Leads`) nor around anything dealt with (`Fresh`), which one step keeps because a
  declaration is nested in its parent at a place of its own.

In the proofs of the pipeline's types and interning trees are not taken apart by induction over their depth: the invariants speak of the items on
the agenda and of what one step puts there. Where all items of a tree are meant, `OccurrencesAre` says what is needed: they are the least
set with the top-level declarations that is closed under children. In `SequenceProofs` the recursive functions inside `FlattenSeq` and `FoldLeft` are shown
to exist and to be typed by induction over a set of numbers (`UpTo`), which the provers can do where the library's induction
theorems need an operator as parameter.

**`LockstepProofs`**: `WalksInLockstep`, `EntriesUsedUp`, `RawWhereSkipped`, `NamesAreReferents`, for the same programs and filters. This is
the argument by which an entry without a position finds its name:

- What a walk meets is a function of the tree. `Inner(x)` is the sequence of the positions of the names in declaration
  `x` outside its nested declarations, in the order of the walk, `All(p, s)` the declarations of a source in the order
  of their numbers; both are recursive functions over items, which `DepthAssumption` lets exist.
- The agenda alone does not say which declaration a name on it belongs to. Each element is given an owner in a *shadow*
  of the agenda (`Cells`): the declaration that will be current when it is reached. `Walk(p, s, z, L, c)` says of a shadow
  `z` that owners follow each other along the agenda (`Chain`), that an element and its owner are of the same top-level declaration (`PlacedCells`), and
  that `c` declarations were visited, those still ahead being the rest of `All` (`Tally`). `Pending(z, r)` is what the
  agenda still holds for declaration `r`. One lemma for each shape of step says what it does to `Walk` and `Pending`, once for
  both walks.
- `DriverAt(z)`: for every declaration visited, the entries recorded so far followed by those pending are
  `Inner` of it (`Recorded`), or there are none and the filter leaves it out. At the end of a source nothing is pending and
  it is `Settled`.
- `BuilderAt(z, L)`: for the current declaration, and for each one that waits with its slice and cursor saved in a mark, the
  entries beyond the cursor are those of the pending names (`Reads`, `Saves`). So the next entry is that of the
  name that is next (`Lockstep`), and at the end of a declaration, where nothing is pending for it, the cursor is at the
  end (`SlicesUsedUp`).

`ResolveInv` and `BuildInv` say that such a shadow exists. `Inv`, the two with `TypeInv` and `InternInv`, is inductive. It is
not a run's invariant, as TLC cannot guess a shadow; what it implies is checked by `pipeline`. All four theorems have the
hypothesis `NoSingletonArgs`, without which they are false: the arguments would take entries of names after
them. `RawWhereSkipped` has one more, `CommentsAgree`: where the two matchers of the magic comment differ (section 6) a
source is resolved although its directives say otherwise. `NamesAreReferents` has `UsesAreAbsolute`, without which it is false
(finding 4). The programs of the `pipeline` run satisfy all three.

`NamesAreReferents` puts the parts together: the interning (names are asked for where they occur), the use map, the cache and the lockstep.
`MeaningInv` says that whatever is in the cache may be answered to its question (`Truth`: the referent, or None for a qualified
interface or alias name), that the use map is that of the source being walked, that every entry of the table means what is written at its
position (`EntryMeans`), and that an entry taken is in the table. As declarations do not change after loading, a true answer stays true, in
whatever source it is given again (`MeaningsStay`). That the use map rewrites a name to what the clauses mean by it is
`MappedIsMeant`: the map is filled one clause after the other, each in front of what was bound before (`BindsWhatIsBrought`), so that
the last one that brings in a symbol decides (`LastClauseBinds`). The last step is `Lockstep`: the entry is of the very position it is taken for.

**Soundness of the back end.** tlapm 1.4.5 gives Z3 the axiom `(DOMAIN s = 1 .. n) = (Len(s) = n)` for every `s` and not for
sequences alone, from which one may conclude too much about a function that is no sequence. Every module was
proved a second time with that axiom weakened to hold for sequences (an implication from left to right), and no proof
depends on the stronger form.

Model-checked only: liveness (`CallsReturn` twice, `IsAnswered` twice), which is out
of the prover's reach. Every invariant and every action property of a passing run is proved.

## 6. Where code and comments disagree

Each has a run that finds the state; `PROJECT.json` ("findings") quotes the lines.

1. `resolver_missing_namespace`: `type_name.rs` says that a namespace that was never interned as a
   class name is not declared. A class `A::B` declared by nesting interns `B` and `::A::B`,
   never `A::B`; the reference `A::B::_E` stays unresolved although `::A::B::_E` is declared.
2. `pipeline_singleton_args`: `insert.rs` guarantees that every type name below a declaration is interned.
   The arguments of `singleton(A)[B]` are built by the materializer and visited by neither other walk.
3. `pipeline_skipped_decls`: `driver.rs` says that declarations skipped by `only:` keep the names of the
   AST. Their own name becomes absolute.
4. `pipeline_relative_use`: `use_map.rs` asks for absolute targets and leaves it to the caller to make them so;
   the caller, `driver.rs`, takes them to be absolute since the parser refuses others. The parser takes
   `use Foo::Bar`, as specs of the repository show, and `test/rbs/environment_test.rb` expects such a target to mean the absolute one.
   It is bound as written and looked up where it is used: in a class `A` with a class `A` of its own, `use A as B` makes `::A::A` of B.
   A relative wildcard binds nothing.
5. `lazy_environment_accessors`: `docs/design.md` says that the first access fills all Hashes. After an
   exception in the middle the flag stays set and later accesses return truncated Hashes.
6. `environment_loader_blocks`: `each_dir` explains that the mutex must be dropped before Ruby code
   runs. `libs` holds it over `Library.new` and `Set#<<`; a thread switch there and an `add` on the other
   thread stop the process.

Three more that have no run. `docs/design.md` calls the resolver read-only once its inputs are fixed, but its cache
keeps None for a qualified interface or alias name whose candidate a later `use` directive interns;
`AnswersAreReferents` and `NameLookup` allow exactly that None. `driver.rs` says that it matches upstream's pattern of the
magic comment position by position; on a line that ends in CR LF it finds `false` where the pattern, whose `$` stands
before LF only, finds nothing (`directive.rs` goes with the driver, and the `pipeline` run has such a head). And the two matchers
differ from each other on a lone CR and on a line break inside the comment: for `# resolve-type-names: false` followed by CR and
more text on the line, and for a `#` alone on the first line with the rest on the second, `directive.rs` reports a directive that the
driver does not obey. The heads of the `pipeline` run leave these out, as nobody writes them by intention; the
hypothesis `CommentsAgree` of `RawWhereSkipped` leaves exactly such heads out.

The `pipeline` run has no `singleton` with arguments, so that finding 2 does not hide what else could go wrong.

## 7. Abstractions

- Names are values in all modules but `Interner`, which shows that ids are as good.
- Strings are members of a set, each with the kind its first letter gives it.
- Node kinds that all three walks treat alike share one kind: tuple, union, intersection, optional and
  record are `group`, the base types and literals `leaf`.
- The head of a source is a sequence of tokens; tab, vertical tab and form feed are like the blank, and all
  text without a role in the pattern is one token. Locations, comments, annotations and the Ruby objects
  themselves are left out.
- In `LazyEnvironment` a source is one unit: upstream's `add_source` appends to `@sources` and then fills
  the Hashes from it.
- The three walks of the pipeline are one thread, as in the code, and run one after the other.
- Two threads that first read one environment at the same moment add its sources twice, as nothing in
  `materialize_all` serializes them. `shared` marks such environments, and what is said of the others shows that
  the damage goes no further.
- In `EnvironmentLoader` `add_collection` is its sequence of adds, which is what other threads see of it;
  what RubyGems and the repository know is fixed (`Known`, `DependsOn`), and the lookup of one library is
  one step. What load does after its snapshot with files is `Discovery`.
- In `Discovery` a file is good or bad once and for all and directories do not change their permissions
  meanwhile; symbolic links and special files, which the code ignores, are left out; other input errors are
  like an unreadable directory. A directory is listed in one step (`Open`), although `read_dir` is lazy: files that come and go while it is being
  listed count as having done so before or after, and `FileLoading` allows a load to see any of them or none in any case.

## 8. Not modelled

- *load_env on an environment that was already read*: `docs/tasks/README.md` declares anything but load, resolve and
  read, in this order, out of scope.
- *Byte offsets*: what a Location points to, the magic comment's included.
- *Construction of Ruby objects, locations, FFI*: calls into C and Ruby without decisions.
- *Parser and generated bindings*: the C parser is not part of this tree.
- *Gem entry*: one `rescue LoadError`.

## 9. Plan

What the order was: the interner and the resolver, on whose ids and answers all else rests; the three walks
and what they must agree on; the lazy environment; the loader and discovery, which are concurrent; the
abstract specifications of resolver and discovery; the proofs of all components, the pipeline last: its types,
interning, duplicates, the lockstep of the walks and what the names they build mean; and the refinements of
`FileLoading` and `NameLookup`.

What would come next:

1. A loader that resolves and builds each declaration at once, as an abstract specification of `Pipeline`.
2. `EnvironmentLoader`, `Discovery`, `Pipeline` and `LazyEnvironment` composed, with the answer of one as the
   input of the next; today each is checked for all inputs the one before can give it.

## 10. How to run

```
tlc -workers 2 -config MCPipeline.cfg MCPipeline      # and likewise for every run of PROJECT.json
tlapm InternerProofs.tla
tlapm TypeNameResolverProofs.tla
tlapm LazyEnvironmentProofs.tla
tlapm EnvironmentLoaderProofs.tla
tlapm SequenceProofs.tla
tlapm DiscoveryProofs.tla
tlapm PipelineProofs.tla
tlapm LockstepProofs.tla
```
