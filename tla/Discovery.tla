------------------------------- MODULE Discovery -------------------------------
(***************************************************************************)
(* crates/librbs-core/src/discovery.rs and the parallel part of            *)
(* Environment::from_paths (env.rs): the directories are walked by a pool  *)
(* of threads, one DirSpec each, in whatever order readdir gives; the      *)
(* results are put in order; the files found are read and parsed by the    *)
(* pool.  Other programs change the disk meanwhile.                        *)
(***************************************************************************)
EXTENDS Naturals, SequencesExt

CONSTANTS
  Files, Rank, Underscored, Dotted, Rbs, None,  \* as in FileLoading
  SpecLists,    \* the lists of DirSpecs there may be
  Disks,        \* the sets of files to start from
  MayBeBad,     \* files that may be unreadable as UTF-8 or unparsable
  MayBeDenied,  \* directories that may be unreadable
  MaxChanges    \* bound: files that come or go while a load runs

Results == [ok : BOOLEAN, files : Seq(Files), at : Seq(STRING) \cup {None}]

\* A path is that of a file or of a directory, never of both; ranks order files.
ASSUME FilesAssumption ==
  /\ \A f \in Files : f \in Seq(STRING)
  /\ \A f \in Files : \A g \in Files : IsPrefix(f, g) => f = g
  /\ Rank \in [Files -> Nat]
  /\ \A f \in Files : \A g \in Files : Rank[f] = Rank[g] => f = g

ASSUME DiskAssumption ==
  /\ \A files \in Disks : files \subseteq Files
  /\ \A d \in MayBeDenied : d \in Seq(STRING) /\ d \notin Files

ASSUME SpecsAssumption ==
  \A list \in SpecLists : list \in Seq([path : Seq(STRING), skip_hidden : BOOLEAN])

ASSUME NoneAssumption ==
  None \notin Files /\ None \notin Seq(Files) /\ None \notin Seq(STRING) /\ None \notin Results

VARIABLES
  specs, bad, denied,   \* the disk and the question, as in FileLoading
  present,      \* the files there are
  always, ever, \* those there were all the time, at some time (to state
                \* properties)
  changes,
  todo,         \* per spec: entries its walk has still to look at
  over,         \* the specs whose walk is over
  out,          \* per spec: files pushed, in the order they were met
  failed,       \* per spec: the directory that could not be read, or None
  paths,        \* the files to read, None before discovery is done
  unread,       \* those no thread has read yet
  error,        \* the file whose error from_paths has kept, or None
  answer

disk  == <<specs, bad, denied>>
tree  == <<present, always, ever, changes>>
walks == <<todo, over, out, failed>>
reads == <<paths, unread, error>>
vars  == <<disk, tree, walks, reads, answer>>

\* What readdir shows of a directory: the next segment of every file below.
Exists(p)  == \E f \in present : IsPrefix(p, f)
Entries(d) == {SubSeq(f, 1, Len(d) + 1) : f \in {g \in present : IsStrictPrefix(d, g)}}

SpecIds == DOMAIN specs

-----------------------------------------------------------------------------
(* walk_spec and walk_dir, one spec.                                       *)

Walking(i) == paths = None /\ answer = None /\ i \notin over

OpenBlamingRoot(i, d) == \* mutant: the error names the spec's root
  IF d \in denied /\ Exists(d)
  THEN /\ failed' = [failed EXCEPT ![i] = specs[i].path]
       /\ over'   = over \cup {i}
       /\ todo'   = [todo EXCEPT ![i] = {}]
  ELSE /\ todo'   = [todo EXCEPT ![i] = (@ \ {d}) \cup Entries(d)]
       /\ UNCHANGED <<over, failed>>

\* Entries of a directory that was opened, or the error.
Open(i, d) ==
  IF d \in denied /\ Exists(d)
  THEN /\ failed' = [failed EXCEPT ![i] = d]
       /\ over'   = over \cup {i}
       /\ todo'   = [todo EXCEPT ![i] = {}]
  ELSE /\ todo'   = [todo EXCEPT ![i] = (@ \ {d}) \cup Entries(d)]
       /\ UNCHANGED <<over, failed>>

WalkRootAsFile(i) == \* mutant: whatever exists is taken for a file
  /\ Walking(i)
  /\ LET root == specs[i].path
     IN  /\ root \in todo[i]
         /\ todo' = [todo EXCEPT ![i] = {}]
         /\ out'  = [out EXCEPT ![i] = IF Exists(root) THEN <<root>> ELSE <<>>]
  /\ UNCHANGED <<disk, tree, over, failed, reads, answer>>

\* The root: nothing, a file, or a directory.
WalkRoot(i) ==
  /\ Walking(i)
  /\ LET root == specs[i].path
     IN  /\ root \in todo[i]
         /\ IF ~Exists(root)
            THEN todo' = [todo EXCEPT ![i] = {}] /\ UNCHANGED <<over, out, failed>>
            ELSE IF root \in present
            THEN /\ todo' = [todo EXCEPT ![i] = {}]
                 /\ out'  = [out EXCEPT ![i] = <<root>>]
                 /\ UNCHANGED <<over, failed>>
            ELSE Open(i, root) /\ UNCHANGED out
  /\ UNCHANGED <<disk, tree, reads, answer>>

Name(p) == p[Len(p)]

Seen(i, p) == Walking(i) /\ p \in todo[i] /\ p # specs[i].path

WalkIgnored(i, p) ==
  /\ Seen(i, p)
  /\ \/ Name(p) \in Dotted
     \/ p \notin Files /\ specs[i].skip_hidden /\ Name(p) \in Underscored
     \/ p \in Files /\ Name(p) \notin Rbs
  /\ todo' = [todo EXCEPT ![i] = @ \ {p}]
  /\ UNCHANGED <<disk, tree, over, out, failed, reads, answer>>

WalkAnyDir(i, p) == \* mutant: skip_hidden is forgotten below the root
  /\ Seen(i, p) /\ p \notin Files
  /\ Name(p) \notin Dotted
  /\ Open(i, p)
  /\ UNCHANGED <<disk, tree, out, reads, answer>>

WalkDir(i, p) ==
  /\ Seen(i, p) /\ p \notin Files
  /\ Name(p) \notin Dotted /\ ~(specs[i].skip_hidden /\ Name(p) \in Underscored)
  /\ Open(i, p)
  /\ UNCHANGED <<disk, tree, out, reads, answer>>

WalkFile(i, p) ==
  /\ Seen(i, p) /\ p \in Files
  /\ Name(p) \notin Dotted /\ Name(p) \in Rbs
  /\ todo' = [todo EXCEPT ![i] = @ \ {p}]
  /\ out'  = [out EXCEPT ![i] = Append(@, p)]
  /\ UNCHANGED <<disk, tree, over, failed, reads, answer>>

Unsorted(s) == s \* mutant: files stay in the order of readdir

\* No file is met twice.
Sorted(s) ==
  CHOOSE t \in [DOMAIN s -> ToSet(s)] :
    \A k \in DOMAIN t : \A j \in 1 .. k - 1 : Rank[t[j]] < Rank[t[k]]

WalkEnd(i) ==
  /\ Walking(i) /\ todo[i] = {}
  /\ over' = over \cup {i}
  /\ out'  = [out EXCEPT ![i] = Sorted(@)]
  /\ UNCHANGED <<disk, tree, todo, failed, reads, answer>>

-----------------------------------------------------------------------------
(* discover_rbs_files, when all walks are over.                            *)

Walked == paths = None /\ answer = None /\ SpecIds \subseteq over

Reply(ok, files, at) == answer' = [ok |-> ok, files |-> files, at |-> at]

DiscoverFail ==
  /\ Walked
  /\ \E i \in SpecIds :
       /\ failed[i] # None /\ \A j \in 1 .. i - 1 : failed[j] = None
       /\ Reply(FALSE, <<>>, failed[i])
  /\ UNCHANGED <<disk, tree, walks, reads>>

Concatenate(ss) == FlattenSeq(ss) \* mutant: a file found twice is kept twice

\* First occurrences, in the order of the specs.
Merge(ss) ==
  LET push(seen, f) == IF Contains(seen, f) THEN seen ELSE Append(seen, f)
  IN  FoldLeft(push, <<>>, FlattenSeq(ss))

Discover ==
  /\ Walked
  /\ \A i \in SpecIds : failed[i] = None
  /\ paths'  = Merge(out)
  /\ unread' = ToSet(Merge(out))
  /\ UNCHANGED <<disk, tree, walks, error, answer>>

-----------------------------------------------------------------------------
(* from_paths.                                                             *)

Reading == paths # None /\ answer = None

ReadLost(f) == \* mutant: the error of a file is dropped with the file
  /\ Reading /\ f \in unread
  /\ unread' = unread \ {f}
  /\ UNCHANGED <<disk, tree, walks, paths, error, answer>>

ReadAgain(f) == \* mutant: a file that cannot be read is put back
  /\ Reading /\ f \in unread
  /\ unread' = IF f \notin present \/ f \in bad THEN unread ELSE unread \ {f}
  /\ UNCHANGED <<disk, tree, walks, paths, error, answer>>

\* One file read and parsed; of several errors one is kept.
Read(f) ==
  /\ Reading /\ f \in unread
  /\ unread' = unread \ {f}
  /\ error' = IF error = None /\ (f \notin present \/ f \in bad) THEN f ELSE error
  /\ UNCHANGED <<disk, tree, walks, paths, answer>>

\* Once there is an error the pool need not read the rest.
FailLoad ==
  /\ Reading /\ error # None
  /\ Reply(FALSE, <<>>, error)
  /\ UNCHANGED <<disk, tree, walks, reads>>

\* The sources are inserted in the order of the paths.
Loaded ==
  /\ Reading /\ unread = {} /\ error = None
  /\ Reply(TRUE, paths, None)
  /\ UNCHANGED <<disk, tree, walks, reads>>

-----------------------------------------------------------------------------
(* Other programs.                                                         *)

Change(f) ==
  /\ answer = None
  /\ changes < MaxChanges
  /\ changes' = changes + 1
  /\ \/ f \in present /\ present' = present \ {f} /\ always' = always \ {f} /\ ever' = ever
     \/ f \notin present /\ present' = present \cup {f} /\ ever' = ever \cup {f}
        /\ always' = always
  /\ UNCHANGED <<disk, walks, reads, answer>>

Init ==
  /\ specs \in SpecLists
  /\ bad \in SUBSET MayBeBad /\ denied \in SUBSET MayBeDenied
  /\ present \in Disks
  /\ always = present /\ ever = present
  /\ changes = 0
  /\ todo   = [i \in DOMAIN specs |-> {specs[i].path}] /\ over = {}
  /\ out    = [i \in DOMAIN specs |-> <<>>]
  /\ failed = [i \in DOMAIN specs |-> None]
  /\ paths = None /\ unread = {} /\ error = None
  /\ answer = None

Walk ==
  \E i \in SpecIds :
    \/ WalkRoot(i) \/ WalkEnd(i)
    \/ Walking(i) /\ \E p \in todo[i] : WalkIgnored(i, p) \/ WalkDir(i, p) \/ WalkFile(i, p)

Load == Walk \/ DiscoverFail \/ Discover \/ (\E f \in Files : Read(f)) \/ FailLoad \/ Loaded

Next == Load \/ \E f \in Files : Change(f)

\* The pool's threads run until the load is over.
Spec == Init /\ [][Next]_vars /\ WF_vars(Load)

-----------------------------------------------------------------------------
(* Properties.                                                             *)

TypeOK ==
  /\ always \subseteq ever /\ always \subseteq present /\ present \subseteq ever
  /\ over \subseteq SpecIds
  /\ \A i \in SpecIds : \A p \in todo[i] : IsPrefix(specs[i].path, p)
  /\ \A i \in SpecIds : out[i] \in Seq(Files)
  /\ paths # None => paths \in Seq(Files) /\ unread \subseteq ToSet(paths)
  /\ error # None => error \in Files
  /\ answer # None => answer \in Results

\* A load is answered at most once, with the files of the first spec in the
\* order of their paths, then those of the next that were not among them, and
\* so on; files that are there all the time are among them; if one of them
\* cannot be read, or a directory on the way, the answer is an error that names
\* it.  Neither the order in which threads walk and read nor that of readdir
\* shows: with nothing changing on the disk the files depend on it alone.
Promise == INSTANCE FileLoading

IsSequentialLoad == Promise!SafeSpec

\* A load is answered, whatever is on the disk and comes and goes there.
IsAnswered == Promise!Answered

\* No file is loaded that could not be read and parsed, and no file of the
\* list is passed over.
LoadedFilesWereRead ==
  answer # None /\ answer.ok =>
    answer.files = paths /\ unread = {} /\ \A f \in ToSet(paths) : f \notin bad /\ f \in ever

\* An error is about something: a file that is bad or was away when it was
\* read, a directory that cannot be read.
ErrorsAreReal ==
  answer # None /\ ~answer.ok => answer.at \in bad \cup denied \cup (Files \ always)

=============================================================================
