------------------------------ MODULE FileLoading ------------------------------
(***************************************************************************)
(* What EnvironmentLoader#load relies on when it hands a list of DirSpecs  *)
(* to discovery and the files found to from_paths: one answer, as a walk   *)
(* and a read one after the other would give it on a disk on which files   *)
(* may come and go meanwhile.  Discovery implements it.                    *)
(*                                                                         *)
(* A path is a sequence of segments; Rank orders paths by the bytes of     *)
(* their text.                                                             *)
(***************************************************************************)
EXTENDS Naturals, SequencesExt

CONSTANTS
  Files,        \* paths of the files there may be
  Rank,         \* Rank[f]: position of f among them, bytewise
  Underscored, Dotted,  \* segments that start with "_" or "."
  Rbs,          \* segments that end in ".rbs"
  None

VARIABLES
  specs,        \* the DirSpecs: [path, skip_hidden], in order
  always, ever, \* files that were there all the time, at some time
  bad,          \* files that cannot be read as UTF-8 or parsed
  denied,       \* directories that cannot be read
  answer        \* None, then [ok, files, at]

disk == <<specs, bad, denied>>
vars == <<disk, always, ever, answer>>

\* Segments between a spec's root and a file, the file's own name last.
Below(root, f) == SubSeq(f, Len(root) + 1, Len(f))

\* Whether a spec takes a file: the root itself if it is a file; else what
\* ends in .rbs, without hidden segments on the way.
Takes(spec, f) ==
  LET rel == Below(spec.path, f)
      up  == Front(rel)
  IN  \/ f = spec.path
      \/ /\ IsStrictPrefix(spec.path, f)
         /\ Last(f) \in Rbs
         /\ \A i \in DOMAIN rel : rel[i] \notin Dotted
         /\ spec.skip_hidden => \A i \in DOMAIN up : up[i] \notin Underscored

\* Whether a spec's walk has to enter a directory.
Enters(spec, d) ==
  LET rel == Below(spec.path, d)
  IN  /\ IsPrefix(spec.path, d)
      /\ \A i \in DOMAIN rel : rel[i] \notin Dotted
      /\ spec.skip_hidden => \A i \in DOMAIN rel : rel[i] \notin Underscored

Entered(d) == \E i \in DOMAIN specs : Enters(specs[i], d)
Taken(f)   == \E i \in DOMAIN specs : Takes(specs[i], f)

\* The files of a set in order.
InOrder(S) ==
  CHOOSE t \in [1 .. Cardinality(S) -> S] :
    \A k \in DOMAIN t : \A j \in 1 .. k - 1 : Rank[t[j]] < Rank[t[k]]

FirstOccurrences(fs) ==
  FoldLeft(LAMBDA out, f : IF Contains(out, f) THEN out ELSE Append(out, f), <<>>, fs)

Concatenated(found) == FirstOccurrences(FlattenSeq([i \in DOMAIN specs |-> InOrder(found[i])]))

\* Of a file that came or went meanwhile, each spec may or may not know.
Succeed ==
  \E known \in [DOMAIN specs -> SUBSET (ever \ always)] :
    LET found == [i \in DOMAIN specs |-> {f \in always \cup known[i] : Takes(specs[i], f)}]
    IN  /\ \A i \in DOMAIN specs : found[i] \cap bad = {}
        /\ answer' = [ok |-> TRUE, files |-> Concatenated(found), at |-> None]
  /\ \A d \in denied : Entered(d) => ~ \E f \in always : IsPrefix(d, f)

\* An error names what stands in the way: a bad file, a file that was away,
\* a directory.
Fail ==
  /\ \E p \in bad \cup (ever \ always) \cup denied :
       /\ answer' = [ok |-> FALSE, files |-> <<>>, at |-> p]
       /\ IF p \in denied THEN Entered(p) ELSE Taken(p)
       /\ \E f \in ever : IsPrefix(p, f)

Reply ==
  /\ answer = None /\ answer' # None
  /\ Succeed \/ Fail
  /\ UNCHANGED <<disk, always, ever>>

Vanish(f) ==
  /\ always' = always \ {f}
  /\ UNCHANGED <<disk, ever, answer>>

Appear(f) ==
  /\ ever' = ever \cup {f}
  /\ UNCHANGED <<disk, always, answer>>

Init == always = ever /\ answer = None

Next == Reply \/ \E f \in Files : Vanish(f) \/ Appear(f)

Answered == <>(answer # None)

SafeSpec == Init /\ [][Next]_vars

Spec == SafeSpec /\ Answered

=============================================================================
