----------------------------- MODULE MagicComment -----------------------------
(***************************************************************************)
(* `# resolve-type-names: true|false` at the very start of a source is     *)
(* matched twice, by hand: resolver/driver.rs decides whether the source   *)
(* is resolved (is_type_name_resolution_disabled), materialize/            *)
(* directive.rs what its `directives` say (match_magic_comment).           *)
(*                                                                         *)
(* The head of a source, its first lines, is a sequence of tokens: "#",    *)
(* the keyword "resolve-type-names", ":", "true", "false", the blanks and  *)
(* "x" for any other text.                                                 *)
(***************************************************************************)
EXTENDS Naturals, SequencesExt

\* The class \s; tab, vertical tab and form feed are like the space.
Blank == {" ", "\r", "\n"}

Trimmed(s) ==
  LET text == {i \in DOMAIN s : s[i] \notin Blank}
  IN  IF text = {} THEN <<>> ELSE SubSeq(s, Min(text), Len(s))

After(token, s) == IF s # <<>> /\ Head(s) = token THEN Tail(s) ELSE <<>>

\* What follows \A#\s*resolve-type-names\s*:\s+, empty without a match.
ValuePart(s) ==
  LET rest == After(":", Trimmed(After("resolve-type-names", Trimmed(After("#", s)))))
  IN  IF Trimmed(rest) = rest THEN <<>> ELSE Trimmed(rest)

\* content.lines().next(): up to the first "\n" or "\r\n".
FirstLine(content) ==
  LET ends == {i \in DOMAIN content : content[i] = "\n"}
      line == IF ends = {} THEN content ELSE SubSeq(content, 1, Min(ends) - 1)
  IN  IF ends # {} /\ line # <<>> /\ Last(line) = "\r" THEN Front(line) ELSE line

DisabledInFirstLine(content) == \* mutant: text after the value is not looked at
  LET value == ValuePart(FirstLine(content))
  IN  value # <<>> /\ Head(value) = "false"

\* is_type_name_resolution_disabled
Disabled(content) == ValuePart(FirstLine(content)) = <<"false">>

\* match_magic_comment with materialize_magic_comment: at most one directive.
MagicDirective(content) ==
  LET value == ValuePart(content)
      atEnd == Tail(value) = <<>> \/ value[2] \in {"\n", "\r"}
  IN  IF value # <<>> /\ Head(value) \in {"true", "false"} /\ atEnd
      THEN <<[k |-> "resolve_type_names", value |-> Head(value) = "true"]>> ELSE <<>>

=============================================================================
