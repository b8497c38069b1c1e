--------------------------------- MODULE Scopes ---------------------------------
(***************************************************************************)
(* Whether two issues may be worked on at the same time is decided from    *)
(* the path patterns in their bodies. A pattern is a sequence of names,    *)
(* a name a sequence of letters: "n" is any letter of a name, "." matters  *)
(* to the code, "*" is a wildcard.                                         *)
(***************************************************************************)
EXTENDS Naturals, Sequences, FiniteSets, SequencesExt

CONSTANTS
    Names,          \* bound: the names patterns are made of
    FileNames,      \* bound: the names of files and directories
    MaxDepth        \* bound: the names in a path

VARIABLES
    left, right,    \* a pattern of each of two issues
    decision

vars == <<left, right, decision>>

PathsOver(names) == UNION {[1..k -> names] : k \in 1..MaxDepth}

HasWildcard(name) == "*" \in ToSet(name)

\* What stands before the first wildcard: whole names, then a part of one.
BeforeWildcard(pattern) ==
    IF \A k \in DOMAIN pattern : ~HasWildcard(pattern[k]) THEN pattern
    ELSE LET k == SelectInSeq(pattern, HasWildcard)
             c == SelectInSeq(pattern[k], LAMBDA x : x = "*")
         IN  Append(SubSeq(pattern, 1, k - 1), SubSeq(pattern[k], 1, c - 1))

\* A last name with a dot is taken for a file and left out; so is an empty one.
GlobPrefix(pattern) ==
    LET raw  == BeforeWildcard(pattern)
        last == raw[Len(raw)]
    IN  IF last = <<>> \/ (Len(raw) > 1 /\ "." \in ToSet(last)) THEN Front(raw) ELSE raw

IsSameOrChild(parent, child) ==
    parent = <<>> \/ child = <<>> \/ IsPrefix(parent, child)

PatternsConflict(a, b) ==
    \/ a = b
    \/ IsSameOrChild(GlobPrefix(a), GlobPrefix(b))
    \/ IsSameOrChild(GlobPrefix(b), GlobPrefix(a))

Init ==
    /\ left \in PathsOver(Names) /\ right \in PathsOver(Names)
    /\ decision = "none"

Decide ==
    /\ decision = "none"
    /\ decision' = IF PatternsConflict(left, right) THEN "one waits" ELSE "both run"
    /\ UNCHANGED <<left, right>>

Spec == Init /\ [][Decide]_vars

-----------------------------------------------------------------------------
(***************************************************************************)
(* What patterns mean.                                                     *)
(***************************************************************************)
RECURSIVE Matches(_, _)
\* A name against a pattern of one name.
Matches(pattern, name) ==
    IF pattern = <<>> THEN name = <<>>
    ELSE IF pattern[1] = "*"
      THEN \E k \in 0..Len(name) : Matches(Tail(pattern), SubSeq(name, k + 1, Len(name)))
      ELSE name # <<>> /\ name[1] = pattern[1] /\ Matches(Tail(pattern), Tail(name))

RECURSIVE Covers(_, _)
\* A path is covered when the pattern names it, or a directory above it.
Covers(pattern, path) ==
    IF pattern = <<>> THEN TRUE
    ELSE IF pattern[1] = <<"*", "*">>
      THEN \E k \in 0..Len(path) : Covers(Tail(pattern), SubSeq(path, k + 1, Len(path)))
      ELSE path # <<>> /\ Matches(pattern[1], path[1]) /\ Covers(Tail(pattern), Tail(path))

Overlap(a, b) == \E path \in PathsOver(FileNames) : Covers(a, path) /\ Covers(b, path)

\* Two issues whose patterns share a path never run at the same time ("False
\* positives are acceptable; false negatives are not").
OverlapIsConflict == decision = "both run" => ~Overlap(left, right)
=================================================================================
