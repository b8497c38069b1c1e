--------------------------------- MODULE Tracker --------------------------------
(***************************************************************************)
(* The issues of the repository on GitHub, as GitHubAdapter reads and      *)
(* writes them. Each operator on an issue gives the issues as a request    *)
(* leaves them once GitHub has acted on it; what the caller learns of it   *)
(* is for the modules that call.                                           *)
(*                                                                         *)
(* A body is what the readers of bodies tell apart, and the text around    *)
(* it: the sections the program manages and the lines it looks for.        *)
(***************************************************************************)
EXTENDS Naturals, Sequences, FiniteSets, FiniteSetsExt

CONSTANTS
    IssueNumbers,   \* numbers the repository may reach
    IssueTitles,    \* titles, as normalizeIssueTitle leaves them
    Nothing         \* no issue, no title, no section

ASSUME TrackerAssumption ==
    /\ IsFiniteSet(IssueNumbers) /\ IssueNumbers \subseteq Nat
    /\ Nothing \notin IssueNumbers /\ Nothing \notin IssueTitles

\* A body. `section` and `contract` are the two managed sections of
\* reconciliation and of prepare, `split` the children listed by a split and
\* `links` the items of a checklist, as numbers and titles; `deps` are
\* dependencies in managed form, `free` those in a line of text.
PlainBody(text) ==
    [text |-> text, section |-> Nothing, contract |-> Nothing, split |-> {},
     links |-> {}, deps |-> {}, free |-> {}]

\* An issue, and how many comments of each kind it has.
NewIssue(title, body, labels) ==
    [title |-> title, open |-> TRUE, body |-> body, labels |-> labels,
     duplicate |-> 0, answers |-> 0]

IsIssue(issue) ==
    /\ DOMAIN issue = {"title", "open", "body", "labels", "duplicate", "answers"}
    /\ issue.title \in IssueTitles /\ issue.open \in BOOLEAN
    /\ issue.duplicate \in Nat /\ issue.answers \in Nat

NoIssue == [title |-> Nothing]
NoIssues == [n \in IssueNumbers |-> NoIssue]

Existing(is) == {n \in IssueNumbers : is[n].title # Nothing}

Titled(is, title) == {n \in Existing(is) : is[n].title = title}

\* Newest first; an open one before a closed one.
FindIssueByTitle(is, title) ==
    LET open == {n \in Titled(is, title) : is[n].open}
    IN  IF open # {} THEN Max(open)
        ELSE IF Titled(is, title) # {} THEN Max(Titled(is, title)) ELSE Nothing

\* The number GitHub gives next.
NextNumber(is) == Min(IssueNumbers \ Existing(is))
HasNext(is)    == IssueNumbers # Existing(is)

CreateIssue(is, title, body, labels) ==
    [is EXCEPT ![NextNumber(is)] = NewIssue(title, body, labels)]

UpdateIssueBody(is, n, body) == [is EXCEPT ![n].body = body]

CloseIssue(is, n) == [is EXCEPT ![n].open = FALSE]

CommentDuplicate(is, n) == [is EXCEPT ![n].duplicate = @ + 1]
CommentAnswers(is, n)   == [is EXCEPT ![n].answers = @ + 1]

\* Removing a label an issue does not have is no error.
AddLabel(is, n, label)    == [is EXCEPT ![n].labels = @ \cup {label}]
RemoveLabel(is, n, label) == [is EXCEPT ![n].labels = @ \ {label}]

Listed(pairs) == {p[1] : p \in pairs}

\* Every bullet with a reference counts, whatever section it is in.
CollectEpicIssueRefs(body) == Listed(body.links) \cup Listed(body.split) \cup body.deps

\* assertIssueActionable, where the labels can be read.
IsActionable(issue) == issue.open /\ "agent:in-progress" \notin issue.labels
=================================================================================
