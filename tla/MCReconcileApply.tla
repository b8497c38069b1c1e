---------------------------- MODULE MCReconcileApply ----------------------------
(***************************************************************************)
(* Instances of ReconcileApply for TLC: an epic of two issues, the second  *)
(* of which depends on the first and has a section with ambiguous markers, *)
(* and room for more.                                                      *)
(***************************************************************************)
EXTENDS ReconcileApply, TLC

CONSTANTS t1, t2, t3, t4, T3, goal

\* T3 is t3 in other letters.
Lowered == [t \in {"epic", t1, t2, t3, t4, T3} |-> IF t = T3 THEN t3 ELSE t]

Issue(title, body) == NewIssue(title, body, {"agent:ready"})

SmallBacklog ==
    [NoIssues EXCEPT
        ![1] = NewIssue("epic", [PlainBody("epic") EXCEPT !.links = {<<2, t1>>, <<3, t2>>}], {}),
        ![2] = Issue(t1, PlainBody("text")),
        ![3] = Issue(t2, [PlainBody("text") EXCEPT !.deps = {2}, !.section = Ambiguous])]

SmallTitles == [n \in IssueNumbers |-> SmallBacklog[n].title]

CreateT3  == [type |-> "CREATE_ISSUE", issue |-> Nothing, title |-> T3]
Enrich3   == [type |-> "ENRICH_ISSUE", issue |-> 3, goal |-> goal]
Enrich2   == [type |-> "ENRICH_ISSUE", issue |-> 2, goal |-> goal]
Add23     == [type |-> "ADD_DEPENDENCY", issue |-> 2, on |-> 3]
Remove32  == [type |-> "REMOVE_DEPENDENCY", issue |-> 3, on |-> 2]
Split2    == [type |-> "SPLIT_ISSUE", issue |-> 2, kids |-> <<t3, t4>>]
Merge3    == [type |-> "MERGE_DUPLICATE", issue |-> 3, on |-> 2]
AskNobody == [type |-> "NEEDS_HUMAN", issue |-> Nothing]
Enrich9   == [type |-> "ENRICH_ISSUE", issue |-> 9, goal |-> goal]
Stale3    == [type |-> "MARK_STALE", issue |-> 3]

\* Patches may get in each other's way: an issue is created that a split asks
\* for as well, in other letters, a dependency is removed from a duplicate. And
\* they may name an issue that is not there, or enrich one whose section cannot
\* be told.
SomeProposals ==
    {<<Split2, CreateT3>>, <<Enrich3, Merge3>>, <<Enrich2, Add23>>,
     <<AskNobody, Enrich9, Remove32, Stale3>>}

\* What the theorems about reports assume is so here.
ASSUME InstanceAssumption == Coherent /\ AboutTheEpic
=================================================================================
