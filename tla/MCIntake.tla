-------------------------------- MODULE MCIntake --------------------------------
(***************************************************************************)
(* Instances of Intake for TLC: small backlogs for the whole way, and all  *)
(* dependency graphs over a batch for `start`.                             *)
(***************************************************************************)
EXTENDS Intake

FourIssues == 1..4
OneOutside == {9}

Backlog(deps, cl, held, sp, lab) ==
    [dependsOn |-> deps, refs |-> {1, 2}, closed |-> cl, claimed |-> held,
     split |-> sp, ready |-> lab, daemon |-> held # {} \/ lab # {},
     commands |-> {"analyze", "discover", "start"}, quiet |-> FALSE]

Deps(a, b) == [i \in Issues |-> CASE i = 1 -> a [] i = 2 -> b [] OTHER -> {}]

Backlogs ==
    {Backlog(Deps(a, {}), cl, held, {}, lab) :
        a \in {{}, {2}, {2, 9}}, cl \in {{}, {2}, {9}}, held \in {{}, {1}}, lab \in {{}}}
    \cup {Backlog(Deps(a, {}), {}, {}, {}, {1}) : a \in {{}, {2}}}
    \cup {Backlog(Deps({}, {9}), {}, {}, {1}, lab) : lab \in SUBSET {1, 2}}

Graphs(n) == [1..n -> SUBSET (1..n)]

Batch4(g) ==
    [dependsOn |-> [i \in Issues |-> IF i \in DOMAIN g THEN g[i] ELSE {}], refs |-> DOMAIN g,
     closed |-> {}, claimed |-> {}, split |-> {}, ready |-> {}, daemon |-> FALSE,
     commands |-> {"start"}, quiet |-> TRUE]

Batches == {Batch4(g) : g \in Graphs(3)}
    \cup {Batch4(g) : g \in {h \in Graphs(4) : \A i \in 1..4 : i \notin h[i] /\ Cardinality(h[i]) <= 2}}

AllWorlds == Backlogs \cup Batches
=================================================================================
