---------------------------- MODULE DependencyCycles ----------------------------
(***************************************************************************)
(* detectDependencyCycles: which issues of a batch depend on themselves,   *)
(* by the strongly connected components of their graph. One step visits an *)
(* issue, looks at one of its dependencies or returns from an issue.       *)
(***************************************************************************)
EXTENDS Naturals, Sequences, FiniteSets, FiniteSetsExt, SequencesExt

CONSTANT Issues     \* issue numbers

ASSUME IssuesAssumption == Issues \subseteq Nat \ {0} /\ IsFiniteSet(Issues)

VARIABLES
    graph,      \* of each issue of the batch, the issues it depends on
    index,      \* when an issue was visited, 0 if it was not
    lowlink,
    stack,      \* the top first; onStack is the set of its members
    calls,      \* strongConnect in progress, the innermost first
    left,       \* of each issue, the dependencies its call has yet to look at
    cyclic      \* the result

cycleVars == <<graph, index, lowlink, stack, calls, left, cyclic>>

Batch == DOMAIN graph

NoGraph == [i \in {} |-> {}]

CyclesInit ==
    /\ graph = NoGraph
    /\ index = [i \in Issues |-> 0] /\ lowlink = [i \in Issues |-> 0]
    /\ stack = <<>> /\ calls = <<>> /\ left = [i \in Issues |-> {}] /\ cyclic = {}

StartDetecting(g) ==
    /\ graph' = g
    /\ index' = [i \in Issues |-> 0] /\ lowlink' = [i \in Issues |-> 0]
    /\ stack' = <<>> /\ calls' = <<>> /\ left' = [i \in Issues |-> {}] /\ cyclic' = {}

Detected == calls = <<>> /\ \A i \in Batch : index[i] # 0

Visit(n) ==
    LET next == Cardinality({i \in Issues : index[i] # 0}) + 1
    IN  /\ index' = [index EXCEPT ![n] = next]
        /\ lowlink' = [lowlink EXCEPT ![n] = next]
        /\ stack' = <<n>> \o stack
        /\ calls' = <<n>> \o calls
        /\ left' = [left EXCEPT ![n] = graph[n] \cap Batch]
        /\ UNCHANGED <<graph, cyclic>>

\* The outer loop. The batch comes in the order the operator gave.
VisitRoot == calls = <<>> /\ \E n \in Batch : index[n] = 0 /\ Visit(n)

Top == calls[1]

\* Variant, wrong: a finished component counts too.
LowersAlways(d) == d \in Batch
LowersLowlink(d) == d \in ToSet(stack)

LookAtDependency ==
    /\ calls # <<>> /\ left[Top] # {}
    /\ LET d == Min(left[Top]) IN
        \/ index[d] = 0 /\ Visit(d)
        \/ /\ index[d] # 0
           /\ lowlink' = [lowlink EXCEPT ![Top] =
                             IF LowersLowlink(d) THEN Min({@, index[d]}) ELSE @]
           /\ left' = [left EXCEPT ![Top] = @ \ {d}]
           /\ UNCHANGED <<graph, index, stack, calls, cyclic>>

Position(n) == CHOOSE k \in DOMAIN stack : stack[k] = n

\* What the top of the stack down to n is.
Component(n) == {stack[k] : k \in 1..Position(n)}

CyclicMembers(n) ==
    IF Component(n) # {n} \/ n \in graph[n] THEN Component(n) ELSE {}

Return ==
    /\ calls # <<>> /\ left[Top] = {}
    /\ IF lowlink[Top] = index[Top]
         THEN /\ cyclic' = cyclic \cup CyclicMembers(Top)
              /\ stack' = SubSeq(stack, Position(Top) + 1, Len(stack))
         ELSE UNCHANGED <<cyclic, stack>>
    /\ calls' = Tail(calls)
    /\ IF Len(calls) = 1
         THEN UNCHANGED <<left, lowlink>>
         ELSE /\ left' = [left EXCEPT ![calls[2]] = @ \ {Top}]
              /\ lowlink' = [lowlink EXCEPT ![calls[2]] = Min({@, lowlink[Top]})]
    /\ UNCHANGED <<graph, index>>

DetectStep == VisitRoot \/ LookAtDependency \/ Return

-----------------------------------------------------------------------------
(***************************************************************************)
(* The reference definition: an issue is on a cycle when no set that is    *)
(* closed under dependencies and holds all of its own leaves it out.       *)
(***************************************************************************)
OnACycle(i) ==
    \A S \in SUBSET Batch :
        (\A j \in S \cup {i} : graph[j] \cap Batch \subseteq S) => i \in S

\* The members of a cycle are found, all of them and no others: whoever only
\* leads to a cycle, or is led to by one, is not blamed for it.
CyclesAreExact == Detected => cyclic = {i \in Batch : OnACycle(i)}
=================================================================================
