--------------------------------- MODULE WorkPool --------------------------------
(***************************************************************************)
(* What the scheduler promises, leaving out how it decides: jobs arrive,   *)
(* each is worked on at most once, at most Limit at a time, never two that *)
(* clash, and none before what it needs is fulfilled. When the pool is     *)
(* closed nothing starts or finishes any more.                             *)
(***************************************************************************)
EXTENDS Naturals, FiniteSets

CONSTANTS
    Jobs,
    Needs,      \* what each job needs
    Clash,      \* pairs of jobs that must not be worked on together
    Limit

VARIABLES
    pool,       \* each job's status
    fulfilled,  \* what jobs may rely on
    open

poolVars == <<pool, fulfilled, open>>

With(status) == {j \in Jobs : pool[j] = status}

PoolInit ==
    /\ pool \in [Jobs -> {"outside", "queued"}]
    /\ open = TRUE

Arrive(S) ==
    /\ open
    /\ S \subseteq With("outside")
    /\ pool' = [j \in Jobs |-> IF j \in S THEN "queued" ELSE pool[j]]
    /\ UNCHANGED <<fulfilled, open>>

Start(j) ==
    /\ open
    /\ pool[j] = "queued"
    /\ Needs[j] \subseteq fulfilled
    /\ Cardinality(With("working")) < Limit
    /\ \A k \in With("working") : <<j, k>> \notin Clash
    /\ pool' = [pool EXCEPT ![j] = "working"]
    /\ UNCHANGED <<fulfilled, open>>

Finish(j) ==
    /\ open
    /\ pool[j] = "working"
    /\ pool' = [pool EXCEPT ![j] = "finished"]
    /\ UNCHANGED <<fulfilled, open>>

\* A job's result, or somebody else, fulfils a need. It stays fulfilled.
Fulfil(d) ==
    /\ open
    /\ fulfilled' = fulfilled \cup {d}
    /\ UNCHANGED <<pool, open>>

Close ==
    /\ open
    /\ open' = FALSE
    /\ UNCHANGED <<pool, fulfilled>>

PoolNext ==
    \/ \E S \in SUBSET Jobs : Arrive(S)
    \/ \E j \in Jobs : Start(j) \/ Finish(j)
    \/ \E d \in fulfilled' : Fulfil(d)
    \/ Close

PoolSpec == PoolInit /\ [][PoolNext]_poolVars

=================================================================================
