----------------------------- MODULE SchedulerProofs ----------------------------
(***************************************************************************)
(* What the concurrent queue keeps, for any issues, dependencies, scopes,  *)
(* budgets and faults: its types, the state of each entry, the limits and  *)
(* the budgets; and what follows for the queue as a whole: nothing given   *)
(* to `queue add` is lost, no slot stays free that an entry could use,     *)
(* nothing is left behind, the labels tell the outcome, and the queue is a *)
(* pool of work.                                                           *)
(***************************************************************************)
EXTENDS Scheduler, SiftProofs

(***************************************************************************)
(* The inductive invariant.                                                *)
(***************************************************************************)
Busy == {"working", "returned", "half", "released"}
Over == {"settled", "left"}

Known == {entries[k].issue : k \in DOMAIN entries}
Begun == {i \in Issues : runs[i].phase # "none"}

\* An entry, judged by the runs rs and by what is done, dn: its state is that
\* of its run, and whatever it does not wait for is done.
FitsIn(e, rs, dn) ==
    /\ e.state = "RUNNING" <=> rs[e.issue].phase \in Busy
    /\ e.state = "COMPLETED" <=> rs[e.issue].phase \in Over
    /\ e.state \in {"PENDING", "DEFERRED_CONFLICT"} => e.waits = {}
    /\ e.state = "DEFERRED_DEPENDENCY" => e.waits # {}
    /\ DependsOn[e.issue] \ e.waits \subseteq dn

EntryInv == \A k \in DOMAIN entries : FitsIn(entries[k], runs, done)

\* The issues of a batch are nowhere in the queue yet, and nothing is launched
\* that has no entry.
QueueInv ==
    /\ queued = Known \cup ToSet(merging.batch)
    /\ Known \cap ToSet(merging.batch) = {}
    /\ merging.batch # <<>> => pc \in {"fetching", "checking", "crashed"}
    /\ Begun \subseteq Known

\* Of each link of the batch that was looked up something is known.
LookupInv ==
    /\ merging.left \subseteq Links(merging.batch)
    /\ pc = "checking" =>
          \A l \in Links(merging.batch) \ merging.left : l[2] \in done \/ l \in merging.unmet

\* A pull request is done, and nothing was launched before its dependencies.
RunInv ==
    /\ \A i \in Issues : runs[i].phase \in Busy \cup Over /\ runs[i].phase # "working"
                         /\ runs[i].outcome = "PR_OPEN" => i \in done
    /\ DependenciesFirst

\* The failed runs and those that still may fail.
CountInv ==
    /\ EachIssueOnce
    /\ WithinLimit
    /\ MaxStartedRuns # None => started <= MaxStartedRuns
    /\ MaxFailedRuns # None =>
          failed + Cardinality(InFlight) <= MaxFailedRuns + MaxConcurrentRuns - 1

Inv == TypeOK /\ EntryInv /\ QueueInv /\ LookupInv /\ RunInv /\ CountInv /\ NoOverlap

(***************************************************************************)
(* The operators of the queue.                                             *)
(***************************************************************************)
LEMMA Flights ==
    ASSUME TypeOK
    PROVE  /\ InFlight = {i \in Issues : runs[i].phase \in Busy}
           /\ ActiveRuns = InFlight
           /\ Active = {i \in Issues : runs[i].phase \in Busy \cup {"settled"}}
  <1>1. \A i \in Issues : runs[i].phase \in Phases
    BY DEF TypeOK
  <1> QED
    BY <1>1 DEF InFlight, ActiveRuns, Active, Busy, Phases

\* Subsets of the issues are finite.
LEMMA FiniteIssues ==
    ASSUME NEW S, S \subseteq Issues
    PROVE  IsFiniteSet(S) /\ Cardinality(S) \in Nat
  <1>1. S \subseteq Deps
    BY DEF Deps
  <1> QED
    BY <1>1, SchedulerAssumption, FS_Subset, FS_CardinalityType

\* A refresh changes the states that tell a conflict, and nothing else.
LEMMA Refreshed ==
    ASSUME NEW es \in Seq(Entry), NEW running,
           NEW rs, rs = RefreshConflictStates(es, running)
    PROVE  /\ rs \in Seq(Entry) /\ Len(rs) = Len(es) /\ DOMAIN rs = DOMAIN es
           /\ \A k \in DOMAIN es :
                 /\ rs[k].issue = es[k].issue /\ rs[k].waits = es[k].waits
                 /\ es[k].state \notin {"PENDING", "DEFERRED_CONFLICT"} => rs[k] = es[k]
                 /\ es[k].state \in {"PENDING", "DEFERRED_CONFLICT"} =>
                       /\ rs[k].state \in {"PENDING", "DEFERRED_CONFLICT"}
                       /\ rs[k].state = "PENDING" <=> ~Conflicts(es[k].issue, running)
  <1>1. DOMAIN es = 1..Len(es) /\ Len(es) \in Nat /\ \A k \in DOMAIN es : es[k] \in Entry
    OBVIOUS
  <1>2. /\ DOMAIN rs = DOMAIN es
        /\ \A k \in DOMAIN es :
              rs[k] = IF es[k].state \in {"PENDING", "DEFERRED_CONFLICT"}
                        THEN [es[k] EXCEPT !.state = IF Conflicts(es[k].issue, running)
                                                       THEN "DEFERRED_CONFLICT" ELSE "PENDING"]
                        ELSE es[k]
    BY DEF RefreshConflictStates
  <1>3. ASSUME NEW k \in DOMAIN es
        PROVE  /\ rs[k] \in Entry
               /\ rs[k].issue = es[k].issue /\ rs[k].waits = es[k].waits
               /\ es[k].state \notin {"PENDING", "DEFERRED_CONFLICT"} => rs[k] = es[k]
               /\ es[k].state \in {"PENDING", "DEFERRED_CONFLICT"} =>
                     /\ rs[k].state \in {"PENDING", "DEFERRED_CONFLICT"}
                     /\ rs[k].state = "PENDING" <=> ~Conflicts(es[k].issue, running)
    <2>1. es[k] \in Entry
      BY <1>1
    <2>2. CASE es[k].state \notin {"PENDING", "DEFERRED_CONFLICT"}
      BY <1>2, <2>1, <2>2
    <2>3. CASE es[k].state \in {"PENDING", "DEFERRED_CONFLICT"} /\ Conflicts(es[k].issue, running)
      <3>1. rs[k] = [es[k] EXCEPT !.state = "DEFERRED_CONFLICT"]
        BY <1>2, <2>3
      <3> QED
        BY <2>1, <2>3, <3>1 DEF Entry, IssueStates
    <2>4. CASE es[k].state \in {"PENDING", "DEFERRED_CONFLICT"} /\ ~Conflicts(es[k].issue, running)
      <3>1. rs[k] = [es[k] EXCEPT !.state = "PENDING"]
        BY <1>2, <2>4
      <3> QED
        BY <2>1, <2>4, <3>1 DEF Entry, IssueStates
    <2> QED
      BY <2>2, <2>3, <2>4
  <1>4. rs \in Seq(Entry) /\ Len(rs) = Len(es)
    <2>1. rs = [k \in 1..Len(es) |-> rs[k]]
      BY <1>1 DEF RefreshConflictStates
    <2>2. \A k \in 1..Len(es) : rs[k] \in Entry
      BY <1>1, <1>3
    <2> QED
      BY <1>1, <2>1, <2>2, IsASeq, LenProperties
  <1> QED
    BY <1>2, <1>3, <1>4

\* The part of it that is about issues.
LEMMA SameIssues ==
    ASSUME NEW es \in Seq(Entry), NEW running, NEW k \in DOMAIN es
    PROVE  RefreshConflictStates(es, running)[k].issue = es[k].issue
  BY Refreshed

\* The first entry that may start, if there is one.
LEMMA Startables ==
    ASSUME NEW es \in Seq(Entry), NEW k, k = FindStartable(es)
    PROVE  /\ k # 0 =>
                /\ k \in DOMAIN es /\ Startable(es[k], ActiveRuns)
                /\ ~IsStartBudgetExhausted /\ ~(Cardinality(ActiveRuns) >= MaxConcurrentRuns)
           /\ k = 0 =>
                \/ IsStartBudgetExhausted
                \/ Cardinality(ActiveRuns) >= MaxConcurrentRuns
                \/ \A n \in DOMAIN es : ~Startable(es[n], ActiveRuns)
  <1> DEFINE I == {n \in 1..Len(es) : Startable(es[n], ActiveRuns)}
             first == SelectInSeq(es, LAMBDA e : Startable(e, ActiveRuns))
  <1>1. first = IF I # {} THEN Min(I) ELSE 0
    BY Zenon DEF SelectInSeq
  <1>2. I # {} => Min(I) \in I
    <2>1. ASSUME I # {}
          PROVE  Min(I) \in I
      <3>0. I \subseteq Nat
        OBVIOUS
      <3> HIDE DEF I
      <3>1. PICK n \in I : \A m \in I : n <= m
        BY <2>1, <3>0, LeastNumber
      <3> QED
        BY <3>1 DEF Min
    <2> QED
      BY <2>1
  <1>3. k = IF IsStartBudgetExhausted \/ Cardinality(ActiveRuns) >= MaxConcurrentRuns
              THEN 0 ELSE first
    BY DEF FindStartable
  <1>4. DOMAIN es = 1..Len(es) /\ 0 \notin I
    OBVIOUS
  <1> HIDE DEF first
  <1> QED
    BY <1>1, <1>2, <1>3, <1>4

\* A sequence of entries, each as good as one of another sequence.
LEMMA EntrySeq ==
    ASSUME NEW n \in Nat, NEW es, es = [k \in 1..n |-> es[k]], \A k \in 1..n : es[k] \in Entry
    PROVE  es \in Seq(Entry) /\ Len(es) = n /\ DOMAIN es = 1..n
  BY IsASeq, LenProperties

\* The entries of a new batch wait for what is not done.
LEMMA NewOnes ==
    ASSUME NEW batch \in Seq(Issues), NEW unmet, NEW invalid,
           NEW es, es = NewEntries(batch, unmet, invalid)
    PROVE  /\ es \in Seq(Entry) /\ Len(es) = Len(batch) /\ DOMAIN es = DOMAIN batch
           /\ \A k \in DOMAIN batch :
                 /\ es[k].issue = batch[k]
                 /\ es[k].waits = {d \in DependsOn[batch[k]] : <<batch[k], d>> \in unmet}
                 /\ es[k].state \in {"PENDING", "DEFERRED_DEPENDENCY", "DEFERRED_INVALID"}
                 /\ es[k].state = "PENDING" => es[k].waits = {}
                 /\ es[k].state = "DEFERRED_DEPENDENCY" => es[k].waits # {}
  <1>1. Len(batch) \in Nat /\ DOMAIN batch = 1..Len(batch) /\ \A k \in DOMAIN batch : batch[k] \in Issues
    OBVIOUS
  <1>2. es = [k \in 1..Len(batch) |-> InitialEntry(batch[k], ToSet(batch), unmet, invalid)]
    BY <1>1 DEF NewEntries
  <1>3. ASSUME NEW k \in DOMAIN batch
        PROVE  /\ es[k] \in Entry
               /\ es[k].issue = batch[k]
               /\ es[k].waits = {d \in DependsOn[batch[k]] : <<batch[k], d>> \in unmet}
               /\ es[k].state \in {"PENDING", "DEFERRED_DEPENDENCY", "DEFERRED_INVALID"}
               /\ es[k].state = "PENDING" => es[k].waits = {}
               /\ es[k].state = "DEFERRED_DEPENDENCY" => es[k].waits # {}
    <2> DEFINE i     == batch[k]
               waits == {d \in DependsOn[i] : <<i, d>> \in unmet}
               bad   == \/ i \in DetectDependencyCycles(ToSet(batch))
                        \/ \E d \in DependsOn[i] : <<i, d>> \in invalid
    <2>1. i \in Issues /\ waits \subseteq Deps
      BY <1>1, SchedulerAssumption
    <2>2. es[k] = [issue |-> i, waits |-> waits,
                   state |-> IF bad THEN "DEFERRED_INVALID"
                             ELSE IF waits # {} THEN "DEFERRED_DEPENDENCY" ELSE "PENDING"]
      BY <1>1, <1>2 DEF InitialEntry
    <2> HIDE DEF bad, waits, i
    <2>3. /\ es[k].issue = i /\ es[k].waits = waits
          /\ es[k].state = IF bad THEN "DEFERRED_INVALID"
                           ELSE IF waits # {} THEN "DEFERRED_DEPENDENCY" ELSE "PENDING"
      BY <2>2
    <2>4. es[k] \in Entry
      BY <2>1, <2>2 DEF Entry, IssueStates
    <2> QED
      BY <2>3, <2>4 DEF waits, i
  <1>4. es = [k \in 1..Len(batch) |-> es[k]]
    BY <1>2
  <1> QED
    BY <1>1, <1>3, <1>4, EntrySeq

\* A refresh of conflicts keeps each entry fit.
LEMMA RefreshFits ==
    ASSUME NEW es \in Seq(Entry), NEW running, NEW rs, NEW dn,
           \A k \in DOMAIN es : FitsIn(es[k], rs, dn)
    PROVE  \A k \in DOMAIN RefreshConflictStates(es, running) :
              FitsIn(RefreshConflictStates(es, running)[k], rs, dn)
  BY Refreshed DEF FitsIn

\* A pure change of an entry's state and of what it waits for.
LEMMA Changed ==
    ASSUME NEW e \in Entry, NEW state \in IssueStates, NEW waits \in SUBSET Deps
    PROVE  LET c == [issue |-> e.issue, state |-> state, waits |-> waits]
           IN  c \in Entry /\ c.issue = e.issue /\ c.state = state /\ c.waits = waits
  BY DEF Entry

\* The entries of an issue that starts.
LEMMA Marked ==
    ASSUME NEW es \in Seq(Entry), NEW i, NEW ms, ms = MarkIssueRunning(es, i)
    PROVE  /\ ms \in Seq(Entry) /\ Len(ms) = Len(es) /\ DOMAIN ms = DOMAIN es
           /\ \A k \in DOMAIN es :
                 /\ ms[k].issue = es[k].issue /\ ms[k].waits = es[k].waits
                 /\ ms[k].state = IF es[k].issue = i THEN "RUNNING" ELSE es[k].state
  <1>1. Len(es) \in Nat /\ DOMAIN es = 1..Len(es) /\ \A k \in DOMAIN es : es[k] \in Entry
    OBVIOUS
  <1>2. ms = [k \in 1..Len(es) |-> IF es[k].issue = i THEN [es[k] EXCEPT !.state = "RUNNING"] ELSE es[k]]
    BY <1>1 DEF MarkIssueRunning
  <1>3. ASSUME NEW k \in DOMAIN es
        PROVE  /\ ms[k] \in Entry
               /\ ms[k].issue = es[k].issue /\ ms[k].waits = es[k].waits
               /\ ms[k].state = IF es[k].issue = i THEN "RUNNING" ELSE es[k].state
    BY <1>1, <1>2 DEF Entry, IssueStates
  <1>4. ms = [k \in 1..Len(es) |-> ms[k]]
    BY <1>2
  <1> QED
    BY <1>1, <1>3, <1>4, EntrySeq

\* What completing an issue makes of one entry, before conflicts are refreshed.
AfterRun(e, i, outcome) ==
    IF e.issue = i THEN [e EXCEPT !.state = "COMPLETED"]
    ELSE IF outcome = "PR_OPEN" THEN Unblock(e, i) ELSE e

\* Those who wait for the issue stay as they are, but for the dependency that
\* its pull request satisfies.
LEMMA AfterRunFits ==
    ASSUME NEW e \in Entry, NEW i, NEW outcome, NEW a, a = AfterRun(e, i, outcome)
    PROVE  /\ a \in Entry
           /\ a.issue = e.issue
           /\ a.waits = e.waits \/ (outcome = "PR_OPEN" /\ a.waits = e.waits \ {i})
           /\ e.issue = i => a.state = "COMPLETED"
           /\ e.issue # i =>
                /\ a.state = "RUNNING" <=> e.state = "RUNNING"
                /\ a.state = "COMPLETED" <=> e.state = "COMPLETED"
                /\ a.state \in {"PENDING", "DEFERRED_CONFLICT"} =>
                      \/ a.waits = {}
                      \/ e.state \in {"PENDING", "DEFERRED_CONFLICT"} /\ e.waits # {}
                /\ a.state = "DEFERRED_DEPENDENCY" =>
                      e.state = "DEFERRED_DEPENDENCY" /\ (a.waits # {} \/ e.waits = {})
  <1>1. CASE e.issue = i
    BY <1>1 DEF AfterRun, Entry, IssueStates
  <1>2. CASE e.issue # i /\ outcome # "PR_OPEN"
    BY <1>2 DEF AfterRun
  <1>3. CASE e.issue # i /\ outcome = "PR_OPEN"
    <2> DEFINE waits == e.waits \ {i}
               state == IF e.state = "DEFERRED_DEPENDENCY" /\ waits = {} THEN "PENDING" ELSE e.state
    <2>1. a = [e EXCEPT !.waits = waits, !.state = state]
      BY <1>3 DEF AfterRun, Unblock
    <2>2. waits \subseteq Deps /\ state \in IssueStates
      BY DEF Entry, IssueStates
    <2>3. /\ state = IF e.state = "DEFERRED_DEPENDENCY" /\ waits = {} THEN "PENDING" ELSE e.state
          /\ waits = e.waits \ {i}
      OBVIOUS
    <2> HIDE DEF waits, state
    <2>4. a \in Entry /\ a.issue = e.issue /\ a.waits = waits /\ a.state = state
      BY <2>1, <2>2 DEF Entry
    <2> QED
      BY <1>3, <2>3, <2>4
  <1> QED
    BY <1>1, <1>2, <1>3

\* The entries when a run is over, before conflicts are refreshed.
AfterRuns(es, i, outcome) == [k \in DOMAIN es |-> AfterRun(es[k], i, outcome)]

LEMMA AfterRunsType ==
    ASSUME NEW es \in Seq(Entry), NEW i, NEW outcome, NEW as, as = AfterRuns(es, i, outcome)
    PROVE  /\ as \in Seq(Entry) /\ DOMAIN as = DOMAIN es
           /\ \A k \in DOMAIN es :
                 /\ es[k] \in Entry /\ as[k] = AfterRun(es[k], i, outcome)
                 /\ as[k].issue = es[k].issue
  <1>1. Len(es) \in Nat /\ DOMAIN es = 1..Len(es) /\ \A k \in DOMAIN es : es[k] \in Entry
    OBVIOUS
  <1>2. as = [k \in 1..Len(es) |-> as[k]] /\ \A k \in DOMAIN es : as[k] = AfterRun(es[k], i, outcome)
    BY <1>1 DEF AfterRuns
  <1>3. ASSUME NEW k \in DOMAIN es
        PROVE  as[k] \in Entry /\ as[k].issue = es[k].issue
    <2>1. es[k] \in Entry /\ as[k] = AfterRun(es[k], i, outcome)
      BY <1>1, <1>2
    <2> QED
      BY <2>1, AfterRunFits
  <1> QED
    BY <1>1, <1>2, <1>3, EntrySeq

\* The entries when a run is over: the same issues, in the same order.
LEMMA CompletedType ==
    ASSUME NEW es \in Seq(Entry), NEW i, NEW outcome, NEW running
    PROVE  LET cs == CompleteIssue(es, i, outcome, running)
           IN  /\ cs \in Seq(Entry) /\ DOMAIN cs = DOMAIN es
               /\ \A k \in DOMAIN es : cs[k].issue = es[k].issue
  <1> DEFINE as == AfterRuns(es, i, outcome)
             cs == CompleteIssue(es, i, outcome, running)
  <1>1. cs = RefreshConflictStates(as, running)
    BY DEF CompleteIssue, AfterRuns, AfterRun
  <1>2. as \in Seq(Entry) /\ DOMAIN as = DOMAIN es /\ \A k \in DOMAIN es : as[k].issue = es[k].issue
    BY AfterRunsType
  <1> HIDE DEF as, cs
  <1>3. /\ RefreshConflictStates(as, running) \in Seq(Entry)
        /\ DOMAIN RefreshConflictStates(as, running) = DOMAIN as
    BY ZenonT(40), <1>2, Refreshed
  <1>4. ASSUME NEW k \in DOMAIN as
        PROVE  RefreshConflictStates(as, running)[k].issue = as[k].issue
    BY <1>2, SameIssues
  <1>5. /\ cs \in Seq(Entry) /\ DOMAIN cs = DOMAIN es
        /\ \A k \in DOMAIN es : cs[k].issue = es[k].issue
    BY <1>1, <1>2, <1>3, <1>4
  <1> QED
    BY <1>5 DEF cs

\* They still say what their runs do, and wait for all that is not done.
LEMMA Completed ==
    ASSUME NEW es \in Seq(Entry), NEW i, NEW outcome, NEW running,
           NEW before, NEW after, NEW dn,
           \A k \in DOMAIN es : FitsIn(es[k], before, dn),
           after[i].phase = "settled",
           \A j \in Issues : j # i => after[j].phase = before[j].phase,
           outcome = "PR_OPEN" => i \in dn
    PROVE  LET cs == CompleteIssue(es, i, outcome, running)
           IN  \A k \in DOMAIN cs : FitsIn(cs[k], after, dn)
  <1> DEFINE as == AfterRuns(es, i, outcome)
  <1>1. CompleteIssue(es, i, outcome, running) = RefreshConflictStates(as, running)
    BY DEF CompleteIssue, AfterRuns, AfterRun
  <1>2. /\ as \in Seq(Entry) /\ DOMAIN as = DOMAIN es
        /\ \A k \in DOMAIN es : es[k] \in Entry /\ as[k] = AfterRun(es[k], i, outcome)
    BY AfterRunsType
  <1> HIDE DEF as
  <1>3. ASSUME NEW k \in DOMAIN es
        PROVE  FitsIn(as[k], after, dn)
    <2> DEFINE e == es[k]
               a == as[k]
    <2>0. e \in Entry /\ a = AfterRun(e, i, outcome)
      BY <1>2
    <2> HIDE DEF a, e
    <2>1. /\ a.issue = e.issue
          /\ a.waits = e.waits \/ (outcome = "PR_OPEN" /\ a.waits = e.waits \ {i})
          /\ e.issue = i => a.state = "COMPLETED"
          /\ e.issue # i =>
                /\ a.state = "RUNNING" <=> e.state = "RUNNING"
                /\ a.state = "COMPLETED" <=> e.state = "COMPLETED"
                /\ a.state \in {"PENDING", "DEFERRED_CONFLICT"} =>
                      \/ a.waits = {}
                      \/ e.state \in {"PENDING", "DEFERRED_CONFLICT"} /\ e.waits # {}
                /\ a.state = "DEFERRED_DEPENDENCY" =>
                      e.state = "DEFERRED_DEPENDENCY" /\ (a.waits # {} \/ e.waits = {})
      BY <2>0, AfterRunFits
    <2>2. FitsIn(e, before, dn) /\ e.issue \in Issues
      BY <2>0 DEF Entry, e
    <2>3. e.issue # i => after[e.issue].phase = before[e.issue].phase
      BY <2>2
    <2>4. DependsOn[a.issue] \ a.waits \subseteq dn
      BY <2>1, <2>2 DEF FitsIn
    <2>5. ASSUME e.issue = i
          PROVE  FitsIn(a, after, dn)
      BY <2>1, <2>4, <2>5 DEF FitsIn, Busy, Over
    <2>6. ASSUME e.issue # i
          PROVE  FitsIn(a, after, dn)
      BY <2>1, <2>2, <2>3, <2>4, <2>6 DEF FitsIn
    <2> QED
      BY <2>5, <2>6 DEF a
  <1>4. \A k \in DOMAIN as : FitsIn(as[k], after, dn)
    BY <1>2, <1>3
  <1>5. \A k \in DOMAIN RefreshConflictStates(as, running) :
           FitsIn(RefreshConflictStates(as, running)[k], after, dn)
    BY <1>2, <1>4, RefreshFits
  <1> QED
    BY <1>1, <1>5

\* A lookup of the dependencies leaves nothing that is not done unwaited for.
LEMMA LookedUpAgain ==
    ASSUME NEW es \in Seq(Entry), NEW lost, NEW us, us = RefreshDependencies(es, lost)
    PROVE  /\ us \in Seq(Entry) /\ DOMAIN us = DOMAIN es
           /\ \A k \in DOMAIN es :
                 /\ us[k].issue = es[k].issue
                 /\ es[k].state # "DEFERRED_DEPENDENCY" => us[k] = es[k]
                 /\ es[k].state = "DEFERRED_DEPENDENCY" =>
                       /\ us[k].waits = {d \in DependsOn[es[k].issue] :
                                            <<es[k].issue, d>> \in lost \/ d \notin done}
                       /\ us[k].state = IF us[k].waits = {} THEN "PENDING" ELSE "DEFERRED_DEPENDENCY"
  <1>1. Len(es) \in Nat /\ DOMAIN es = 1..Len(es) /\ \A k \in DOMAIN es : es[k] \in Entry
    OBVIOUS
  <1>2. us = [k \in 1..Len(es) |-> us[k]] /\ DOMAIN us = DOMAIN es
    BY <1>1 DEF RefreshDependencies
  <1>3. ASSUME NEW k \in DOMAIN es
        PROVE  /\ us[k] \in Entry
               /\ us[k].issue = es[k].issue
               /\ es[k].state # "DEFERRED_DEPENDENCY" => us[k] = es[k]
               /\ es[k].state = "DEFERRED_DEPENDENCY" =>
                    /\ us[k].waits = {d \in DependsOn[es[k].issue] :
                                         <<es[k].issue, d>> \in lost \/ d \notin done}
                    /\ us[k].state = IF us[k].waits = {} THEN "PENDING" ELSE "DEFERRED_DEPENDENCY"
    <2>1. CASE es[k].state # "DEFERRED_DEPENDENCY"
      BY <1>1, <2>1 DEF RefreshDependencies
    <2>2. CASE es[k].state = "DEFERRED_DEPENDENCY"
      <3> DEFINE waits == {d \in DependsOn[es[k].issue] :
                              <<es[k].issue, d>> \in lost \/ d \notin done}
                 state == IF waits = {} THEN "PENDING" ELSE es[k].state
      <3>1. us[k] = [es[k] EXCEPT !.waits = waits, !.state = state]
        BY <2>2 DEF RefreshDependencies
      <3>2. waits \subseteq Deps
        <4>1. es[k].issue \in Issues
          BY <1>1 DEF Entry
        <4> QED
          BY <4>1, SchedulerAssumption
      <3>3. state \in IssueStates /\ state = IF waits = {} THEN "PENDING" ELSE "DEFERRED_DEPENDENCY"
        BY <2>2 DEF IssueStates
      <3> HIDE DEF state, waits
      <3>4. us[k] \in Entry /\ us[k].issue = es[k].issue /\ us[k].waits = waits /\ us[k].state = state
        BY <1>1, <3>1, <3>2, <3>3 DEF Entry
      <3> QED
        BY <2>2, <3>3, <3>4 DEF waits
    <2> QED
      BY <2>1, <2>2
  <1> QED
    BY <1>1, <1>2, <1>3, EntrySeq

(***************************************************************************)
(* The types.                                                              *)
(***************************************************************************)
LEMMA LinksAreLinks ==
    ASSUME NEW batch \in Seq(Issues)
    PROVE  Links(batch) \subseteq Issues \X Deps /\ IsFiniteSet(Links(batch))
  <1>1. ToSet(batch) \subseteq Issues
    BY DEF ToSet
  <1>2. Links(batch) \subseteq Issues \X Deps
    BY <1>1 DEF Links
  <1>3. IsFiniteSet(Issues) /\ IsFiniteSet(Deps)
    BY FiniteIssues, SchedulerAssumption
  <1>4. IsFiniteSet(Issues \X Deps)
    BY <1>3, FS_Product
  <1> QED
    BY <1>2, <1>4, FS_Subset

LEMMA NothingToMergeType ==
    /\ NothingToMerge \in [batch : Seq(Issues), left : SUBSET (Issues \X Deps),
                           unmet : SUBSET (Issues \X Deps), invalid : SUBSET (Issues \X Deps)]
    /\ NothingToMerge.batch = <<>> /\ NothingToMerge.left = {}
  BY DEF NothingToMerge

LEMMA EntryIssues ==
    ASSUME TypeOK
    PROVE  /\ \A k \in DOMAIN entries : entries[k] \in Entry /\ entries[k].issue \in Issues
           /\ Known \subseteq Issues
  <1>1. entries \in Seq(Entry)
    BY DEF TypeOK
  <1>2. \A k \in DOMAIN entries : entries[k] \in Entry
    BY <1>1
  <1>3. \A k \in DOMAIN entries : entries[k].issue \in Issues
    BY <1>2 DEF Entry
  <1> QED
    BY <1>2, <1>3 DEF Known

\* A label call, lost or not.
LEMMA LabelCalls ==
    ASSUME TypeOK, NEW i \in Issues, NEW name,
           \/ TakeLabel(i, name) /\ UNCHANGED <<unmarked, faults>>
           \/ /\ PutLabel(i, name) /\ name \in {"agent:ready", "agent:in-progress"}
              /\ UNCHANGED <<unmarked, faults>>
           \/ LabelLost(i)
    PROVE  /\ labels' \in [Issues -> SUBSET {"agent:ready", "agent:in-progress"}]
           /\ unmarked' \subseteq Issues
           /\ faults' \in 0..MaxFaults
  <1>1. /\ labels \in [Issues -> SUBSET {"agent:ready", "agent:in-progress"}]
        /\ unmarked \subseteq Issues
        /\ faults \in 0..MaxFaults /\ MaxFaults \in Nat
    BY SchedulerAssumption DEF TypeOK
  <1>2. CASE TakeLabel(i, name) /\ UNCHANGED <<unmarked, faults>>
    BY <1>1, <1>2 DEF TakeLabel
  <1>3. CASE PutLabel(i, name) /\ name \in {"agent:ready", "agent:in-progress"}
             /\ UNCHANGED <<unmarked, faults>>
    BY <1>1, <1>3 DEF PutLabel
  <1>4. CASE LabelLost(i)
    BY <1>1, <1>4 DEF LabelLost, Fault
  <1> QED
    BY <1>2, <1>3, <1>4

LEMMA InitType == Init => TypeOK
  <1> SUFFICES ASSUME Init
               PROVE  TypeOK
    OBVIOUS
  <1> USE DEF Init
  <1>1. PICK invalid \in SUBSET Links(InitialQueue) :
            /\ Cardinality(invalid) <= MaxFaults
            /\ faults = Cardinality(invalid)
            /\ entries = NewEntries(InitialQueue,
                             invalid \cup {l \in Links(InitialQueue) : l[2] \notin done}, invalid)
    OBVIOUS
  <1>2. InitialQueue \in Seq(Issues) /\ MaxFaults \in Nat
    BY SchedulerAssumption
  <1>3. entries \in Seq(Entry)
    BY <1>1, <1>2, NewOnes
  <1>4. faults \in 0..MaxFaults
    <2>1. IsFiniteSet(Links(InitialQueue))
      BY <1>2, LinksAreLinks
    <2>2. Cardinality(invalid) \in Nat
      BY <2>1, FS_Subset, FS_CardinalityType
    <2> QED
      BY <1>1, <1>2, <2>2
  <1>5. queued \subseteq Issues
    BY <1>2 DEF ToSet
  <1>6. runs \in [Issues -> [phase : Phases, claim : Claims, outcome : Outcomes \cup {None}]]
    BY DEF NotLaunched, Phases, Claims
  <1>7. merging \in [batch : Seq(Issues), left : SUBSET (Issues \X Deps),
                     unmet : SUBSET (Issues \X Deps), invalid : SUBSET (Issues \X Deps)]
    BY NothingToMergeType
  <1>8. {refreshed, idledOnce, stop, late, idleOver} \subseteq BOOLEAN
    OBVIOUS
  <1>9. done \subseteq Deps /\ labels \in [Issues -> SUBSET {"agent:ready", "agent:in-progress"}]
    BY DEF Deps
  <1>10. pending \in Seq(Issues) /\ asked \in Seq(Issues)
    OBVIOUS
  <1> QED
    BY <1>3, <1>4, <1>5, <1>6, <1>7, <1>8, <1>9, <1>10 DEF TypeOK

\* The filter of the pending file.
LEMMA Arrivals ==
    ASSUME TypeOK
    PROVE  /\ NewPending \in Seq(Issues)
           /\ ToSet(NewPending) = ToSet(pending) \ queued
           /\ ToSet(NewPending) \subseteq Issues
  <1>1. pending \in Seq(Issues)
    BY DEF TypeOK
  <1>2. /\ NewPending \in Seq(Issues)
        /\ {NewPending[k] : k \in DOMAIN NewPending} = {pending[k] : k \in DOMAIN pending} \ queued
    BY <1>1, WithoutKeeps DEF NewPending
  <1>3. /\ ToSet(NewPending) = {NewPending[k] : k \in DOMAIN NewPending}
        /\ ToSet(pending) = {pending[k] : k \in DOMAIN pending}
    BY DEF ToSet
  <1>4. ToSet(NewPending) \subseteq Issues
    BY <1>2, <1>3
  <1> QED
    BY <1>2, <1>3, <1>4

LEMMA LoopType == TypeOK /\ Loop => TypeOK'
  <1> SUFFICES ASSUME TypeOK, Loop
               PROVE  TypeOK'
    OBVIOUS
  <1> USE DEF TypeOK, queueVars, loopVars, runVars, worldVars
  <1>0. MaxFaults \in Nat /\ faults \in 0..MaxFaults
    BY SchedulerAssumption
  <1>1. CASE Launch
    <2> DEFINE es == RefreshConflictStates(entries, ActiveRuns)
               k  == FindStartable(es)
    <2>1. /\ k # 0 /\ entries' = MarkIssueRunning(es, es[k].issue) /\ started' = started + 1
          /\ runs' = [runs EXCEPT ![es[k].issue] = Launched]
          /\ UNCHANGED <<queued, failed, loopVars, unmarked, labels, worldVars>>
      BY <1>1 DEF Launch
    <2>2. es \in Seq(Entry)
      BY Refreshed
    <2>3. k \in DOMAIN es
      BY <2>1, <2>2, Startables
    <2> HIDE DEF es, k
    <2>4. entries' \in Seq(Entry)
      BY <2>1, <2>2, Marked
    <2>5. Launched \in [phase : Phases, claim : Claims, outcome : Outcomes \cup {None}]
      BY DEF Launched, Phases, Claims
    <2>6. runs' \in [Issues -> [phase : Phases, claim : Claims, outcome : Outcomes \cup {None}]]
      BY <2>1, <2>5
    <2> QED
      BY <2>1, <2>4, <2>6
  <1>2. CASE StopLaunching
    <2>1. entries' \in Seq(Entry)
      <3>1. RefreshConflictStates(entries, ActiveRuns) \in Seq(Entry)
        BY Refreshed
      <3> QED
        BY <1>2, <3>1 DEF StopLaunching
    <2>2. AfterLaunch \in {"exited", "merging", "racing", "refreshing"}
      BY DEF AfterLaunch, IdleOrExit, LoopHead
    <2>3. Active \subseteq Issues
      BY DEF Active, ActiveRuns
    <2>4. pc' = AfterLaunch /\ raced' \subseteq Issues /\ origin' \in {"start", "race", "refresh", "idle"}
      BY <1>2, <2>3 DEF StopLaunching
    <2>5. idledOnce' \in BOOLEAN
      BY <1>2 DEF StopLaunching
    <2>6. UNCHANGED <<queued, started, failed, merging, refreshed, runVars, worldVars>>
      BY <1>2 DEF StopLaunching
    <2> QED
      BY <2>1, <2>2, <2>4, <2>5, <2>6
  <1>3. CASE MergePending
    <2>1. NewPending \in Seq(Issues) /\ ToSet(NewPending) \subseteq Issues
      BY Arrivals
    <2>2. merging' = [NothingToMerge EXCEPT !.batch = NewPending]
      BY <1>3 DEF MergePending
    <2>3. merging' \in [batch : Seq(Issues), left : SUBSET (Issues \X Deps),
                        unmet : SUBSET (Issues \X Deps), invalid : SUBSET (Issues \X Deps)]
      BY <2>1, <2>2, NothingToMergeType
    <2>4. queued' \subseteq Issues /\ pending' = <<>> /\ raced' = {}
      BY <1>3, <2>1 DEF MergePending
    <2>5. /\ origin' \in {"start", "race", "refresh", "idle"}
          /\ pc' \in {"refreshing", "launching", "fetching"}
      BY <1>3 DEF MergePending, AfterMerge
    <2>6. UNCHANGED <<entries, started, failed, refreshed, idledOnce, runVars,
                      stop, asked, done, late, idleOver, faults>>
      BY <1>3 DEF MergePending
    <2> QED
      BY <2>3, <2>4, <2>5, <2>6
  <1>4. CASE FetchIssues
    <2>1. Links(merging.batch) \in SUBSET (Issues \X Deps)
      BY LinksAreLinks
    <2>2. merging' = [merging EXCEPT !.left = Links(merging.batch)]
      BY <1>4 DEF FetchIssues
    <2>3. merging' \in [batch : Seq(Issues), left : SUBSET (Issues \X Deps),
                        unmet : SUBSET (Issues \X Deps), invalid : SUBSET (Issues \X Deps)]
      BY <2>1, <2>2
    <2> QED
      BY <1>4, <2>3 DEF FetchIssues
  <1>5. CASE FetchFails
    BY <1>0, <1>5 DEF FetchFails, Fault
  <1>6. CASE CheckDependency
    <2>1. PICK l \in merging.left :
              \/ /\ merging' = [merging EXCEPT !.left = @ \ {l},
                                               !.unmet = IF l[2] \in done THEN @ ELSE @ \cup {l}]
                 /\ UNCHANGED faults
              \/ /\ Fault
                 /\ merging' = [merging EXCEPT !.left = @ \ {l},
                                               !.unmet = @ \cup {l},
                                               !.invalid = @ \cup {l}]
      BY <1>6 DEF CheckDependency
    <2>2. l \in Issues \X Deps
      BY <2>1
    <2>3. merging' \in [batch : Seq(Issues), left : SUBSET (Issues \X Deps),
                        unmet : SUBSET (Issues \X Deps), invalid : SUBSET (Issues \X Deps)]
      <3>1. PICK unmet \in SUBSET (Issues \X Deps), invalid \in SUBSET (Issues \X Deps) :
                merging' = [merging EXCEPT !.left = @ \ {l}, !.unmet = unmet, !.invalid = invalid]
        <4>1. CASE merging' = [merging EXCEPT !.left = @ \ {l},
                                              !.unmet = IF l[2] \in done THEN @ ELSE @ \cup {l}]
          <5>1. merging' = [merging EXCEPT !.left = @ \ {l},
                               !.unmet = IF l[2] \in done THEN @ ELSE @ \cup {l},
                               !.invalid = merging.invalid]
            BY <4>1
          <5> QED
            BY <2>2, <5>1
        <4>2. CASE merging' = [merging EXCEPT !.left = @ \ {l}, !.unmet = @ \cup {l},
                                              !.invalid = @ \cup {l}]
          BY <2>2, <4>2
        <4> QED
          BY <2>1, <4>1, <4>2
      <3> QED
        BY <3>1
    <2>4. faults' \in 0..MaxFaults
      BY <1>0, <2>1 DEF Fault
    <2> QED
      BY <1>6, <2>3, <2>4 DEF CheckDependency
  <1>7. CASE FinishMerge
    <2>1. NewEntries(merging.batch, merging.unmet, merging.invalid) \in Seq(Entry)
      BY NewOnes
    <2>2. entries' \in Seq(Entry)
      BY <1>7, <2>1, ConcatProperties DEF FinishMerge
    <2> QED
      BY <1>7, <2>2, NothingToMergeType DEF FinishMerge, AfterMerge
  <1>8. ASSUME NEW lost \in SUBSET LookedUp, RefreshOnce(lost) \/ RefreshIdle(lost)
        PROVE  TypeOK'
    <2>1. Refresh(lost)
      BY <1>8 DEF RefreshOnce, RefreshIdle
    <2>2. entries' \in Seq(Entry)
      BY <2>1, LookedUpAgain DEF Refresh
    <2>3. faults' \in 0..MaxFaults
      <3>1. Waiting \subseteq Issues
        <4>1. \A k \in DOMAIN entries : entries[k].issue \in Issues
          BY EntryIssues
        <4> QED
          BY <4>1 DEF Waiting
      <3>2. lost \subseteq Issues \X Deps
        BY <3>1 DEF LookedUp
      <3>3. IsFiniteSet(Issues \X Deps)
        BY FiniteIssues, SchedulerAssumption, FS_Product
      <3>4. Cardinality(lost) \in Nat
        BY <3>2, <3>3, FS_Subset, FS_CardinalityType
      <3> QED
        BY <1>0, <2>1, <3>4 DEF Refresh
    <2>4. /\ pc' \in {"launching", "sleeping"}
          /\ origin' \in {"start", "race", "refresh", "idle"}
          /\ refreshed' \in BOOLEAN
      BY <1>8 DEF RefreshOnce, RefreshIdle
    <2> QED
      BY <2>1, <2>2, <2>3, <2>4 DEF Refresh
  <1>9. CASE WakeUp
    BY <1>9 DEF WakeUp
  <1> QED
    BY <1>1, <1>2, <1>3, <1>4, <1>5, <1>6, <1>7, <1>8, <1>9 DEF Loop

LEMMA RunType ==
    ASSUME TypeOK, NEW i \in Issues, Run(i)
    PROVE  TypeOK'
  <1> USE DEF TypeOK, queueVars, loopVars, runVars, worldVars
  <1>0. MaxFaults \in Nat /\ faults \in 0..MaxFaults
    BY SchedulerAssumption
  <1>1. CASE Claim(i)
    <2>1. /\ labels' \in [Issues -> SUBSET {"agent:ready", "agent:in-progress"}]
          /\ unmarked' \subseteq Issues /\ faults' \in 0..MaxFaults
      BY <1>1, LabelCalls DEF Claim
    <2>2. PICK claim \in Claims : runs' = [runs EXCEPT ![i].claim = claim]
      BY <1>1 DEF Claim, Claims
    <2>3. runs' \in [Issues -> [phase : Phases, claim : Claims, outcome : Outcomes \cup {None}]]
      BY <2>2
    <2> QED
      BY <1>1, <2>1, <2>3 DEF Claim
  <1>2. CASE RunReturns(i)
    <2>1. PICK outcome \in Outcomes :
              /\ runs' = [runs EXCEPT ![i].phase = "returned", ![i].outcome = outcome]
              /\ done' = IF outcome = "PR_OPEN" THEN done \cup {i} ELSE done
      BY <1>2 DEF RunReturns
    <2>2. done' \subseteq Deps
      BY <2>1 DEF Deps
    <2>3. runs' \in [Issues -> [phase : Phases, claim : Claims, outcome : Outcomes \cup {None}]]
      <3> DEFINE all == [phase : Phases, claim : Claims, outcome : Outcomes \cup {None}]
                 r == [runs[i] EXCEPT !.phase = "returned", !.outcome = outcome]
      <3>1. runs \in [Issues -> all] /\ runs[i] \in all
        OBVIOUS
      <3>2. r \in all
        BY <3>1 DEF Phases
      <3>3. runs' = [runs EXCEPT ![i] = r]
        BY <2>1, <3>1
      <3> HIDE DEF all, r
      <3> QED
        BY <3>1, <3>2, <3>3 DEF all
    <2> QED
      BY <1>2, <2>2, <2>3 DEF RunReturns
  <1>3. CASE Release(i)
    <2>1. /\ labels' \in [Issues -> SUBSET {"agent:ready", "agent:in-progress"}]
          /\ unmarked' \subseteq Issues /\ faults' \in 0..MaxFaults
      BY <1>3, LabelCalls DEF Release
    <2>2. PICK phase \in Phases : runs' = [runs EXCEPT ![i].phase = phase]
      BY <1>3 DEF Release, Phases
    <2>3. runs' \in [Issues -> [phase : Phases, claim : Claims, outcome : Outcomes \cup {None}]]
      BY <2>2
    <2> QED
      BY <1>3, <2>1, <2>3 DEF Release
  <1>4. CASE Complete(i)
    <2>1. entries' = CompleteIssue(entries, i, runs[i].outcome, ActiveRuns \ {i})
      BY <1>4 DEF Complete
    <2>2. entries' \in Seq(Entry)
      BY <2>1, CompletedType
    <2>3. runs' \in [Issues -> [phase : Phases, claim : Claims, outcome : Outcomes \cup {None}]]
      BY <1>4 DEF Complete, Phases
    <2> QED
      BY <1>4, <2>2, <2>3 DEF Complete
  <1>5. CASE Leave(i)
    BY <1>5 DEF Leave, Phases
  <1> QED
    BY <1>1, <1>2, <1>3, <1>4, <1>5 DEF Run

LEMMA WorldType == TypeOK /\ World => TypeOK'
  <1> SUFFICES ASSUME TypeOK, World
               PROVE  TypeOK'
    OBVIOUS
  <1> USE DEF TypeOK, queueVars, loopVars, runVars, worldVars
  <1>1. CASE Signal
    BY <1>1 DEF Signal
  <1>2. ASSUME NEW i \in Issues, QueueAdd(i)
        PROVE  TypeOK'
    BY <1>2, AppendProperties DEF QueueAdd
  <1>3. ASSUME NEW d \in Deps, DependencyDone(d)
        PROVE  TypeOK'
    BY <1>3 DEF DependencyDone
  <1>4. CASE DeadlinePasses
    BY <1>4 DEF DeadlinePasses
  <1>5. CASE IdleTimePasses
    BY <1>5 DEF IdleTimePasses
  <1> QED
    BY <1>1, <1>2, <1>3, <1>4, <1>5 DEF World

(***************************************************************************)
(* The initial states.                                                     *)
(***************************************************************************)
\* New entries whose dependencies were all looked up.
LEMMA NewOnesFit ==
    ASSUME NEW batch \in Seq(Issues), NEW unmet, NEW invalid,
           \A l \in Links(batch) : l[2] \in done \/ l \in unmet,
           \A k \in DOMAIN batch : runs[batch[k]].phase = "none",
           NEW k \in DOMAIN batch
    PROVE  FitsIn(NewEntries(batch, unmet, invalid)[k], runs, done)
  <1> DEFINE e == NewEntries(batch, unmet, invalid)[k]
             i == batch[k]
  <1>1. /\ e.issue = i
        /\ e.waits = {d \in DependsOn[i] : <<i, d>> \in unmet}
        /\ e.state \in {"PENDING", "DEFERRED_DEPENDENCY", "DEFERRED_INVALID"}
        /\ e.state = "PENDING" => e.waits = {}
        /\ e.state = "DEFERRED_DEPENDENCY" => e.waits # {}
    BY NewOnes
  <1>2. i \in Issues /\ i \in ToSet(batch) /\ runs[i].phase = "none"
    BY DEF ToSet
  <1>3. DependsOn[i] \subseteq Deps
    BY <1>2, SchedulerAssumption
  <1> HIDE DEF e, i
  <1>4. ASSUME NEW d \in DependsOn[i], d \notin e.waits
        PROVE  d \in done
    <2>1. <<i, d>> \in Links(batch)
      BY <1>2, <1>3 DEF Links
    <2> QED
      BY <1>1, <1>4, <2>1
  <1>5. FitsIn(e, runs, done)
    BY <1>1, <1>2, <1>4 DEF FitsIn, Busy, Over
  <1> QED
    BY <1>5 DEF e

LEMMA InitInv == Init => Inv
  <1> SUFFICES ASSUME Init
               PROVE  Inv
    OBVIOUS
  <1>1. TypeOK
    BY InitType
  <1>2. /\ queued = ToSet(InitialQueue) /\ started = 0 /\ failed = 0 /\ pc = "merging"
        /\ merging = NothingToMerge /\ runs = [i \in Issues |-> NotLaunched]
    BY DEF Init
  <1>3. InitialQueue \in Seq(Issues)
    BY SchedulerAssumption
  <1>4. \A i \in Issues : runs[i].phase = "none"
    BY <1>2 DEF NotLaunched
  <1>5. PICK invalid \in SUBSET Links(InitialQueue) :
            entries = NewEntries(InitialQueue,
                          invalid \cup {l \in Links(InitialQueue) : l[2] \notin done}, invalid)
    BY DEF Init
  <1> DEFINE unmet == invalid \cup {l \in Links(InitialQueue) : l[2] \notin done}
  <1>6. \A l \in Links(InitialQueue) : l[2] \in done \/ l \in unmet
    OBVIOUS
  <1> HIDE DEF unmet
  <1>7. entries = NewEntries(InitialQueue, unmet, invalid)
    BY <1>5 DEF unmet
  <1>8. /\ DOMAIN entries = DOMAIN InitialQueue
        /\ \A k \in DOMAIN InitialQueue : entries[k].issue = InitialQueue[k]
    BY <1>3, <1>7, NewOnes
  <1>9. EntryInv
    <2>1. \A k \in DOMAIN InitialQueue : runs[InitialQueue[k]].phase = "none"
      BY <1>3, <1>4
    <2>2. ASSUME NEW k \in DOMAIN InitialQueue
          PROVE  FitsIn(NewEntries(InitialQueue, unmet, invalid)[k], runs, done)
      BY <1>3, <1>6, <2>1, NewOnesFit
    <2> QED
      BY <1>7, <1>8, <2>2 DEF EntryInv
  <1>10. merging.batch = <<>> /\ merging.left = {} /\ ToSet(<<>>) = {}
    BY <1>2, NothingToMergeType DEF ToSet
  <1>11. QueueInv
    <2>1. Known = ToSet(InitialQueue)
      BY <1>8 DEF Known, ToSet
    <2>2. Begun = {}
      BY <1>4 DEF Begun
    <2> QED
      BY <1>2, <1>10, <2>1, <2>2 DEF QueueInv
  <1>12. LookupInv
    BY <1>2, <1>10 DEF LookupInv
  <1>13. RunInv
    BY <1>4 DEF RunInv, DependenciesFirst, Busy, Over
  <1>14. InFlight = {} /\ {i \in Issues : runs[i].phase # "none"} = {}
    BY <1>4 DEF InFlight
  <1>15. CountInv
    <2>1. Cardinality({}) = 0
      BY FS_EmptySet
    <2>2. MaxStartedRuns \in Nat \cup {None} /\ MaxFailedRuns \in Nat \cup {None}
          /\ MaxConcurrentRuns \in Nat \ {0}
      BY SchedulerAssumption
    <2> QED
      BY <1>2, <1>14, <2>1, <2>2 DEF CountInv, EachIssueOnce, WithinLimit
  <1>16. NoOverlap
    BY <1>14 DEF NoOverlap
  <1> QED
    BY <1>1, <1>9, <1>11, <1>12, <1>13, <1>15, <1>16 DEF Inv

(***************************************************************************)
(* The steps.                                                              *)
(***************************************************************************)
\* A step that launches and completes nothing, and looks up no dependency of a
\* batch.
LEMMA Steady ==
    ASSUME Inv, TypeOK', EntryInv', Known' = Known,
           UNCHANGED <<queued, started, failed, merging>>,
           done \subseteq done',
           pc' = pc \/ merging.batch = <<>> \/ pc' = "crashed",
           pc' = "checking" => pc = "checking",
           \A i \in Issues :
              /\ runs'[i].phase \in Busy <=> runs[i].phase \in Busy
              /\ runs'[i].phase \in Over <=> runs[i].phase \in Over
              /\ runs'[i].phase \in Busy \cup Over /\ runs'[i].phase # "working"
                    /\ runs'[i].outcome = "PR_OPEN" => i \in done'
    PROVE  Inv'
  <1> USE DEF Inv
  <1>1. /\ \A i \in Issues : runs[i].phase \in Phases
        /\ \A i \in Issues : runs'[i].phase \in Phases
    BY DEF TypeOK
  <1>2. \A i \in Issues : runs'[i].phase # "none" <=> runs[i].phase # "none"
    BY <1>1 DEF Phases, Busy, Over
  <1>3. InFlight' = InFlight
    <2>1. InFlight = {i \in Issues : runs[i].phase \in Busy}
      BY Flights
    <2>2. InFlight' = {i \in Issues : runs'[i].phase \in Busy}
      BY <1>1 DEF InFlight, Busy, Phases
    <2> QED
      BY <2>1, <2>2
  <1>4. QueueInv'
    <2>1. Begun' = Begun
      BY <1>2 DEF Begun
    <2> QED
      BY <2>1 DEF QueueInv
  <1>5. LookupInv'
    BY DEF LookupInv
  <1>6. RunInv'
    BY <1>2 DEF RunInv, DependenciesFirst
  <1>7. CountInv'
    <2>1. {i \in Issues : runs'[i].phase # "none"} = {i \in Issues : runs[i].phase # "none"}
      BY <1>2
    <2> QED
      BY <1>3, <2>1 DEF CountInv, EachIssueOnce, WithinLimit
  <1>8. NoOverlap'
    BY <1>3 DEF NoOverlap
  <1> QED
    BY <1>4, <1>5, <1>6, <1>7, <1>8

\* The entries stay as they are, and so does what the runs are to them.
LEMMA EntriesStay ==
    ASSUME EntryInv, TypeOK, UNCHANGED entries, done \subseteq done',
           \A i \in Issues : /\ runs'[i].phase \in Busy <=> runs[i].phase \in Busy
                             /\ runs'[i].phase \in Over <=> runs[i].phase \in Over
    PROVE  EntryInv' /\ Known' = Known
  <1>1. ASSUME NEW k \in DOMAIN entries
        PROVE  FitsIn(entries[k], runs', done')
    BY <1>1, EntryIssues DEF EntryInv, FitsIn
  <1> QED
    BY <1>1 DEF EntryInv, Known

LEMMA RunKeeps ==
    ASSUME Inv, NEW i \in Issues, Run(i)
    PROVE  Inv'
  <1>0. TypeOK'
    BY RunType DEF Inv
  <1>1. /\ TypeOK
        /\ runs \in [Issues -> [phase : Phases, claim : Claims, outcome : Outcomes \cup {None}]]
        /\ EntryInv /\ RunInv
    BY DEF Inv, TypeOK
  <1>2. CASE Claim(i)
    <2>1. PICK claim \in Claims : runs' = [runs EXCEPT ![i].claim = claim]
      BY <1>2 DEF Claim, Claims
    <2>2. \A j \in Issues : runs'[j].phase = runs[j].phase /\ runs'[j].outcome = runs[j].outcome
      BY <1>1, <2>1
    <2>3. UNCHANGED <<entries, queued, started, failed, merging, pc, done>>
      BY <1>2 DEF Claim, queueVars, loopVars
    <2>4. EntryInv' /\ Known' = Known
      BY <1>1, <2>2, <2>3, EntriesStay
    <2>5. \A j \in Issues : runs'[j].phase \in Busy \cup Over /\ runs'[j].phase # "working"
                               /\ runs'[j].outcome = "PR_OPEN" => j \in done'
      BY <1>1, <2>2, <2>3 DEF RunInv
    <2> QED
      BY <1>0, <2>2, <2>3, <2>4, <2>5, Steady
  <1>3. CASE RunReturns(i)
    <2>1. PICK outcome \in Outcomes :
              /\ runs' = [runs EXCEPT ![i].phase = "returned", ![i].outcome = outcome]
              /\ done' = IF outcome = "PR_OPEN" THEN done \cup {i} ELSE done
      BY <1>3 DEF RunReturns
    <2>2. /\ \A j \in Issues \ {i} : runs'[j] = runs[j]
          /\ runs'[i].phase = "returned" /\ runs'[i].outcome = outcome
      BY <1>1, <2>1
    <2>3. UNCHANGED <<entries, queued, started, failed, merging, pc>> /\ done \subseteq done'
      BY <1>3, <2>1 DEF RunReturns, queueVars, loopVars
    <2>4. runs[i].phase = "working"
      BY <1>3 DEF RunReturns, IsAt
    <2>5. \A j \in Issues : /\ runs'[j].phase \in Busy <=> runs[j].phase \in Busy
                            /\ runs'[j].phase \in Over <=> runs[j].phase \in Over
      BY <2>2, <2>4 DEF Busy, Over
    <2>6. EntryInv' /\ Known' = Known
      BY <1>1, <2>3, <2>5, EntriesStay
    <2>7. ASSUME NEW j \in Issues, runs'[j].phase \in Busy \cup Over, runs'[j].phase # "working",
                 runs'[j].outcome = "PR_OPEN"
          PROVE  j \in done'
      <3>1. CASE j = i
        BY <2>1, <2>2, <2>7, <3>1
      <3>2. CASE j # i
        BY <1>1, <2>2, <2>3, <2>7, <3>2 DEF RunInv
      <3> QED
        BY <3>1, <3>2
    <2> QED
      BY <1>0, <2>3, <2>5, <2>6, <2>7, Steady
  <1>4. CASE Release(i)
    <2>1. PICK phase \in {"half", "released"} : runs' = [runs EXCEPT ![i].phase = phase]
      BY <1>4 DEF Release
    <2>2. runs[i].phase \in {"returned", "half"}
      BY <1>4 DEF Release, MayRelease, IsAt
    <2>3. /\ \A j \in Issues \ {i} : runs'[j] = runs[j]
          /\ runs'[i].phase = phase /\ runs'[i].outcome = runs[i].outcome
      BY <1>1, <2>1
    <2>4. UNCHANGED <<entries, queued, started, failed, merging, pc, done>>
      BY <1>4 DEF Release, queueVars, loopVars
    <2>5. \A j \in Issues : /\ runs'[j].phase \in Busy <=> runs[j].phase \in Busy
                            /\ runs'[j].phase \in Over <=> runs[j].phase \in Over
      BY <2>2, <2>3 DEF Busy, Over
    <2>6. EntryInv' /\ Known' = Known
      BY <1>1, <2>4, <2>5, EntriesStay
    <2>7. \A j \in Issues : runs'[j].phase \in Busy \cup Over /\ runs'[j].phase # "working"
                               /\ runs'[j].outcome = "PR_OPEN" => j \in done'
      BY <1>1, <2>2, <2>3, <2>4 DEF RunInv, Busy
    <2> QED
      BY <1>0, <2>4, <2>5, <2>6, <2>7, Steady
  <1>5. CASE Leave(i)
    <2>1. /\ \A j \in Issues \ {i} : runs'[j] = runs[j]
          /\ runs'[i].phase = "left" /\ runs'[i].outcome = runs[i].outcome
          /\ runs[i].phase = "settled"
      BY <1>1, <1>5 DEF Leave, IsAt
    <2>2. UNCHANGED <<entries, queued, started, failed, merging, pc, done>>
      BY <1>5 DEF Leave, queueVars, loopVars, worldVars
    <2>3. \A j \in Issues : /\ runs'[j].phase \in Busy <=> runs[j].phase \in Busy
                            /\ runs'[j].phase \in Over <=> runs[j].phase \in Over
      BY <2>1 DEF Busy, Over
    <2>4. EntryInv' /\ Known' = Known
      BY <1>1, <2>2, <2>3, EntriesStay
    <2>5. \A j \in Issues : runs'[j].phase \in Busy \cup Over /\ runs'[j].phase # "working"
                               /\ runs'[j].outcome = "PR_OPEN" => j \in done'
      BY <1>1, <2>1, <2>2 DEF RunInv, Over
    <2> QED
      BY <1>0, <2>2, <2>3, <2>4, <2>5, Steady
  <1>6. CASE Complete(i)
    <2>1. /\ entries' = CompleteIssue(entries, i, runs[i].outcome, ActiveRuns \ {i})
          /\ failed' = IF runs[i].outcome \in {"FAILED", "BLOCKED"} THEN failed + 1 ELSE failed
          /\ runs' = [runs EXCEPT ![i].phase = "settled"]
          /\ UNCHANGED <<queued, started, merging, pc, done>>
      BY <1>6 DEF Complete, loopVars, worldVars
    <2>2. runs[i].phase \in {"returned", "released"}
      BY <1>6 DEF Complete, MayComplete, MayRelease, IsAt
    <2>3. /\ \A j \in Issues \ {i} : runs'[j] = runs[j]
          /\ runs'[i].phase = "settled" /\ runs'[i].outcome = runs[i].outcome
      BY <1>1, <2>1
    <2>4. entries \in Seq(Entry)
      BY <1>1 DEF TypeOK
    <2>5. runs[i].outcome = "PR_OPEN" => i \in done
      BY <1>1, <2>2 DEF RunInv, Busy
    <2>6. \A k \in DOMAIN entries : FitsIn(entries[k], runs, done)
      BY <1>1 DEF EntryInv
    <2>7. \A k \in DOMAIN CompleteIssue(entries, i, runs[i].outcome, ActiveRuns \ {i}) :
             FitsIn(CompleteIssue(entries, i, runs[i].outcome, ActiveRuns \ {i})[k], runs', done)
      <3>1. runs'[i].phase = "settled" /\ \A j \in Issues : j # i => runs'[j].phase = runs[j].phase
        BY <2>3
      <3> QED
        BY <2>4, <2>5, <2>6, <3>1, Completed
    <2>8. EntryInv'
      BY <2>1, <2>7 DEF EntryInv
    <2>9. Known' = Known
      <3>1. /\ DOMAIN entries' = DOMAIN entries
            /\ \A k \in DOMAIN entries : entries'[k].issue = entries[k].issue
        BY <2>1, <2>4, CompletedType
      <3> QED
        BY <3>1 DEF Known
    <2>10. \A j \in Issues : runs'[j].phase # "none" <=> runs[j].phase # "none"
      BY <2>2, <2>3
    <2>11. QueueInv' /\ LookupInv'
      <3>1. Begun' = Begun
        BY <2>10 DEF Begun
      <3> QED
        BY <2>1, <2>9, <3>1 DEF Inv, QueueInv, LookupInv
    <2>12. RunInv'
      <3>1. ASSUME NEW j \in Issues, runs'[j].phase \in Busy \cup Over, runs'[j].phase # "working",
                   runs'[j].outcome = "PR_OPEN"
            PROVE  j \in done'
        <4>1. CASE j = i
          BY <2>1, <2>3, <2>5, <3>1, <4>1
        <4>2. CASE j # i
          BY <1>1, <2>1, <2>3, <3>1, <4>2 DEF RunInv
        <4> QED
          BY <4>1, <4>2
      <3>2. DependenciesFirst'
        BY <1>1, <2>1, <2>10 DEF RunInv, DependenciesFirst
      <3> QED
        BY <3>1, <3>2 DEF RunInv
    <2>13. InFlight' = InFlight \ {i} /\ i \in InFlight
      BY <2>2, <2>3 DEF InFlight
    <2>14. CountInv'
      <3>1. IsFiniteSet(InFlight) /\ Cardinality(InFlight) \in Nat
        BY FiniteIssues DEF InFlight
      <3>2. Cardinality(InFlight') = Cardinality(InFlight) - 1
        BY <2>13, <3>1, FS_RemoveElement
      <3>3. {j \in Issues : runs'[j].phase # "none"} = {j \in Issues : runs[j].phase # "none"}
        BY <2>10
      <3>4. EachIssueOnce'
        BY <2>1, <3>3 DEF Inv, CountInv, EachIssueOnce
      <3>5. MaxFailedRuns \in Nat \cup {None} /\ MaxConcurrentRuns \in Nat /\ failed \in Nat
        BY <1>1, SchedulerAssumption DEF TypeOK
      <3>6. WithinLimit'
        BY <3>1, <3>2, <3>5 DEF Inv, CountInv, WithinLimit
      <3>7. MaxStartedRuns # None => started' <= MaxStartedRuns
        BY <2>1 DEF Inv, CountInv
      <3>8. MaxFailedRuns # None =>
               failed' + Cardinality(InFlight') <= MaxFailedRuns + MaxConcurrentRuns - 1
        BY <2>1, <3>1, <3>2, <3>5 DEF Inv, CountInv
      <3> QED
        BY <3>4, <3>6, <3>7, <3>8 DEF CountInv
    <2>15. NoOverlap'
      BY <2>13 DEF Inv, NoOverlap
    <2> QED
      BY <1>0, <2>8, <2>11, <2>12, <2>14, <2>15 DEF Inv
  <1> QED
    BY <1>2, <1>3, <1>4, <1>5, <1>6 DEF Run

LEMMA WorldKeeps == Inv /\ World => Inv'
  <1> SUFFICES ASSUME Inv, World
               PROVE  Inv'
    OBVIOUS
  <1>1. TypeOK'
    BY WorldType DEF Inv
  <1>2. UNCHANGED <<entries, queued, started, failed, merging, pc, runs>> /\ done \subseteq done'
    BY DEF World, Signal, QueueAdd, DependencyDone, DeadlinePasses, IdleTimePasses,
           queueVars, loopVars, runVars
  <1>3. EntryInv' /\ Known' = Known
    BY <1>2, EntriesStay DEF Inv
  <1>4. \A i \in Issues : runs'[i].phase \in Busy \cup Over /\ runs'[i].phase # "working"
                             /\ runs'[i].outcome = "PR_OPEN" => i \in done'
    BY <1>2 DEF Inv, RunInv
  <1> QED
    BY <1>1, <1>2, <1>3, <1>4, Steady

\* What a launch decides on: an issue that was never launched, with all it
\* depends on done, in conflict with nothing that runs.
LEMMA LaunchChoice ==
    ASSUME Inv, NEW es, es = RefreshConflictStates(entries, ActiveRuns),
           NEW k, k = FindStartable(es), k # 0
    PROVE  /\ es \in Seq(Entry) /\ DOMAIN es = DOMAIN entries
           /\ k \in DOMAIN es /\ es[k].issue = entries[k].issue
           /\ es[k].issue \in Issues /\ es[k].issue \in Known
           /\ runs[es[k].issue].phase = "none"
           /\ es[k].state = "PENDING"
           /\ DependsOn[es[k].issue] \subseteq done
           /\ \A j \in InFlight : <<es[k].issue, j>> \notin ScopesConflict
           /\ Cardinality(InFlight) < MaxConcurrentRuns
           /\ ~IsStartBudgetExhausted
  <1>1. TypeOK /\ EntryInv /\ entries \in Seq(Entry)
    BY DEF Inv, TypeOK
  <1>2. es \in Seq(Entry) /\ DOMAIN es = DOMAIN entries
    BY <1>1, Refreshed
  <1>3. /\ k \in DOMAIN es /\ Startable(es[k], ActiveRuns)
        /\ ~IsStartBudgetExhausted /\ ~(Cardinality(ActiveRuns) >= MaxConcurrentRuns)
    BY <1>2, Startables
  <1>4. es[k].issue = entries[k].issue
    BY <1>1, <1>2, <1>3, SameIssues
  <1>5. es[k].issue \in Issues /\ es[k].issue \in Known
    BY <1>1, <1>2, <1>3, <1>4, EntryIssues DEF Known
  <1>6. FitsIn(es[k], runs, done)
    BY <1>1, <1>2, <1>3, RefreshFits DEF EntryInv
  <1>7. es[k].state = "PENDING" /\ es[k].waits = {} /\ ~Conflicts(es[k].issue, ActiveRuns)
    BY <1>3 DEF Startable
  <1>8. ActiveRuns = InFlight
    BY <1>1, Flights
  <1>9. runs[es[k].issue].phase = "none"
    <2>1. runs[es[k].issue].phase \in Phases
      BY <1>1, <1>5 DEF TypeOK
    <2> QED
      BY <1>6, <1>7, <2>1 DEF FitsIn, Phases, Busy, Over
  <1>10. DependsOn[es[k].issue] \subseteq done
    BY <1>6, <1>7 DEF FitsIn
  <1>11. \A j \in InFlight : <<es[k].issue, j>> \notin ScopesConflict
    BY <1>7, <1>8 DEF Conflicts
  <1>12. Cardinality(InFlight) < MaxConcurrentRuns
    <2>1. Cardinality(InFlight) \in Nat /\ MaxConcurrentRuns \in Nat
      BY FiniteIssues, SchedulerAssumption DEF InFlight
    <2> QED
      BY <1>3, <1>8, <2>1
  <1> QED
    BY <1>2, <1>3, <1>4, <1>5, <1>7, <1>9, <1>10, <1>11, <1>12

LEMMA LaunchKeeps == Inv /\ Launch => Inv'
  <1> SUFFICES ASSUME Inv, Launch
               PROVE  Inv'
    OBVIOUS
  <1> DEFINE es == RefreshConflictStates(entries, ActiveRuns)
             k  == FindStartable(es)
             i  == es[k].issue
  <1>0. TypeOK'
    BY LoopType DEF Inv, Loop
  <1>1. /\ k # 0 /\ entries' = MarkIssueRunning(es, i) /\ started' = started + 1
        /\ runs' = [runs EXCEPT ![i] = Launched]
        /\ UNCHANGED <<queued, failed, merging, pc, done>>
    BY DEF Launch, loopVars, worldVars
  <1>2. /\ es \in Seq(Entry) /\ DOMAIN es = DOMAIN entries
        /\ i \in Issues /\ i \in Known /\ runs[i].phase = "none"
        /\ DependsOn[i] \subseteq done
        /\ \A j \in InFlight : <<i, j>> \notin ScopesConflict
        /\ Cardinality(InFlight) < MaxConcurrentRuns /\ ~IsStartBudgetExhausted
    BY <1>1, LaunchChoice
  <1>3. \A n \in DOMAIN es : FitsIn(es[n], runs, done) /\ es[n] \in Entry
    <2>1. entries \in Seq(Entry) /\ \A n \in DOMAIN entries : FitsIn(entries[n], runs, done)
      BY DEF Inv, TypeOK, EntryInv
    <2>2. \A n \in DOMAIN es : FitsIn(es[n], runs, done)
      BY <2>1, RefreshFits
    <2> HIDE DEF es
    <2>3. \A n \in DOMAIN es : es[n] \in Entry
      BY <1>2
    <2> QED
      BY <2>2, <2>3
  <1>4. \A n \in DOMAIN entries : es[n].issue = entries[n].issue
    <2>1. entries \in Seq(Entry)
      BY DEF Inv, TypeOK
    <2> QED
      BY <2>1, SameIssues
  <1> HIDE DEF es, k, i
  <1>5. /\ DOMAIN entries' = DOMAIN es
        /\ \A n \in DOMAIN es :
              /\ entries'[n].issue = es[n].issue /\ entries'[n].waits = es[n].waits
              /\ entries'[n].state = IF es[n].issue = i THEN "RUNNING" ELSE es[n].state
    BY <1>1, <1>2, Marked
  <1>6. /\ runs'[i].phase = "working" /\ \A j \in Issues \ {i} : runs'[j] = runs[j]
    BY <1>1, <1>2 DEF Inv, TypeOK, Launched
  <1>7. EntryInv'
    <2>1. ASSUME NEW n \in DOMAIN es
          PROVE  FitsIn(entries'[n], runs', done')
      <3>1. es[n].issue \in Issues
        BY <1>3 DEF Entry
      <3>2. CASE es[n].issue = i
        <4>1. DependsOn[es[n].issue] \ es[n].waits \subseteq done
          BY <1>3 DEF FitsIn
        <4> QED
          BY <1>1, <1>5, <1>6, <3>2, <4>1 DEF FitsIn, Busy, Over
      <3>3. CASE es[n].issue # i
        BY <1>1, <1>3, <1>5, <1>6, <3>1, <3>3 DEF FitsIn
      <3> QED
        BY <3>2, <3>3
    <2> QED
      BY <1>5, <2>1 DEF EntryInv
  <1>8. Known' = Known
    BY <1>2, <1>4, <1>5 DEF Known
  <1>9. Begun' = Begun \cup {i}
    BY <1>2, <1>6 DEF Begun
  <1>10. QueueInv'
    BY <1>1, <1>2, <1>8, <1>9 DEF Inv, QueueInv
  <1>11. LookupInv'
    BY <1>1 DEF Inv, LookupInv
  <1>12. RunInv'
    BY <1>1, <1>2, <1>6 DEF Inv, RunInv, DependenciesFirst
  <1>13. InFlight' = InFlight \cup {i} /\ i \notin InFlight
    BY <1>2, <1>6 DEF InFlight
  <1>14. CountInv'
    <2>1. IsFiniteSet(InFlight) /\ IsFiniteSet(Begun)
      BY FiniteIssues DEF InFlight, Begun
    <2>2. Cardinality(InFlight') = Cardinality(InFlight) + 1 /\ Cardinality(InFlight) \in Nat
      BY <1>13, <2>1, FS_AddElement, FS_CardinalityType
    <2>3. i \notin Begun
      BY <1>2 DEF Begun
    <2>4. Cardinality(Begun') = Cardinality(Begun) + 1
      BY <1>9, <2>1, <2>3, FS_AddElement
    <2>5. EachIssueOnce'
      BY <1>1, <2>4 DEF Inv, CountInv, EachIssueOnce, Begun
    <2>6. /\ MaxFailedRuns \in Nat \cup {None} /\ MaxStartedRuns \in Nat \cup {None}
          /\ MaxConcurrentRuns \in Nat /\ failed \in Nat /\ started \in Nat
      BY SchedulerAssumption DEF Inv, TypeOK
    <2>7. WithinLimit'
      BY <1>2, <2>2, <2>6 DEF WithinLimit
    <2>8. /\ MaxStartedRuns # None => started < MaxStartedRuns
          /\ MaxFailedRuns # None => failed < MaxFailedRuns
      BY <1>2, <2>6 DEF IsStartBudgetExhausted, Reached
    <2>9. MaxStartedRuns # None => started' <= MaxStartedRuns
      BY <1>1, <2>6, <2>8
    <2>10. MaxFailedRuns # None =>
              failed' + Cardinality(InFlight') <= MaxFailedRuns + MaxConcurrentRuns - 1
      BY <1>1, <1>2, <2>2, <2>6, <2>8
    <2> QED
      BY <2>5, <2>7, <2>9, <2>10 DEF CountInv
  <1>15. NoOverlap'
    BY <1>2, <1>13, SchedulerAssumption DEF Inv, NoOverlap, InFlight
  <1> QED
    BY <1>0, <1>7, <1>10, <1>11, <1>12, <1>14, <1>15 DEF Inv

\* A step that leaves the runs alone.
LEMMA RunsStay ==
    ASSUME Inv, UNCHANGED <<runs, started, failed>>, done \subseteq done'
    PROVE  RunInv' /\ CountInv' /\ NoOverlap' /\ InFlight' = InFlight /\ Begun' = Begun
  <1>1. InFlight' = InFlight /\ Begun' = Begun
    BY DEF InFlight, Begun
  <1>2. RunInv'
    BY DEF Inv, RunInv, DependenciesFirst
  <1>3. CountInv'
    BY <1>1 DEF Inv, CountInv, EachIssueOnce, WithinLimit
  <1>4. NoOverlap'
    BY <1>1 DEF Inv, NoOverlap
  <1> QED
    BY <1>1, <1>2, <1>3, <1>4

LEMMA MergeKeeps == Inv /\ (MergePending \/ FetchIssues \/ CheckDependency \/ FinishMerge) => Inv'
  <1> SUFFICES ASSUME Inv, MergePending \/ FetchIssues \/ CheckDependency \/ FinishMerge
               PROVE  Inv'
    OBVIOUS
  <1>0. TypeOK'
    BY LoopType DEF Inv, Loop
  <1>1. UNCHANGED <<runs, started, failed, done>>
    BY DEF MergePending, FetchIssues, CheckDependency, FinishMerge, queueVars, runVars, worldVars
  <1>2. RunInv' /\ CountInv' /\ NoOverlap' /\ Begun' = Begun
    BY <1>1, RunsStay
  <1>3. /\ TypeOK /\ EntryInv /\ QueueInv /\ LookupInv
        /\ merging \in [batch : Seq(Issues), left : SUBSET (Issues \X Deps),
                        unmet : SUBSET (Issues \X Deps), invalid : SUBSET (Issues \X Deps)]
    BY DEF Inv, TypeOK
  <1>4. UNCHANGED entries => EntryInv' /\ Known' = Known
    BY <1>1 DEF Inv, EntryInv, Known
  <1>5. CASE MergePending
    <2>1. /\ queued' = queued \cup ToSet(NewPending)
          /\ merging' = [NothingToMerge EXCEPT !.batch = NewPending]
          /\ UNCHANGED entries /\ pc \in {"merging", "racing"}
          /\ pc' = IF NewPending = <<>> THEN AfterMerge(IF pc = "racing" THEN "race" ELSE origin)
                     ELSE "fetching"
      BY <1>5 DEF MergePending
    <2>2. merging'.batch = NewPending /\ merging'.left = {}
      BY <2>1 DEF NothingToMerge
    <2>3. merging.batch = <<>> /\ ToSet(<<>>) = {}
      BY <1>3, <2>1 DEF QueueInv, ToSet
    <2>4. ToSet(NewPending) \cap queued = {}
      BY <1>3, Arrivals
    <2>5. QueueInv'
      BY <1>2, <1>3, <1>4, <2>1, <2>2, <2>3, <2>4 DEF QueueInv
    <2>6. pc' # "checking"
      BY <2>1 DEF AfterMerge
    <2>7. LookupInv'
      BY <2>2, <2>6 DEF LookupInv
    <2> QED
      BY <1>0, <1>2, <1>4, <2>1, <2>5, <2>7 DEF Inv
  <1>6. CASE FetchIssues
    <2>1. /\ merging' = [merging EXCEPT !.left = Links(merging.batch)]
          /\ pc' = "checking" /\ UNCHANGED <<entries, queued>>
      BY <1>6 DEF FetchIssues, queueVars
    <2>2. merging'.batch = merging.batch /\ merging'.left = Links(merging.batch)
      BY <1>3, <2>1
    <2>3. QueueInv'
      BY <1>2, <1>3, <1>4, <2>1, <2>2 DEF QueueInv
    <2>4. LookupInv'
      BY <2>2 DEF LookupInv
    <2> QED
      BY <1>0, <1>2, <1>4, <2>1, <2>3, <2>4 DEF Inv
  <1>7. CASE CheckDependency
    <2>1. PICK l \in merging.left :
              \/ merging' = [merging EXCEPT !.left = @ \ {l},
                                            !.unmet = IF l[2] \in done THEN @ ELSE @ \cup {l}]
              \/ merging' = [merging EXCEPT !.left = @ \ {l}, !.unmet = @ \cup {l},
                                            !.invalid = @ \cup {l}]
      BY <1>7 DEF CheckDependency
    <2>2. UNCHANGED <<entries, queued, pc>> /\ pc = "checking"
      BY <1>7 DEF CheckDependency, queueVars
    <2>3. /\ merging'.batch = merging.batch /\ merging'.left = merging.left \ {l}
          /\ merging.unmet \subseteq merging'.unmet /\ (l[2] \in done \/ l \in merging'.unmet)
      <3>1. CASE merging' = [merging EXCEPT !.left = @ \ {l},
                                            !.unmet = IF l[2] \in done THEN @ ELSE @ \cup {l}]
        BY <1>3, <3>1
      <3>2. CASE merging' = [merging EXCEPT !.left = @ \ {l}, !.unmet = @ \cup {l},
                                            !.invalid = @ \cup {l}]
        BY <1>3, <3>2
      <3> QED
        BY <2>1, <3>1, <3>2
    <2>4. QueueInv'
      BY <1>2, <1>3, <1>4, <2>2, <2>3 DEF QueueInv
    <2>5. LookupInv'
      BY <1>1, <1>3, <2>2, <2>3 DEF LookupInv
    <2> QED
      BY <1>0, <1>2, <1>4, <2>2, <2>4, <2>5 DEF Inv
  <1>8. CASE FinishMerge
    <2> DEFINE batch == merging.batch
               new   == NewEntries(batch, merging.unmet, merging.invalid)
    <2>1. /\ entries' = entries \o new /\ merging' = NothingToMerge
          /\ pc = "checking" /\ merging.left = {} /\ pc' = AfterMerge(origin) /\ UNCHANGED queued
      BY <1>8 DEF FinishMerge
    <2>2. batch \in Seq(Issues) /\ entries \in Seq(Entry)
      BY <1>3 DEF TypeOK
    <2>3. \A l \in Links(batch) : l[2] \in done \/ l \in merging.unmet
      BY <1>3, <2>1 DEF LookupInv
    <2>4. \A n \in DOMAIN batch : runs[batch[n]].phase = "none"
      <3>1. \A n \in DOMAIN batch : batch[n] \in ToSet(batch) /\ batch[n] \in Issues
        BY <2>2 DEF ToSet
      <3> QED
        BY <1>3, <3>1 DEF QueueInv, Begun
    <2>5. /\ new \in Seq(Entry) /\ DOMAIN new = DOMAIN batch
          /\ \A n \in DOMAIN batch : new[n].issue = batch[n]
      BY <2>2, NewOnes
    <2>6. ASSUME NEW n \in DOMAIN batch
          PROVE  FitsIn(new[n], runs, done)
      BY <2>2, <2>3, <2>4, NewOnesFit
    <2>7. \A n \in DOMAIN entries : FitsIn(entries[n], runs, done)
      BY <1>3 DEF EntryInv
    <2> HIDE DEF batch, new
    <2>8. /\ Len(entries) \in Nat /\ Len(new) \in Nat
          /\ DOMAIN entries = 1..Len(entries) /\ DOMAIN new = 1..Len(new)
          /\ DOMAIN entries' = 1..Len(entries) + Len(new)
          /\ \A n \in DOMAIN entries : entries'[n] = entries[n]
          /\ \A n \in DOMAIN new : entries'[Len(entries) + n] = new[n]
      BY <2>1, <2>2, <2>5, ConcatProperties
    <2>9. ASSUME NEW n \in DOMAIN entries'
          PROVE  \/ n \in DOMAIN entries /\ entries'[n] = entries[n]
                 \/ \E m \in DOMAIN new : entries'[n] = new[m]
      <3>1. CASE n <= Len(entries)
        BY <2>8, <3>1
      <3>2. CASE n > Len(entries)
        <4>1. n - Len(entries) \in DOMAIN new /\ Len(entries) + (n - Len(entries)) = n
          BY <2>8, <3>2
        <4> QED
          BY <2>8, <4>1
      <3> QED
        BY <2>8, <3>1, <3>2
    <2>10. EntryInv'
      BY <1>1, <2>5, <2>6, <2>7, <2>9 DEF EntryInv
    <2>11. Known' = Known \cup ToSet(batch)
      <3>1. \A n \in DOMAIN entries : n \in DOMAIN entries'
        BY <2>8
      <3>2. \A n \in DOMAIN new : Len(entries) + n \in DOMAIN entries'
        BY <2>8
      <3>3. Known \cup ToSet(batch) \subseteq Known'
        <4>1. Known \subseteq Known'
          BY <2>8, <3>1 DEF Known
        <4>2. ToSet(batch) \subseteq Known'
          BY <2>5, <2>8, <3>2 DEF Known, ToSet
        <4> QED
          BY <4>1, <4>2
      <3>4. Known' \subseteq Known \cup ToSet(batch)
        BY <2>5, <2>9 DEF Known, ToSet
      <3> QED
        BY <3>3, <3>4
    <2>12. merging'.batch = <<>> /\ merging'.left = {} /\ ToSet(<<>>) = {}
      BY <2>1, NothingToMergeType DEF ToSet
    <2>13. QueueInv'
      BY <1>2, <1>3, <2>1, <2>11, <2>12 DEF QueueInv, batch
    <2>14. LookupInv'
      BY <2>1, <2>12 DEF LookupInv, AfterMerge
    <2> QED
      BY <1>0, <1>2, <2>10, <2>13, <2>14 DEF Inv
  <1> QED
    BY <1>5, <1>6, <1>7, <1>8

\* The steps of the loop that launch nothing and merge nothing.
LEMMA RestKeeps ==
    ASSUME Inv,
           \/ StopLaunching \/ FetchFails \/ WakeUp
           \/ \E lost \in SUBSET LookedUp : RefreshOnce(lost) \/ RefreshIdle(lost)
    PROVE  Inv'
  <1>0. TypeOK'
    BY LoopType DEF Inv, Loop
  <1>1. /\ TypeOK /\ entries \in Seq(Entry) /\ EntryInv /\ QueueInv /\ RunInv
        /\ \A n \in DOMAIN entries : FitsIn(entries[n], runs, done)
    BY DEF Inv, TypeOK, EntryInv
  <1>2. UNCHANGED <<queued, started, failed, merging, runs, done>>
    BY DEF StopLaunching, FetchFails, WakeUp, RefreshOnce, RefreshIdle, Refresh,
           queueVars, runVars, worldVars
  <1>3. \A i \in Issues : runs'[i].phase \in Busy \cup Over /\ runs'[i].phase # "working"
                             /\ runs'[i].outcome = "PR_OPEN" => i \in done'
    BY <1>1, <1>2 DEF RunInv
  <1>4. UNCHANGED entries => EntryInv' /\ Known' = Known
    BY <1>1, <1>2 DEF EntryInv, Known
  <1>5. CASE StopLaunching
    <2> DEFINE es == RefreshConflictStates(entries, ActiveRuns)
    <2>1. entries' = es \/ UNCHANGED entries
      BY <1>5 DEF StopLaunching
    <2>2. DOMAIN es = DOMAIN entries /\ \A n \in DOMAIN entries : es[n].issue = entries[n].issue
      BY <1>1, Refreshed, SameIssues
    <2>3. \A n \in DOMAIN es : FitsIn(es[n], runs, done)
      BY <1>1, RefreshFits
    <2> HIDE DEF es
    <2>4. entries' = es => EntryInv' /\ Known' = Known
      BY <1>2, <2>2, <2>3 DEF EntryInv, Known
    <2>5. merging.batch = <<>> /\ pc' # "checking"
      BY <1>1, <1>5 DEF QueueInv, StopLaunching, AfterLaunch, LoopHead, IdleOrExit
    <2> QED
      BY <1>0, <1>2, <1>3, <1>4, <2>1, <2>4, <2>5, Steady
  <1>6. CASE FetchFails
    <2>1. pc' = "crashed" /\ UNCHANGED entries
      BY <1>6 DEF FetchFails, queueVars
    <2> QED
      BY <1>0, <1>2, <1>3, <1>4, <2>1, Steady
  <1>7. CASE WakeUp
    <2>1. pc' = "merging" /\ UNCHANGED entries /\ merging.batch = <<>>
      BY <1>1, <1>7 DEF WakeUp, queueVars, QueueInv
    <2> QED
      BY <1>0, <1>2, <1>3, <1>4, <2>1, Steady
  <1>8. ASSUME NEW lost \in SUBSET LookedUp, RefreshOnce(lost) \/ RefreshIdle(lost)
        PROVE  Inv'
    <2>1. /\ entries' = RefreshDependencies(entries, lost)
          /\ pc = "refreshing" /\ pc' \in {"launching", "sleeping"}
      BY <1>8 DEF RefreshOnce, RefreshIdle, Refresh
    <2>2. /\ DOMAIN entries' = DOMAIN entries
          /\ \A n \in DOMAIN entries :
                /\ entries'[n].issue = entries[n].issue
                /\ entries[n].state # "DEFERRED_DEPENDENCY" => entries'[n] = entries[n]
                /\ entries[n].state = "DEFERRED_DEPENDENCY" =>
                     /\ entries'[n].waits = {d \in DependsOn[entries[n].issue] :
                                                <<entries[n].issue, d>> \in lost \/ d \notin done}
                     /\ entries'[n].state =
                          IF entries'[n].waits = {} THEN "PENDING" ELSE "DEFERRED_DEPENDENCY"
      BY <1>1, <2>1, LookedUpAgain
    <2>3. ASSUME NEW n \in DOMAIN entries
          PROVE  FitsIn(entries'[n], runs, done)
      <3>1. CASE entries[n].state # "DEFERRED_DEPENDENCY"
        BY <1>1, <2>2, <3>1
      <3>2. CASE entries[n].state = "DEFERRED_DEPENDENCY"
        <4> DEFINE e == entries[n]
                   u == entries'[n]
        <4>1. /\ u.issue = e.issue
              /\ u.waits = {d \in DependsOn[e.issue] : <<e.issue, d>> \in lost \/ d \notin done}
              /\ u.state = IF u.waits = {} THEN "PENDING" ELSE "DEFERRED_DEPENDENCY"
          BY <2>2, <3>2
        <4>2. FitsIn(e, runs, done) /\ e.state = "DEFERRED_DEPENDENCY"
          BY <1>1, <3>2
        <4> HIDE DEF e, u
        <4>3. DependsOn[u.issue] \ u.waits \subseteq done
          BY <4>1
        <4>4. FitsIn(u, runs, done)
          BY <4>1, <4>2, <4>3 DEF FitsIn
        <4> QED
          BY <4>4 DEF u
      <3> QED
        BY <3>1, <3>2
    <2>4. EntryInv' /\ Known' = Known
      BY <1>2, <2>2, <2>3 DEF EntryInv, Known
    <2>5. merging.batch = <<>>
      BY <1>1, <2>1 DEF QueueInv
    <2> QED
      BY <1>0, <1>2, <1>3, <2>1, <2>4, <2>5, Steady
  <1> QED
    BY <1>5, <1>6, <1>7, <1>8

LEMMA NextKeeps == Inv /\ [Next]_vars => Inv'
  <1> SUFFICES ASSUME Inv, [Next]_vars
               PROVE  Inv'
    OBVIOUS
  <1>1. CASE Loop
    BY <1>1, LaunchKeeps, MergeKeeps, RestKeeps DEF Loop
  <1>2. ASSUME NEW i \in Issues, Run(i)
        PROVE  Inv'
    BY <1>2, RunKeeps
  <1>3. CASE World
    BY <1>3, WorldKeeps
  <1>4. CASE UNCHANGED vars
    <2>1. TypeOK'
      BY <1>4 DEF Inv, TypeOK, vars, queueVars, loopVars, runVars, worldVars
    <2>2. UNCHANGED <<entries, queued, started, failed, merging, pc, runs, done>>
      BY <1>4 DEF vars, queueVars, loopVars, runVars, worldVars
    <2>3. EntryInv' /\ Known' = Known
      BY <2>2 DEF Inv, EntryInv, Known
    <2>4. \A i \in Issues : runs'[i].phase \in Busy \cup Over /\ runs'[i].phase # "working"
                               /\ runs'[i].outcome = "PR_OPEN" => i \in done'
      BY <2>2 DEF Inv, RunInv
    <2> QED
      BY <2>1, <2>2, <2>3, <2>4, Steady
  <1> QED
    BY <1>1, <1>2, <1>3, <1>4 DEF Next

(***************************************************************************)
(* The theorems.                                                           *)
(***************************************************************************)
\* The loop, its runs and the world keep the invariant, whatever the order of
\* their steps.
THEOREM Invariant == Spec => []Inv
  <1> QED
    BY InitInv, NextKeeps, PTL DEF Spec

\* The variables keep their types.
THEOREM TypesHold == Spec => []TypeOK
  <1>1. Inv => TypeOK
    BY DEF Inv
  <1> QED
    BY <1>1, Invariant, PTL

\* completeIssue, mergePending and launchAvailable rewrite the queue file in
\* turn, and it says RUNNING and COMPLETED of exactly the issues that are.
THEOREM EntriesFollowRuns == Spec => []EntriesMatchRuns
  <1>1. Inv => EntriesMatchRuns
    <2> SUFFICES ASSUME Inv, NEW k \in DOMAIN entries
                 PROVE  /\ entries[k].state = "RUNNING" <=> entries[k].issue \in InFlight
                        /\ entries[k].state = "COMPLETED" <=>
                              runs[entries[k].issue].phase \in {"settled", "left"}
      BY DEF EntriesMatchRuns
    <2>1. TypeOK /\ FitsIn(entries[k], runs, done)
      BY DEF Inv, EntryInv
    <2>2. InFlight = {i \in Issues : runs[i].phase \in Busy} /\ entries[k].issue \in Issues
      BY <2>1, Flights, EntryIssues
    <2> QED
      BY <2>1, <2>2 DEF FitsIn, Over
  <1> QED
    BY <1>1, Invariant, PTL

\* Issues whose scopes conflict are never in flight together, from launch to
\* the last label call, whatever launches, completes and is merged meanwhile.
THEOREM NeverOverlap == Spec => []NoOverlap
  <1>1. Inv => NoOverlap
    BY DEF Inv
  <1> QED
    BY <1>1, Invariant, PTL

\* No more runs are started than the policy allows, and no more fail than the
\* policy allows and were in flight when the last of these failed.
THEOREM BudgetsHold == Spec => []WithinBudget
  <1>1. Inv => WithinBudget
    <2> SUFFICES ASSUME Inv
                 PROVE  WithinBudget
      OBVIOUS
    <2>1. Cardinality(InFlight) \in Nat
      BY FiniteIssues DEF InFlight
    <2>2. /\ MaxFailedRuns \in Nat \cup {None} /\ MaxConcurrentRuns \in Nat /\ failed \in Nat
      BY SchedulerAssumption DEF Inv, TypeOK
    <2> QED
      BY <2>1, <2>2 DEF Inv, CountInv, WithinBudget
  <1> QED
    BY <1>1, Invariant, PTL

\* Never more runs than maxConcurrentRuns, no issue twice, and none before all
\* it depends on is closed or has opened its pull request.
THEOREM LaunchesAreOrderly == Spec => [](WithinLimit /\ EachIssueOnce /\ DependenciesFirst)
  <1>1. Inv => WithinLimit /\ EachIssueOnce /\ DependenciesFirst
    BY DEF Inv, CountInv, RunInv
  <1> QED
    BY <1>1, Invariant, PTL

-----------------------------------------------------------------------------
(***************************************************************************)
(* The queue as a whole.                                                   *)
(***************************************************************************)
\* Nothing moves any more once the daemon has ended.
LEMMA EndedStays == Ended /\ Next => UNCHANGED vars
  BY DEF Ended, Next, Loop, Run, World, Launch, StopLaunching, MergePending, FetchIssues,
         FetchFails, CheckDependency, FinishMerge, RefreshOnce, RefreshIdle, Refresh, WakeUp,
         Claim, RunReturns, Release, Complete, Leave, MayRelease, MayComplete, IsAt, Yielded,
         Signal, QueueAdd, DependencyDone, DeadlinePasses, IdleTimePasses

(***************************************************************************)
(* Nothing is lost.                                                        *)
(***************************************************************************)
KeptInv == ToSet(asked) \subseteq ToSet(pending) \cup queued

LEMMA KeptInit == Init => KeptInv
  BY DEF Init, KeptInv, ToSet

LEMMA ToSetAppend ==
    ASSUME NEW S, NEW s \in Seq(S), NEW x \in S
    PROVE  ToSet(Append(s, x)) = ToSet(s) \cup {x}
  <1>1. /\ Len(s) \in Nat /\ DOMAIN s = 1..Len(s) /\ DOMAIN Append(s, x) = 1..Len(s) + 1
        /\ \A k \in 1..Len(s) : Append(s, x)[k] = s[k]
        /\ Append(s, x)[Len(s) + 1] = x
    OBVIOUS
  <1>2. 1..Len(s) + 1 = 1..Len(s) \cup {Len(s) + 1}
    BY <1>1
  <1> QED
    BY <1>1, <1>2 DEF ToSet

LEMMA KeptKeeps == Inv /\ KeptInv /\ [Next]_vars => KeptInv'
  <1> SUFFICES ASSUME Inv, KeptInv, [Next]_vars
               PROVE  KeptInv'
    OBVIOUS
  <1>1. TypeOK
    BY DEF Inv
  <1>2. CASE MergePending
    <2>1. /\ queued' = queued \cup ToSet(NewPending) /\ pending' = <<>> /\ UNCHANGED asked
      BY <1>2 DEF MergePending
    <2>2. ToSet(NewPending) = ToSet(pending) \ queued
      BY <1>1, Arrivals
    <2> QED
      BY <2>1, <2>2 DEF KeptInv
  <1>3. ASSUME NEW i \in Issues, QueueAdd(i)
        PROVE  KeptInv'
    <2>1. pending' = Append(pending, i) /\ asked' = Append(asked, i) /\ UNCHANGED queued
      BY <1>3 DEF QueueAdd, queueVars
    <2>2. ToSet(asked') = ToSet(asked) \cup {i} /\ ToSet(pending') = ToSet(pending) \cup {i}
      BY <1>1, <2>1, ToSetAppend DEF TypeOK
    <2> QED
      BY <2>1, <2>2 DEF KeptInv
  <1>4. UNCHANGED <<asked, pending, queued>> => KeptInv'
    BY DEF KeptInv
  <1>5. CASE Loop /\ ~MergePending
    BY <1>4, <1>5 DEF Loop, Launch, StopLaunching, FetchIssues, FetchFails, CheckDependency,
       FinishMerge, RefreshOnce, RefreshIdle, Refresh, WakeUp, queueVars, worldVars
  <1>6. ASSUME NEW i \in Issues, Run(i)
        PROVE  KeptInv'
    BY <1>4, <1>6 DEF Run, Claim, RunReturns, Release, Complete, Leave, queueVars, worldVars
  <1>7. CASE World /\ \A i \in Issues : ~QueueAdd(i)
    BY <1>4, <1>7 DEF World, Signal, DependencyDone, DeadlinePasses, IdleTimePasses, queueVars
  <1>8. CASE UNCHANGED vars
    BY <1>4, <1>8 DEF vars, queueVars, worldVars
  <1> QED
    BY <1>2, <1>3, <1>5, <1>6, <1>7, <1>8 DEF Next

\* mergePending empties the pending file at once and appends the entries only
\* after its requests to GitHub: what `queue add` was given is in the pending
\* file, in the batch being merged or in the queue at every moment between.
THEOREM NothingLost == Spec => []NoIssueLost
  <1>1. Inv /\ KeptInv => NoIssueLost
    BY DEF Inv, QueueInv, KeptInv, NoIssueLost, Known
  <1> QED
    BY <1>1, KeptInit, KeptKeeps, Invariant, PTL DEF Spec

(***************************************************************************)
(* No slot is wasted.                                                      *)
(***************************************************************************)
Saturated ==
    \/ Cardinality(InFlight) >= MaxConcurrentRuns
    \/ IsStartBudgetExhausted
    \/ \A k \in DOMAIN entries : ~Ready(entries[k])

\* The loop races all active promises, and unless one of them has finished
\* nothing more could have been launched.
RaceInv ==
    pc = "racing" => Active \subseteq raced /\ (raced \subseteq InFlight => Saturated)

\* An entry that could be launched, once conflicts are refreshed, is one that
\* findStartableIssue finds.
LEMMA ReadyIsStartable ==
    ASSUME Inv, NEW es, es = RefreshConflictStates(entries, ActiveRuns), NEW k \in DOMAIN entries
    PROVE  /\ Ready(es[k]) => Startable(es[k], ActiveRuns)
           /\ es[k].state \in {"PENDING", "DEFERRED_CONFLICT"} /\ InFlight = {} =>
                 Startable(es[k], ActiveRuns)
           /\ FitsIn(es[k], runs, done) /\ es[k] \in Entry
           /\ DOMAIN es = DOMAIN entries
  <1>1. TypeOK /\ entries \in Seq(Entry) /\ FitsIn(entries[k], runs, done)
    BY DEF Inv, TypeOK, EntryInv
  <1>2. /\ es \in Seq(Entry) /\ DOMAIN es = DOMAIN entries
        /\ es[k].issue = entries[k].issue /\ es[k].waits = entries[k].waits
        /\ entries[k].state \notin {"PENDING", "DEFERRED_CONFLICT"} => es[k] = entries[k]
        /\ entries[k].state \in {"PENDING", "DEFERRED_CONFLICT"} =>
              /\ es[k].state \in {"PENDING", "DEFERRED_CONFLICT"}
              /\ es[k].state = "PENDING" <=> ~Conflicts(entries[k].issue, ActiveRuns)
    BY <1>1, Refreshed
  <1>3. ActiveRuns = InFlight
    BY <1>1, Flights
  <1>4. FitsIn(es[k], runs, done)
    BY <1>1, <1>2, RefreshFits DEF Inv, EntryInv
  <1>5. es[k] \in Entry /\ es[k].state \in IssueStates
    <2>1. es[k] \in Entry
      BY <1>2
    <2> QED
      BY <2>1 DEF Entry
  <1>6. es[k].state \in {"PENDING", "DEFERRED_CONFLICT"} /\ ~Conflicts(es[k].issue, ActiveRuns) =>
           Startable(es[k], ActiveRuns)
    BY <1>2, <1>4 DEF Startable, FitsIn
  <1>7. Ready(es[k]) => Startable(es[k], ActiveRuns)
    BY <1>3, <1>4, <1>5, <1>6 DEF Ready, FitsIn, IssueStates
  <1>8. InFlight = {} => ~Conflicts(es[k].issue, ActiveRuns)
    BY <1>3 DEF Conflicts
  <1> QED
    BY <1>2, <1>4, <1>5, <1>6, <1>7, <1>8

LEMMA RaceKeeps == Inv /\ RaceInv /\ [Next]_vars => RaceInv'
  <1> SUFFICES ASSUME Inv, RaceInv, [Next]_vars, pc' = "racing"
               PROVE  Active' \subseteq raced' /\ (raced' \subseteq InFlight' => Saturated')
    BY DEF RaceInv
  <1>0. TypeOK /\ TypeOK'
    BY NextKeeps DEF Inv
  <1>1. /\ InFlight = {i \in Issues : runs[i].phase \in Busy}
        /\ ActiveRuns = InFlight
        /\ Active = {i \in Issues : runs[i].phase \in Busy \cup {"settled"}}
    BY <1>0, Flights
  <1>2. /\ InFlight' = {i \in Issues : runs'[i].phase \in Busy}
        /\ Active' = {i \in Issues : runs'[i].phase \in Busy \cup {"settled"}}
    <2>1. \A i \in Issues : runs'[i].phase \in Phases
      BY <1>0 DEF TypeOK
    <2> QED
      BY <2>1 DEF InFlight, Active, ActiveRuns, Busy, Phases
  <1>3. CASE StopLaunching
    <2> DEFINE es == RefreshConflictStates(entries, ActiveRuns)
    <2>1. /\ AfterLaunch = "racing" /\ raced' = Active
          /\ ~HasRoom \/ IsStartBudgetExhausted \/ FindStartable(es) = 0
          /\ entries' = IF HasRoom THEN es ELSE entries
          /\ UNCHANGED <<runs, late, started, failed>>
      BY <1>3 DEF StopLaunching, runVars, worldVars
    <2>2. Active' = Active /\ InFlight' = InFlight
      BY <1>1, <1>2, <2>1
    <2>3. ASSUME Active \subseteq InFlight
          PROVE  Saturated'
      <3>1. Active = InFlight
        BY <1>1, <2>3
      <3>2. Cardinality(InFlight) \in Nat /\ MaxConcurrentRuns \in Nat
        BY FiniteIssues, SchedulerAssumption DEF InFlight
      <3>3. CASE ~HasRoom
        BY <2>2, <3>1, <3>2, <3>3 DEF HasRoom, Saturated
      <3>4. CASE IsStartBudgetExhausted
        BY <2>1, <3>4 DEF Saturated, IsStartBudgetExhausted
      <3>5. CASE HasRoom /\ ~IsStartBudgetExhausted
        <4>1. FindStartable(es) = 0 /\ entries' = es
          BY <2>1, <3>5
        <4>2. ~(Cardinality(ActiveRuns) >= MaxConcurrentRuns)
          BY <1>1, <3>1, <3>2, <3>5 DEF HasRoom
        <4>3. entries \in Seq(Entry)
          BY <1>0 DEF TypeOK
        <4>4. es \in Seq(Entry) /\ DOMAIN es = DOMAIN entries
          BY <4>3, Refreshed
        <4>5. \A k \in DOMAIN es : ~Startable(es[k], ActiveRuns)
          BY <3>5, <4>1, <4>2, <4>4, Startables
        <4>6. \A k \in DOMAIN es : ~Ready(es[k])
          BY <4>4, <4>5, ReadyIsStartable
        <4> HIDE DEF es
        <4>7. \A k \in DOMAIN entries' : ~Ready(entries[k])'
          BY <2>2, <4>1, <4>6 DEF Ready, Conflicts
        <4> QED
          BY <4>7 DEF Saturated
      <3> QED
        BY <3>3, <3>4, <3>5
    <2> QED
      BY <2>1, <2>2, <2>3
  <1>4. CASE pc = "racing"
    <2>1. Active \subseteq raced /\ (raced \subseteq InFlight => Saturated)
      BY <1>4 DEF RaceInv
    <2>2. ASSUME UNCHANGED <<entries, started, failed, raced>>, late => late',
                 \A i \in Issues : runs'[i].phase \in Busy <=> runs[i].phase \in Busy,
                 Active' \subseteq Active
          PROVE  Active' \subseteq raced' /\ (raced' \subseteq InFlight' => Saturated')
      <3>1. InFlight' = InFlight
        BY <1>1, <1>2, <2>2
      <3>2. Saturated => Saturated'
        BY <2>2, <3>1 DEF Saturated, IsStartBudgetExhausted, Ready, Conflicts
      <3> QED
        BY <2>1, <2>2, <3>1, <3>2
    <2>3. CASE Loop
      BY <1>4, <2>3, <1>3 DEF Loop, Launch, StopLaunching, MergePending, AfterMerge, FetchIssues,
         FetchFails, CheckDependency, FinishMerge, RefreshOnce, RefreshIdle, Refresh, WakeUp
    <2>4. ASSUME NEW i \in Issues, Run(i)
          PROVE  Active' \subseteq raced' /\ (raced' \subseteq InFlight' => Saturated')
      <3>0. runs \in [Issues -> [phase : Phases, claim : Claims, outcome : Outcomes \cup {None}]]
        BY <1>0 DEF TypeOK
      <3>1. CASE Claim(i)
        <4>1. \A j \in Issues : runs'[j].phase = runs[j].phase
          BY <3>0, <3>1 DEF Claim
        <4>2. UNCHANGED <<entries, started, failed, raced, late>>
          BY <3>1 DEF Claim, queueVars, loopVars
        <4> QED
          BY <1>1, <1>2, <2>2, <4>1, <4>2
      <3>2. CASE RunReturns(i) \/ Release(i)
        <4>1. /\ \A j \in Issues \ {i} : runs'[j].phase = runs[j].phase
              /\ runs[i].phase \in Busy /\ runs'[i].phase \in Busy
          BY <3>0, <3>2 DEF RunReturns, Release, MayRelease, IsAt, Busy
        <4>2. UNCHANGED <<entries, started, failed, raced, late>>
          BY <3>2 DEF RunReturns, Release, queueVars, loopVars
        <4> QED
          BY <1>1, <1>2, <2>2, <4>1, <4>2
      <3>3. CASE Complete(i)
        <4>1. /\ \A j \in Issues \ {i} : runs'[j].phase = runs[j].phase
              /\ runs[i].phase \in Busy /\ runs'[i].phase = "settled"
          BY <3>0, <3>3 DEF Complete, MayComplete, MayRelease, IsAt, Busy
        <4>2. UNCHANGED raced
          BY <3>3 DEF Complete, loopVars
        <4>3. Active' = Active /\ i \in raced' /\ i \notin InFlight'
          BY <1>1, <1>2, <2>1, <4>1, <4>2 DEF Busy
        <4> QED
          BY <2>1, <4>2, <4>3
      <3>4. CASE Leave(i)
        <4>1. /\ \A j \in Issues \ {i} : runs'[j].phase = runs[j].phase
              /\ runs[i].phase = "settled" /\ runs'[i].phase = "left"
          BY <3>0, <3>4 DEF Leave, IsAt
        <4>2. UNCHANGED <<entries, started, failed, raced, late>>
          BY <3>4 DEF Leave, queueVars, loopVars, worldVars
        <4>3. \A j \in Issues : runs'[j].phase \in Busy <=> runs[j].phase \in Busy
          BY <4>1 DEF Busy
        <4>4. Active' \subseteq Active
          BY <1>1, <1>2, <4>1 DEF Busy
        <4> QED
          BY <2>2, <4>2, <4>3, <4>4
      <3> QED
        BY <2>4, <3>1, <3>2, <3>3, <3>4 DEF Run
    <2>5. CASE World \/ UNCHANGED vars
      <3>1. UNCHANGED <<entries, started, failed, raced, runs>> /\ (late => late')
        BY <2>5 DEF World, Signal, QueueAdd, DependencyDone, DeadlinePasses, IdleTimePasses,
           vars, queueVars, loopVars, runVars, worldVars
      <3> QED
        BY <1>1, <1>2, <2>2, <3>1
    <2> QED
      BY <2>3, <2>4, <2>5 DEF Next
  <1>5. CASE pc # "racing" /\ ~StopLaunching
    <2>1. CASE Loop
      BY <1>5, <2>1 DEF Loop, Launch, MergePending, AfterMerge, FetchIssues, FetchFails,
         CheckDependency, FinishMerge, RefreshOnce, RefreshIdle, Refresh, WakeUp,
         loopVars
    <2>2. ASSUME NEW i \in Issues, Run(i)
          PROVE  UNCHANGED pc
      BY <2>2 DEF Run, Claim, RunReturns, Release, Complete, Leave, loopVars
    <2>3. CASE World \/ UNCHANGED vars
      BY <1>5, <2>3 DEF World, Signal, QueueAdd, DependencyDone, DeadlinePasses, IdleTimePasses,
         vars, loopVars
    <2> QED
      BY <1>5, <2>1, <2>2, <2>3 DEF Next
  <1> QED
    BY <1>3, <1>4, <1>5

\* While the loop waits for a run to leave and none has, either the limit is
\* reached, or a budget, or no entry of the queue could run: launchAvailable
\* has left no slot free, whatever was merged and completed before.
THEOREM NoSlotWasted == Spec => []WorkConserving
  <1>1. Init => RaceInv
    BY DEF Init, RaceInv
  <1>2. RaceInv => WorkConserving
    BY DEF RaceInv, Saturated, WorkConserving
  <1> QED
    BY <1>1, <1>2, RaceKeeps, Invariant, PTL DEF Spec

(***************************************************************************)
(* Nothing is left behind.                                                 *)
(***************************************************************************)
LEMMA LeftKeeps == Inv /\ NothingLeftBehind /\ [Next]_vars => NothingLeftBehind'
  <1> SUFFICES ASSUME Inv, NothingLeftBehind, [Next]_vars, pc' = "exited", ~stop'
               PROVE  /\ InFlight' = {}
                      /\ \/ IsStartBudgetExhausted'
                         \/ \A k \in DOMAIN entries' :
                               \/ entries'[k].state \in {"COMPLETED", "DEFERRED_INVALID"}
                               \/ entries'[k].state = "DEFERRED_DEPENDENCY" /\ entries'[k].waits # {}
    BY DEF NothingLeftBehind
  <1>0. TypeOK /\ entries \in Seq(Entry)
    BY DEF Inv, TypeOK
  <1>1. /\ InFlight = {i \in Issues : runs[i].phase \in Busy}
        /\ ActiveRuns = InFlight
        /\ Active = {i \in Issues : runs[i].phase \in Busy \cup {"settled"}}
    BY <1>0, Flights
  <1>2. CASE StopLaunching
    <2> DEFINE es == RefreshConflictStates(entries, ActiveRuns)
    <2>1. /\ AfterLaunch = "exited" /\ ~stop
          /\ ~HasRoom \/ IsStartBudgetExhausted \/ FindStartable(es) = 0
          /\ entries' = IF HasRoom THEN es ELSE entries
          /\ UNCHANGED <<runs, late, started, failed>>
      BY <1>2 DEF StopLaunching, runVars, worldVars
    <2>2. Active = {}
      BY <2>1 DEF AfterLaunch, LoopHead, IdleOrExit
    <2>3. InFlight = {} /\ InFlight' = {} /\ ActiveRuns = {}
      <3>1. InFlight = {} /\ ActiveRuns = {}
        BY <1>1, <2>2
      <3> QED
        BY <2>1, <3>1 DEF InFlight
    <2>4. Cardinality({}) = 0 /\ MaxConcurrentRuns \in Nat \ {0}
      BY FS_EmptySet, SchedulerAssumption
    <2>5. HasRoom /\ ~(Cardinality(ActiveRuns) >= MaxConcurrentRuns)
      BY <2>2, <2>3, <2>4 DEF HasRoom
    <2>6. entries' = es
      BY <2>1, <2>5
    <2>7. CASE IsStartBudgetExhausted
      BY <2>1, <2>3, <2>7 DEF IsStartBudgetExhausted
    <2>8. CASE ~IsStartBudgetExhausted
      <3>1. es \in Seq(Entry) /\ DOMAIN es = DOMAIN entries
        BY <1>0, Refreshed
      <3>2. \A k \in DOMAIN es : ~Startable(es[k], ActiveRuns)
        BY <2>1, <2>5, <2>8, <3>1, Startables
      <3>3. ASSUME NEW k \in DOMAIN es
            PROVE  \/ es[k].state \in {"COMPLETED", "DEFERRED_INVALID"}
                   \/ es[k].state = "DEFERRED_DEPENDENCY" /\ es[k].waits # {}
        <4>1. k \in DOMAIN entries
          BY <3>1
        <4>2. /\ es[k].state \in {"PENDING", "DEFERRED_CONFLICT"} => Startable(es[k], ActiveRuns)
              /\ FitsIn(es[k], runs, done) /\ es[k] \in Entry
          BY <2>3, <4>1, ReadyIsStartable
        <4>3. es[k].state \in IssueStates /\ es[k].issue \in Issues
          BY <4>2 DEF Entry
        <4>4. es[k].state # "RUNNING"
          BY <1>1, <2>3, <4>2, <4>3 DEF FitsIn
        <4> QED
          BY <3>2, <4>2, <4>3, <4>4 DEF FitsIn, IssueStates
      <3> HIDE DEF es
      <3> QED
        BY <2>3, <2>6, <3>3
    <2> QED
      BY <2>7, <2>8
  <1>3. CASE pc = "exited"
    <2>1. UNCHANGED vars
      BY <1>3, EndedStays DEF Ended
    <2>2. NothingLeftBehind' = NothingLeftBehind
      BY <2>1 DEF vars, queueVars, loopVars, runVars, worldVars, NothingLeftBehind, InFlight,
         IsStartBudgetExhausted
    <2> QED
      BY <2>2 DEF NothingLeftBehind
  <1>4. CASE pc # "exited" /\ ~StopLaunching
    <2>1. CASE Loop
      BY <1>4, <2>1 DEF Loop, Launch, MergePending, AfterMerge, FetchIssues, FetchFails,
         CheckDependency, FinishMerge, RefreshOnce, RefreshIdle, Refresh, WakeUp, loopVars
    <2>2. ASSUME NEW i \in Issues, Run(i)
          PROVE  UNCHANGED pc
      BY <2>2 DEF Run, Claim, RunReturns, Release, Complete, Leave, loopVars
    <2>3. CASE World \/ UNCHANGED vars
      BY <1>4, <2>3 DEF World, Signal, QueueAdd, DependencyDone, DeadlinePasses, IdleTimePasses,
         vars, loopVars
    <2> QED
      BY <1>4, <2>1, <2>2, <2>3 DEF Next
  <1> QED
    BY <1>2, <1>3, <1>4

\* A daemon that ends without being told to has nothing in flight, and unless
\* a budget is spent every entry is completed, invalid or waits for something:
\* through conflicts, completions, merges, the refresh and the idle wait no
\* entry that could run is forgotten.
THEOREM NoneForgotten == Spec => []NothingLeftBehind
  <1>1. Init => NothingLeftBehind
    BY DEF Init, NothingLeftBehind
  <1> QED
    BY <1>1, LeftKeeps, Invariant, PTL DEF Spec

(***************************************************************************)
(* The labels.                                                             *)
(***************************************************************************)
\* How far the claim and the release of issue i have come, read off a run r,
\* the labels ls and whether a label call failed.
Wears(r, ls, lost) ==
    /\ r.phase = "none" => r.claim = "remove" /\ ls = {"agent:ready"}
    /\ r.phase \in {"working", "returned"} /\ ~lost =>
          /\ r.claim = "remove" => ls = {"agent:ready"}
          /\ r.claim = "add"    => ls = {}
          /\ r.claim = "done"   => ls = {"agent:in-progress"}
    /\ r.phase \in {"half", "released"} =>
          /\ r.claim = "done" /\ r.outcome \in {"PR_OPEN", "NEEDS_REFINEMENT"}
          /\ ~lost => ls = {}
    /\ r.phase \in Over /\ ~lost =>
          ls = IF r.outcome \in {"BLOCKED", "FAILED"} THEN {"agent:in-progress"} ELSE {}
    /\ r.phase \in Over \cup {"returned"} => r.outcome \in Outcomes

LabelInv == \A i \in Issues : Wears(runs[i], labels[i], i \in unmarked)

LEMMA LabelInit == Init => LabelInv
  BY DEF Init, LabelInv, Wears, NotLaunched, Over

\* The labels and runs of the other issues stay.
LEMMA OthersWear ==
    ASSUME LabelInv, NEW i \in Issues,
           \A j \in Issues \ {i} : /\ runs'[j] = runs[j] /\ labels'[j] = labels[j]
                                   /\ j \in unmarked' <=> j \in unmarked,
           Wears(runs'[i], labels'[i], i \in unmarked')
    PROVE  LabelInv'
  <1>1. ASSUME NEW j \in Issues \ {i}
        PROVE  Wears(runs'[j], labels'[j], j \in unmarked')
    <2>1. Wears(runs[j], labels[j], j \in unmarked)
      BY DEF LabelInv
    <2> QED
      BY <2>1 DEF Wears
  <1> QED
    BY <1>1 DEF LabelInv

LEMMA LabelRunKeeps ==
    ASSUME Inv, LabelInv, NEW i \in Issues, Run(i)
    PROVE  LabelInv'
  <1>0. /\ runs \in [Issues -> [phase : Phases, claim : Claims, outcome : Outcomes \cup {None}]]
        /\ labels \in [Issues -> SUBSET {"agent:ready", "agent:in-progress"}]
    BY DEF Inv, TypeOK
  <1>1. Wears(runs[i], labels[i], i \in unmarked) /\ runs[i].claim \in Claims
    BY <1>0 DEF LabelInv
  <1>2. CASE Claim(i)
    <2>1. runs[i].phase \in {"working", "returned", "half", "released"}
      BY <1>2 DEF Claim, ActiveRuns
    <2>2. CASE /\ runs[i].claim = "remove"
               /\ TakeLabel(i, "agent:ready") /\ UNCHANGED <<unmarked, faults>>
               /\ runs' = [runs EXCEPT ![i].claim = "add"]
      <3>1. /\ runs'[i].phase = runs[i].phase /\ runs'[i].outcome = runs[i].outcome
            /\ runs'[i].claim = "add" /\ labels'[i] = labels[i] \ {"agent:ready"}
            /\ \A j \in Issues \ {i} : runs'[j] = runs[j] /\ labels'[j] = labels[j]
        BY <1>0, <2>2 DEF TakeLabel
      <3>2. Wears(runs'[i], labels'[i], i \in unmarked')
        BY <1>1, <2>1, <2>2, <3>1 DEF Wears, Over
      <3> QED
        BY <2>2, <3>1, <3>2, OthersWear
    <2>3. CASE /\ runs[i].claim = "add"
               /\ PutLabel(i, "agent:in-progress") /\ UNCHANGED <<unmarked, faults>>
               /\ runs' = [runs EXCEPT ![i].claim = "done"]
      <3>1. /\ runs'[i].phase = runs[i].phase /\ runs'[i].outcome = runs[i].outcome
            /\ runs'[i].claim = "done" /\ labels'[i] = labels[i] \cup {"agent:in-progress"}
            /\ \A j \in Issues \ {i} : runs'[j] = runs[j] /\ labels'[j] = labels[j]
        BY <1>0, <2>3 DEF PutLabel
      <3>2. Wears(runs'[i], labels'[i], i \in unmarked')
        BY <1>1, <2>1, <2>3, <3>1 DEF Wears, Over
      <3> QED
        BY <2>3, <3>1, <3>2, OthersWear
    <2>4. CASE /\ runs[i].claim # "done"
               /\ LabelLost(i)
               /\ runs' = [runs EXCEPT ![i].claim = "done"]
      <3>1. /\ runs'[i].phase = runs[i].phase /\ runs'[i].outcome = runs[i].outcome
            /\ runs'[i].claim = "done" /\ labels' = labels /\ unmarked' = unmarked \cup {i}
            /\ \A j \in Issues \ {i} : runs'[j] = runs[j]
        BY <1>0, <2>4 DEF LabelLost
      <3>2. Wears(runs'[i], labels'[i], i \in unmarked')
        BY <1>1, <2>1, <2>4, <3>1 DEF Wears, Over
      <3> QED
        BY <3>1, <3>2, OthersWear
    <2> QED
      BY <1>2, <2>2, <2>3, <2>4 DEF Claim
  <1>3. CASE RunReturns(i)
    <2>1. PICK outcome \in Outcomes :
              runs' = [runs EXCEPT ![i].phase = "returned", ![i].outcome = outcome]
      BY <1>3 DEF RunReturns
    <2>2. /\ runs'[i].phase = "returned" /\ runs'[i].outcome = outcome
          /\ runs'[i].claim = runs[i].claim /\ \A j \in Issues \ {i} : runs'[j] = runs[j]
      BY <1>0, <2>1
    <2>3. runs[i].phase = "working" /\ UNCHANGED <<labels, unmarked>>
      BY <1>3 DEF RunReturns, IsAt
    <2>4. Wears(runs'[i], labels'[i], i \in unmarked')
      BY <1>1, <2>2, <2>3 DEF Wears, Over
    <2> QED
      BY <2>2, <2>3, <2>4, OthersWear
  <1>4. CASE Release(i)
    <2>1. \/ runs[i].phase = "returned" /\ runs[i].claim = "done"
             /\ runs[i].outcome \in {"PR_OPEN", "NEEDS_REFINEMENT"}
          \/ runs[i].phase = "half"
      BY <1>4 DEF Release, MayRelease, IsAt
    <2>2. PICK phase \in {"half", "released"} : runs' = [runs EXCEPT ![i].phase = phase]
      BY <1>4 DEF Release
    <2>3. /\ runs'[i].phase \in {"half", "released"} /\ runs'[i].outcome = runs[i].outcome
          /\ runs'[i].claim = runs[i].claim /\ \A j \in Issues \ {i} : runs'[j] = runs[j]
      BY <1>0, <2>2
    <2>4. \/ /\ UNCHANGED unmarked
             /\ runs[i].phase = "returned" => TakeLabel(i, "agent:in-progress")
             /\ runs[i].phase = "half" => TakeLabel(i, "agent:ready")
          \/ LabelLost(i)
      BY <1>4 DEF Release, MayRelease, IsAt
    <2>5. \A j \in Issues \ {i} : labels'[j] = labels[j] /\ (j \in unmarked' <=> j \in unmarked)
      BY <1>0, <2>1, <2>4 DEF TakeLabel, LabelLost
    <2>6. i \notin unmarked' => labels'[i] = {}
      <3> SUFFICES ASSUME i \notin unmarked'
                   PROVE  labels'[i] = {}
        OBVIOUS
      <3>1. i \notin unmarked
        BY <2>4 DEF LabelLost
      <3>2. CASE runs[i].phase = "returned"
        BY <1>0, <1>1, <2>1, <2>4, <3>1, <3>2 DEF LabelLost, TakeLabel, Wears
      <3>3. CASE runs[i].phase = "half"
        BY <1>0, <1>1, <2>4, <3>1, <3>3 DEF LabelLost, TakeLabel, Wears
      <3> QED
        BY <2>1, <3>2, <3>3
    <2>7. Wears(runs'[i], labels'[i], i \in unmarked')
      BY <1>1, <2>1, <2>3, <2>6 DEF Wears, Over
    <2> QED
      BY <2>3, <2>5, <2>7, OthersWear
  <1>5. CASE Complete(i)
    <2>1. \/ runs[i].phase = "released"
          \/ runs[i].phase = "returned" /\ runs[i].claim = "done"
             /\ runs[i].outcome \in {"BLOCKED", "FAILED"}
      BY <1>5 DEF Complete, MayComplete, MayRelease, IsAt
    <2>2. /\ runs'[i].phase = "settled" /\ runs'[i].outcome = runs[i].outcome
          /\ \A j \in Issues \ {i} : runs'[j] = runs[j]
          /\ UNCHANGED <<labels, unmarked>>
      BY <1>0, <1>5 DEF Complete
    <2>3. Wears(runs'[i], labels'[i], i \in unmarked')
      BY <1>1, <2>1, <2>2 DEF Wears, Over, Outcomes
    <2> QED
      BY <2>2, <2>3, OthersWear
  <1>6. CASE Leave(i)
    <2>1. /\ runs[i].phase = "settled"
          /\ runs'[i].phase = "left" /\ runs'[i].outcome = runs[i].outcome
          /\ \A j \in Issues \ {i} : runs'[j] = runs[j]
          /\ UNCHANGED <<labels, unmarked>>
      BY <1>0, <1>6 DEF Leave, IsAt
    <2>2. Wears(runs'[i], labels'[i], i \in unmarked')
      BY <1>1, <2>1 DEF Wears, Over
    <2> QED
      BY <2>1, <2>2, OthersWear
  <1> QED
    BY <1>2, <1>3, <1>4, <1>5, <1>6 DEF Run

LEMMA LabelKeeps == Inv /\ LabelInv /\ [Next]_vars => LabelInv'
  <1> SUFFICES ASSUME Inv, LabelInv, [Next]_vars
               PROVE  LabelInv'
    OBVIOUS
  <1>1. CASE Launch
    <2> DEFINE es == RefreshConflictStates(entries, ActiveRuns)
               k  == FindStartable(es)
               i  == es[k].issue
    <2>1. /\ k # 0 /\ runs' = [runs EXCEPT ![i] = Launched] /\ UNCHANGED <<labels, unmarked>>
      BY <1>1 DEF Launch
    <2>2. i \in Issues /\ runs[i].phase = "none"
      BY <2>1, LaunchChoice
    <2> HIDE DEF es, k, i
    <2>3. runs'[i] = Launched /\ \A j \in Issues \ {i} : runs'[j] = runs[j]
      BY <2>1, <2>2 DEF Inv, TypeOK
    <2>4. Wears(runs[i], labels[i], i \in unmarked)
      BY <2>2 DEF LabelInv
    <2>5. Wears(runs'[i], labels'[i], i \in unmarked')
      BY <2>1, <2>2, <2>3, <2>4 DEF Wears, Launched, Over
    <2> QED
      BY <2>1, <2>2, <2>3, <2>5, OthersWear
  <1>2. ASSUME NEW i \in Issues, Run(i)
        PROVE  LabelInv'
    BY <1>2, LabelRunKeeps
  <1>3. CASE (Loop /\ ~Launch) \/ World \/ UNCHANGED vars
    <2>1. UNCHANGED <<runs, labels, unmarked>>
      BY <1>3 DEF Loop, StopLaunching, MergePending, FetchIssues, FetchFails, CheckDependency,
         FinishMerge, RefreshOnce, RefreshIdle, Refresh, WakeUp, World, Signal, QueueAdd,
         DependencyDone, DeadlinePasses, IdleTimePasses, vars, runVars
    <2> QED
      BY <2>1 DEF LabelInv
  <1> QED
    BY <1>1, <1>2, <1>3 DEF Next

\* claimIssue runs beside the run and releaseIssue waits for both: when the
\* run is over the issue wears agent:in-progress exactly if a person has to
\* look at it, and nothing else, unless a label call failed.
THEOREM LabelsTellOutcome == Spec => []LabelsMatchOutcome
  <1>1. LabelInv => LabelsMatchOutcome
    BY DEF LabelInv, Wears, LabelsMatchOutcome, Over
  <1> QED
    BY <1>1, LabelInit, LabelKeeps, Invariant, PTL DEF Spec

(***************************************************************************)
(* The queue is a pool of work.                                            *)
(***************************************************************************)
PoolState == [i \in Issues |-> Status(i)]

\* The status of an issue follows from the sets of the proofs.
LEMMA Statuses ==
    ASSUME Inv, NEW i \in Issues
    PROVE  Status(i) = IF i \in InFlight THEN "working"
                       ELSE IF i \in Begun THEN "finished"
                       ELSE IF i \in Known THEN "queued" ELSE "outside"
  BY DEF Status, Begun, Known

LEMMA SamePool ==
    ASSUME UNCHANGED <<InFlight, Begun, Known>>
    PROVE  UNCHANGED PoolState
  <1>1. ASSUME NEW i \in Issues
        PROVE  Status(i)' = Status(i)
    <2>1. /\ runs'[i].phase # "none" <=> i \in Begun'
          /\ runs[i].phase # "none" <=> i \in Begun
      BY DEF Begun
    <2>2. /\ (\E k \in DOMAIN entries' : entries'[k].issue = i) <=> i \in Known'
          /\ (\E k \in DOMAIN entries : entries[k].issue = i) <=> i \in Known
      BY DEF Known
    <2> QED
      BY <2>1, <2>2 DEF Status
  <1> QED
    BY <1>1 DEF PoolState

LEMMA PoolInits == Init => Pool!PoolInit
  <1> SUFFICES ASSUME Init
               PROVE  Pool!PoolInit
    OBVIOUS
  <1>1. \A i \in Issues : runs[i].phase = "none"
    BY DEF Init, NotLaunched
  <1>2. \A i \in Issues : Status(i) \in {"outside", "queued"}
    BY <1>1 DEF Status, InFlight
  <1>3. ~Ended
    BY DEF Init, Ended
  <1> QED
    BY <1>2, <1>3 DEF Pool!PoolInit

\* The pool counts its jobs the way the scheduler counts its runs.
LEMMA SameCount ==
    ASSUME NEW S
    PROVE  Pool!Cardinality(S) = Cardinality(S)
  BY Zenon DEF Pool!Cardinality, Cardinality

\* A launch starts a job.
LEMMA LaunchStarts == Inv /\ Launch => \E i \in Issues : Pool!Start(i)
  <1> SUFFICES ASSUME Inv, Launch
               PROVE  \E i \in Issues : Pool!Start(i)
    OBVIOUS
  <1>1. PICK i \in Issues :
            /\ runs' = [runs EXCEPT ![i] = Launched] /\ i \in Known /\ runs[i].phase = "none"
            /\ DependsOn[i] \subseteq done
            /\ \A j \in InFlight : <<i, j>> \notin ScopesConflict
            /\ Cardinality(InFlight) < MaxConcurrentRuns
            /\ DOMAIN entries' = DOMAIN entries
            /\ \A n \in DOMAIN entries : entries'[n].issue = entries[n].issue
    <2> DEFINE es == RefreshConflictStates(entries, ActiveRuns)
               k  == FindStartable(es)
    <2>1. /\ k # 0 /\ entries' = MarkIssueRunning(es, es[k].issue)
          /\ runs' = [runs EXCEPT ![es[k].issue] = Launched]
      BY DEF Launch
    <2>2. /\ es \in Seq(Entry) /\ DOMAIN es = DOMAIN entries
          /\ es[k].issue \in Issues /\ es[k].issue \in Known /\ runs[es[k].issue].phase = "none"
          /\ DependsOn[es[k].issue] \subseteq done
          /\ \A j \in InFlight : <<es[k].issue, j>> \notin ScopesConflict
          /\ Cardinality(InFlight) < MaxConcurrentRuns
      BY <2>1, LaunchChoice
    <2>3. \A n \in DOMAIN entries : es[n].issue = entries[n].issue
      BY SameIssues DEF Inv, TypeOK
    <2> HIDE DEF es, k
    <2>4. /\ DOMAIN entries' = DOMAIN es
          /\ \A n \in DOMAIN es : entries'[n].issue = es[n].issue
      BY <2>1, <2>2, Marked
    <2>5. /\ DOMAIN entries' = DOMAIN entries
          /\ \A n \in DOMAIN entries : entries'[n].issue = entries[n].issue
      BY <2>2, <2>3, <2>4
    <2> QED
      BY <2>1, <2>2, <2>5
  <1>2. UNCHANGED <<pc, done>> /\ pc = "launching"
    BY DEF Launch, loopVars, worldVars
  <1>3. runs'[i] = Launched /\ \A j \in Issues \ {i} : runs'[j] = runs[j]
    BY <1>1 DEF Inv, TypeOK
  <1>4. Known' = Known
    BY <1>1 DEF Known
  <1>5. InFlight' = InFlight \cup {i} /\ i \notin InFlight
    BY <1>1, <1>3 DEF InFlight, Launched
  <1>6. Status(i) = "queued" /\ Status(i)' = "working"
    BY <1>1, <1>5 DEF Status, Known
  <1>7. ASSUME NEW j \in Issues \ {i}
        PROVE  Status(j)' = Status(j)
    <2>1. (\E n \in DOMAIN entries' : entries'[n].issue = j) <=> j \in Known'
      BY DEF Known
    <2>2. (\E n \in DOMAIN entries : entries[n].issue = j) <=> j \in Known
      BY DEF Known
    <2> QED
      BY <1>3, <1>4, <1>5, <2>1, <2>2 DEF Status
  <1>8. PoolState' = [PoolState EXCEPT ![i] = "working"]
    BY <1>6, <1>7 DEF PoolState
  <1>9. Pool!With("working") = InFlight
    <2>1. \A j \in Issues : Status(j) = "working" <=> j \in InFlight
      BY DEF Status
    <2> QED
      BY <2>1 DEF Pool!With, InFlight
  <1>10. ~Ended /\ ~Ended'
    BY <1>2 DEF Ended
  <1>11. PoolState[i] = "queued" /\ (~Ended)' = (~Ended)
    BY <1>6, <1>10 DEF PoolState
  <1>12. Pool!Start(i)
    BY <1>1, <1>2, <1>8, <1>9, <1>10, <1>11, SameCount DEF Pool!Start, PoolState
  <1> QED
    BY <1>12

\* completeIssue finishes a job.
LEMMA CompleteFinishes ==
    ASSUME Inv, NEW i \in Issues, Complete(i)
    PROVE  Pool!Finish(i)
  <1>1. /\ entries' = CompleteIssue(entries, i, runs[i].outcome, ActiveRuns \ {i})
        /\ runs' = [runs EXCEPT ![i].phase = "settled"]
        /\ UNCHANGED <<pc, done>> /\ ~Ended
        /\ runs[i].phase \in {"returned", "released"}
    BY DEF Complete, loopVars, worldVars, MayComplete, MayRelease, IsAt, Yielded
  <1>2. runs'[i].phase = "settled" /\ \A j \in Issues \ {i} : runs'[j] = runs[j]
    BY <1>1 DEF Inv, TypeOK
  <1>3. InFlight' = InFlight \ {i} /\ i \in InFlight
    BY <1>1, <1>2 DEF InFlight
  <1>4. Known' = Known
    <2>1. entries \in Seq(Entry)
      BY DEF Inv, TypeOK
    <2>2. /\ DOMAIN entries' = DOMAIN entries
          /\ \A k \in DOMAIN entries : entries'[k].issue = entries[k].issue
      BY <1>1, <2>1, CompletedType
    <2> QED
      BY <2>2 DEF Known
  <1>5. Status(i) = "working" /\ Status(i)' = "finished"
    BY <1>2, <1>3 DEF Status
  <1>6. ASSUME NEW j \in Issues \ {i}
        PROVE  Status(j)' = Status(j)
    <2>1. (\E n \in DOMAIN entries' : entries'[n].issue = j) <=> j \in Known'
      BY DEF Known
    <2>2. (\E n \in DOMAIN entries : entries[n].issue = j) <=> j \in Known
      BY DEF Known
    <2> QED
      BY <1>2, <1>3, <1>4, <2>1, <2>2 DEF Status
  <1>7. PoolState' = [PoolState EXCEPT ![i] = "finished"]
    BY <1>5, <1>6 DEF PoolState
  <1>8. ~Ended'
    BY <1>1 DEF Ended
  <1> QED
    BY <1>1, <1>5, <1>7, <1>8 DEF Pool!Finish, PoolState

\* The end of a merge brings jobs in.
LEMMA MergeArrives == Inv /\ FinishMerge => \E S \in SUBSET Issues : Pool!Arrive(S)
  <1> SUFFICES ASSUME Inv, FinishMerge
               PROVE  \E S \in SUBSET Issues : Pool!Arrive(S)
    OBVIOUS
  <1> DEFINE S == ToSet(merging.batch)
  <1>1. /\ merging' = NothingToMerge /\ pc = "checking" /\ pc' \in {"refreshing", "launching"}
        /\ UNCHANGED <<queued, runs, done>>
    BY DEF FinishMerge, AfterMerge, runVars, worldVars
  <1>2. /\ queued = Known \cup S /\ Known \cap S = {} /\ Begun \subseteq Known
        /\ queued' = Known' \cup ToSet(merging'.batch)
    <2>1. Inv'
      BY MergeKeeps
    <2> QED
      BY <2>1 DEF Inv, QueueInv
  <1>3. ToSet(merging'.batch) = {}
    BY <1>1, NothingToMergeType DEF ToSet
  <1>4. Known' = Known \cup S
    BY <1>1, <1>2, <1>3
  <1>5. S \subseteq Issues
    <2>1. merging.batch \in Seq(Issues)
      BY DEF Inv, TypeOK
    <2> QED
      BY <2>1 DEF ToSet
  <1>6. \A j \in S : j \notin Begun /\ j \notin Known /\ j \notin InFlight
    BY <1>2, <1>5 DEF Begun, InFlight
  <1> HIDE DEF S
  <1>7. InFlight' = InFlight
    BY <1>1 DEF InFlight
  <1>8. ASSUME NEW j \in Issues
        PROVE  /\ j \in S => Status(j) = "outside" /\ Status(j)' = "queued"
               /\ j \notin S => Status(j)' = Status(j)
    <2>1. (\E n \in DOMAIN entries' : entries'[n].issue = j) <=> j \in Known'
      BY DEF Known
    <2>2. (\E n \in DOMAIN entries : entries[n].issue = j) <=> j \in Known
      BY DEF Known
    <2>3. j \in S => runs[j].phase = "none"
      BY <1>6 DEF Begun
    <2> QED
      BY <1>1, <1>4, <1>6, <1>7, <2>1, <2>2, <2>3 DEF Status
  <1>9. PoolState' = [j \in Issues |-> IF j \in S THEN "queued" ELSE PoolState[j]]
    BY <1>8 DEF PoolState
  <1>10. S \subseteq Pool!With("outside")
    BY <1>5, <1>8 DEF Pool!With
  <1>11. ~Ended /\ ~Ended'
    BY <1>1 DEF Ended
  <1>12. Pool!Arrive(S)
    BY <1>1, <1>9, <1>10, <1>11 DEF Pool!Arrive, PoolState
  <1> QED
    BY <1>5, <1>12

\* A step that moves no job.
LEMMA StepInPlace ==
    ASSUME UNCHANGED <<InFlight, Begun, Known>>,
           \/ UNCHANGED done /\ (Ended <=> Ended')
           \/ UNCHANGED done /\ ~Ended /\ Ended'
           \/ ~Ended /\ ~Ended' /\ \E d \in done' : done' = done \cup {d}
    PROVE  [Pool!PoolNext]_(Pool!poolVars)
  <1>1. UNCHANGED PoolState
    BY SamePool
  <1>2. CASE UNCHANGED done /\ (Ended <=> Ended')
    <2>1. UNCHANGED Pool!poolVars
      <3>1. (~Ended)' = (~Ended)
        BY <1>2
      <3> QED
        BY <1>1, <1>2, <3>1 DEF Pool!poolVars, PoolState
    <2> QED
      BY <2>1
  <1>3. CASE UNCHANGED done /\ ~Ended /\ Ended'
    BY <1>1, <1>3 DEF Pool!PoolNext, Pool!Close, PoolState
  <1>4. CASE ~Ended /\ ~Ended' /\ \E d \in done' : done' = done \cup {d}
    BY <1>1, <1>4 DEF Pool!PoolNext, Pool!Fulfil, PoolState
  <1> QED
    BY <1>2, <1>3, <1>4

LEMMA PoolSteps == Inv /\ [Next]_vars => [Pool!PoolNext]_(Pool!poolVars)
  <1> SUFFICES ASSUME Inv, [Next]_vars
               PROVE  [Pool!PoolNext]_(Pool!poolVars)
    OBVIOUS
  <1>0. /\ TypeOK /\ entries \in Seq(Entry)
        /\ runs \in [Issues -> [phase : Phases, claim : Claims, outcome : Outcomes \cup {None}]]
    BY DEF Inv, TypeOK
  <1>1. CASE Launch
    BY <1>1, LaunchStarts DEF Pool!PoolNext
  <1>2. CASE FinishMerge
    BY <1>2, MergeArrives DEF Pool!PoolNext
  <1>3. ASSUME NEW i \in Issues, Complete(i)
        PROVE  [Pool!PoolNext]_(Pool!poolVars)
    BY <1>3, CompleteFinishes DEF Pool!PoolNext
  <1>4. UNCHANGED runs => UNCHANGED <<InFlight, Begun>>
    BY DEF InFlight, Begun
  <1>5. UNCHANGED entries => UNCHANGED Known
    BY DEF Known
  <1>6. CASE StopLaunching
    <2>1. UNCHANGED <<runs, done>> /\ pc = "launching"
      BY <1>6 DEF StopLaunching, runVars, worldVars
    <2>2. UNCHANGED Known
      <3>1. entries' = RefreshConflictStates(entries, ActiveRuns) \/ UNCHANGED entries
        BY <1>6 DEF StopLaunching
      <3>2. /\ DOMAIN RefreshConflictStates(entries, ActiveRuns) = DOMAIN entries
            /\ \A n \in DOMAIN entries :
                  RefreshConflictStates(entries, ActiveRuns)[n].issue = entries[n].issue
        BY <1>0, Refreshed, SameIssues
      <3> QED
        BY <3>1, <3>2 DEF Known
    <2>3. ~Ended
      BY <2>1 DEF Ended
    <2> QED
      BY <1>4, <2>1, <2>2, <2>3, StepInPlace
  <1>7. ASSUME NEW lost \in SUBSET LookedUp, RefreshOnce(lost) \/ RefreshIdle(lost)
        PROVE  [Pool!PoolNext]_(Pool!poolVars)
    <2>1. /\ UNCHANGED <<runs, done>> /\ pc = "refreshing" /\ pc' \in {"launching", "sleeping"}
          /\ entries' = RefreshDependencies(entries, lost)
      BY <1>7 DEF RefreshOnce, RefreshIdle, Refresh, runVars
    <2>2. UNCHANGED Known
      BY <1>0, <2>1, LookedUpAgain DEF Known
    <2>3. ~Ended /\ ~Ended'
      BY <2>1 DEF Ended
    <2> QED
      BY <1>4, <2>1, <2>2, <2>3, StepInPlace
  <1>8. CASE MergePending \/ FetchIssues \/ FetchFails \/ CheckDependency \/ WakeUp
    <2>1. UNCHANGED <<entries, runs, done>> /\ ~Ended
      BY <1>8 DEF MergePending, FetchIssues, FetchFails, CheckDependency, WakeUp, Ended,
         queueVars, runVars, worldVars
    <2> QED
      BY <1>4, <1>5, <2>1, StepInPlace
  <1>9. ASSUME NEW i \in Issues, Claim(i) \/ Release(i) \/ Leave(i)
        PROVE  [Pool!PoolNext]_(Pool!poolVars)
    <2>1. UNCHANGED <<entries, done, pc>>
      BY <1>9 DEF Claim, Release, Leave, queueVars, loopVars, worldVars
    <2>2. /\ \A j \in Issues \ {i} : runs'[j] = runs[j]
          /\ \/ runs'[i].phase = runs[i].phase
             \/ runs[i].phase \in Busy /\ runs'[i].phase \in Busy
             \/ runs[i].phase = "settled" /\ runs'[i].phase = "left"
      BY <1>0, <1>9 DEF Claim, Release, MayRelease, Leave, IsAt, Busy
    <2>3. UNCHANGED <<InFlight, Begun>>
      BY <2>2 DEF InFlight, Begun, Busy
    <2>4. Ended <=> Ended'
      BY <2>1 DEF Ended
    <2> QED
      BY <1>5, <2>1, <2>3, <2>4, StepInPlace
  <1>10. ASSUME NEW i \in Issues, RunReturns(i)
         PROVE  [Pool!PoolNext]_(Pool!poolVars)
    <2>1. UNCHANGED <<entries, pc>> /\ ~Ended
      BY <1>10 DEF RunReturns, IsAt, Yielded, queueVars, loopVars
    <2>2. PICK outcome \in Outcomes :
              /\ runs' = [runs EXCEPT ![i].phase = "returned", ![i].outcome = outcome]
              /\ done' = IF outcome = "PR_OPEN" THEN done \cup {i} ELSE done
      BY <1>10 DEF RunReturns
    <2>3. /\ \A j \in Issues \ {i} : runs'[j] = runs[j]
          /\ runs[i].phase = "working" /\ runs'[i].phase = "returned"
      BY <1>0, <1>10, <2>2 DEF RunReturns, IsAt
    <2>4. UNCHANGED <<InFlight, Begun>>
      BY <2>3 DEF InFlight, Begun
    <2>5. ~Ended'
      BY <2>1 DEF Ended
    <2>6. UNCHANGED done \/ \E d \in done' : done' = done \cup {d}
      BY <2>2
    <2>7. CASE UNCHANGED done
      BY <1>5, <2>1, <2>4, <2>5, <2>7, StepInPlace
    <2>8. CASE \E d \in done' : done' = done \cup {d}
      BY <1>5, <2>1, <2>4, <2>5, <2>8, StepInPlace
    <2> QED
      BY <2>6, <2>7, <2>8
  <1>11. CASE World
    <2>1. UNCHANGED <<entries, runs, pc>>
      BY <1>11 DEF World, Signal, QueueAdd, DependencyDone, DeadlinePasses, IdleTimePasses,
         queueVars, loopVars, runVars
    <2>2. Ended <=> Ended'
      BY <2>1 DEF Ended
    <2>3. UNCHANGED done \/ (~Ended /\ \E d \in done' : done' = done \cup {d})
      BY <1>11 DEF World, Signal, QueueAdd, DependencyDone, DeadlinePasses, IdleTimePasses
    <2>4. CASE UNCHANGED done
      BY <1>4, <1>5, <2>1, <2>2, <2>4, StepInPlace
    <2>5. CASE ~Ended /\ \E d \in done' : done' = done \cup {d}
      BY <1>4, <1>5, <2>1, <2>2, <2>5, StepInPlace
    <2> QED
      BY <2>3, <2>4, <2>5
  <1>12. CASE UNCHANGED vars
    <2>1. UNCHANGED <<entries, runs, pc, done>>
      BY <1>12 DEF vars, queueVars, loopVars, runVars, worldVars
    <2>2. Ended <=> Ended'
      BY <2>1 DEF Ended
    <2> QED
      BY <1>4, <1>5, <2>1, <2>2, StepInPlace
  <1> QED
    BY <1>1, <1>2, <1>3, <1>6, <1>7, <1>8, <1>9, <1>10, <1>11, <1>12 DEF Next, Loop, Run

\* The scheduler implements the pool of WorkPool: seen from outside, each issue
\* arrives, is launched at most once, within the limit, after all it needs and
\* apart from all it clashes with, and completes; every other step is invisible.
THEOREM QueueIsPool == Spec => ImplementsPool
  BY PoolInits, PoolSteps, Invariant, PTL DEF Spec, ImplementsPool, Pool!PoolSpec
=================================================================================
