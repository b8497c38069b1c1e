-------------------------------- MODULE Scheduler -------------------------------
(***************************************************************************)
(* The concurrent queue of a daemon: DaemonRunner.runSchedulerQueue and    *)
(* what it calls in src/scheduler.                                         *)
(*                                                                         *)
(* One process with an event loop. The loop launches runs, waits for one   *)
(* of them to leave, merges the pending file, launches again, and ends     *)
(* when nothing is left to do. Every run it launched goes on beside it,    *)
(* from await to await. A step is what happens between two awaits, except  *)
(* that launchAvailable, which does not await, is a step for each run it   *)
(* launches; nothing else of the process moves meanwhile.                  *)
(*                                                                         *)
(* The run itself is a call that returns one of its outcomes; RunLifecycle *)
(* says what happens inside.                                               *)
(***************************************************************************)
EXTENDS Naturals, Sequences, FiniteSets, SequencesExt, Sift

CONSTANTS
    Issues,             \* issues that can be queued
    External,           \* other issues theirs may depend on
    DependsOn,          \* dependency markers in the body of each issue
    ScopesConflict,     \* pairs of issues whose workspace scopes conflict
    InitialQueue,       \* the queue `start` wrote
    MaxConcurrentRuns,  \* policy.maxConcurrentRuns
    MaxStartedRuns,     \* policy.budgets.maxStartedRuns
    MaxFailedRuns,      \* policy.budgets.maxFailedRuns
    HasDeadline,        \* whether policy.budgets.maxElapsedMinutes is set
    Idles,              \* whether policy.idleTimeoutMinutes is positive
    MayStop,            \* whether SIGTERM may arrive
    Closable,           \* issues somebody else may close or publish
    None,               \* a budget that is not set
    MaxAdds,            \* bound on the issues `queue add` appends
    MaxFaults           \* bound on the GitHub requests that fail

Deps == Issues \cup External

ASSUME SchedulerAssumption ==
    /\ IsFiniteSet(Deps)
    /\ DependsOn \in [Issues -> SUBSET Deps]
    /\ ScopesConflict \subseteq Issues \X Issues
    /\ \A i, j \in Issues : <<i, j>> \in ScopesConflict => <<j, i>> \in ScopesConflict
    /\ InitialQueue \in Seq(Issues)
    /\ MaxConcurrentRuns \in Nat \ {0}
    /\ None \notin Nat
    /\ {MaxStartedRuns, MaxFailedRuns} \subseteq Nat \cup {None}
    /\ {HasDeadline, Idles, MayStop} \subseteq BOOLEAN
    /\ Closable \subseteq Deps
    /\ {MaxAdds, MaxFaults} \subseteq Nat

VARIABLES
    \* the queue, as the daemon holds it and writes it to queue.json
    entries,    \* scheduler.issues
    queued,     \* queue.issues
    started,    \* scheduler.budgets.startedRuns
    failed,     \* scheduler.budgets.failedRuns
    \* the loop
    pc,         \* where it stands
    origin,     \* what mergePending and launchAvailable return to
    raced,      \* the promises Promise.race was given
    merging,    \* issues being normalised, and what is known of them
    refreshed,  \* refreshedForBlockedState
    idledOnce,
    stop,       \* stopRequested
    \* the runs it launched
    runs,
    unmarked,   \* issues for which a label call failed
    \* the world
    pending,    \* the pending file
    asked,      \* everything `queue add` was given
    done,       \* issues closed, or with a run that opened its pull request
    labels,     \* labels of each issue
    late,       \* maxElapsedMinutes have passed
    idleOver,   \* idleTimeoutMinutes have passed since idleSince
    faults      \* GitHub requests that failed

queueVars == <<entries, queued, started, failed>>
loopVars  == <<pc, origin, raced, merging, refreshed, idledOnce>>
runVars   == <<runs, unmarked, labels>>
worldVars == <<stop, pending, asked, done, late, idleOver, faults>>
vars      == <<queueVars, loopVars, runVars, worldVars>>

Outcomes == {"PR_OPEN", "NEEDS_REFINEMENT", "BLOCKED", "FAILED"}
IssueStates == {"PENDING", "RUNNING", "COMPLETED", "DEFERRED_DEPENDENCY",
                "DEFERRED_CONFLICT", "DEFERRED_INVALID"}

\* A run: launched, its start() returned, half of a release in two calls,
\* released, completeIssue done, promise out of the active set.
Phases == {"none", "working", "returned", "half", "released", "settled", "left"}

\* A claim takes agent:ready away, then puts agent:in-progress.
Claims == {"remove", "add", "done"}

NotLaunched == [phase |-> "none", claim |-> "remove", outcome |-> None]
Launched    == [phase |-> "working", claim |-> "remove", outcome |-> None]

\* An entry: `waits` are the dependencies that are not satisfied.
Entry == [issue : Issues, state : IssueStates, waits : SUBSET Deps]

\* Variant, wrong: a run gives its scope back when start() returns, before
\* its labels are released.
ActiveRunsWorking == {i \in Issues : runs[i].phase = "working"}

\* scheduler.activeRuns, and the loop's set of promises.
ActiveRuns == {i \in Issues : runs[i].phase \in {"working", "returned", "half", "released"}}

\* Variant, wrong: a finished promise stays in the set.
ActiveForEver == {i \in Issues : runs[i].phase # "none"}

Active == ActiveRuns \cup {i \in Issues : runs[i].phase = "settled"}

(***************************************************************************)
(* Pure decisions                                                          *)
(***************************************************************************)
Conflicts(i, running) == \E j \in running : <<i, j>> \in ScopesConflict

RefreshConflictStates(es, running) ==
    [k \in DOMAIN es |->
        IF es[k].state \in {"PENDING", "DEFERRED_CONFLICT"}
          THEN [es[k] EXCEPT !.state = IF Conflicts(es[k].issue, running)
                                         THEN "DEFERRED_CONFLICT" ELSE "PENDING"]
          ELSE es[k]]

Startable(e, running) ==
    e.state = "PENDING" /\ e.waits = {} /\ ~Conflicts(e.issue, running)

\* Every entry of the issue, should there be several.
MarkIssueRunning(es, i) ==
    [k \in DOMAIN es |-> IF es[k].issue = i THEN [es[k] EXCEPT !.state = "RUNNING"] ELSE es[k]]

\* A pull request satisfies those who wait for it.
Unblock(e, i) ==
    LET waits == e.waits \ {i}
    IN  [e EXCEPT !.waits = waits,
                  !.state = IF @ = "DEFERRED_DEPENDENCY" /\ waits = {} THEN "PENDING" ELSE @]

\* Variants, wrong: any outcome satisfies those who wait; nobody is unblocked;
\* only the first entry of the issue is completed.
CompleteIssueAnyhow(es, i, outcome, running) ==
    RefreshConflictStates(
        [k \in DOMAIN es |->
            IF es[k].issue = i THEN [es[k] EXCEPT !.state = "COMPLETED"] ELSE Unblock(es[k], i)],
        running)

CompleteIssueAlone(es, i, outcome, running) ==
    RefreshConflictStates(
        [k \in DOMAIN es |->
            IF es[k].issue = i THEN [es[k] EXCEPT !.state = "COMPLETED"]
            ELSE IF outcome = "PR_OPEN" THEN [es[k] EXCEPT !.waits = @ \ {i}] ELSE es[k]],
        running)

CompleteFirst(es, i, outcome, running) ==
    LET first == SelectInSeq(es, LAMBDA e : e.issue = i)
    IN  RefreshConflictStates(
            [k \in DOMAIN es |->
                IF k = first THEN [es[k] EXCEPT !.state = "COMPLETED"]
                ELSE IF outcome = "PR_OPEN" THEN Unblock(es[k], i) ELSE es[k]],
            running)

CompleteIssue(es, i, outcome, running) ==
    RefreshConflictStates(
        [k \in DOMAIN es |->
            IF es[k].issue = i THEN [es[k] EXCEPT !.state = "COMPLETED"]
            ELSE IF outcome = "PR_OPEN" THEN Unblock(es[k], i) ELSE es[k]],
        running)

\* Variant, wrong: one more than the limit.
ReachedLate(n, limit) == limit # None /\ n > limit

Reached(n, limit) == limit # None /\ n >= limit

IsStartBudgetExhausted ==
    late \/ Reached(started, MaxStartedRuns) \/ Reached(failed, MaxFailedRuns)

\* Issues of the batch that depend on themselves through others of the batch.
DetectDependencyCycles(batch) ==
    {i \in batch :
        \A S \in SUBSET batch :
            (\A j \in S \cup {i} : DependsOn[j] \cap batch \subseteq S) => i \in S}

\* The entry of a new issue, from the checks of its dependencies.
InitialEntry(i, batch, unmet, invalid) ==
    LET waits == {d \in DependsOn[i] : <<i, d>> \in unmet}
    IN  [issue |-> i,
         waits |-> waits,
         state |-> IF \/ i \in DetectDependencyCycles(batch)
                      \/ \E d \in DependsOn[i] : <<i, d>> \in invalid
                     THEN "DEFERRED_INVALID"
                   ELSE IF waits # {} THEN "DEFERRED_DEPENDENCY" ELSE "PENDING"]

NewEntries(batch, unmet, invalid) ==
    [k \in DOMAIN batch |-> InitialEntry(batch[k], ToSet(batch), unmet, invalid)]

\* The dependencies to look up for a batch, as pairs of issue and dependency.
Links(batch) == {l \in ToSet(batch) \X Deps : l[2] \in DependsOn[l[1]]}

(***************************************************************************)
(* `start` has read the issues and their dependencies, some of them in     *)
(* vain, written the queue and spawned the daemon.                         *)
(***************************************************************************)
NothingToMerge == [batch |-> <<>>, left |-> {}, unmet |-> {}, invalid |-> {}]

Init ==
    /\ done \in SUBSET External
    /\ \E invalid \in SUBSET Links(InitialQueue) :
        /\ Cardinality(invalid) <= MaxFaults
        /\ faults = Cardinality(invalid)
        /\ entries = NewEntries(InitialQueue,
                         invalid \cup {l \in Links(InitialQueue) : l[2] \notin done}, invalid)
    /\ queued = ToSet(InitialQueue)
    /\ started = 0 /\ failed = 0
    /\ pc = "merging" /\ origin = "start" /\ raced = {}
    /\ merging = NothingToMerge
    /\ refreshed = FALSE /\ idledOnce = FALSE /\ stop = FALSE
    /\ runs = [i \in Issues |-> NotLaunched]
    /\ unmarked = {}
    /\ pending = <<>> /\ asked = <<>>
    /\ labels = [i \in Issues |-> {"agent:ready"}]
    /\ late = FALSE /\ idleOver = FALSE

Ended   == pc \in {"exited", "crashed"}
Yielded == pc # "launching" /\ ~Ended

\* A GitHub request fails.
Fault == faults < MaxFaults /\ faults' = faults + 1

(***************************************************************************)
(* launchAvailable. Each turn of its loop looks at the room left, at the   *)
(* conflicts and at the budgets, then takes the first entry that may start.*)
(***************************************************************************)
HasRoom == Cardinality(Active) < MaxConcurrentRuns

\* findStartableIssue: the first entry that may start, 0 if none may. It
\* counts the active runs of the queue; HasRoom counts the promises.
FindStartable(es) ==
    IF IsStartBudgetExhausted \/ Cardinality(ActiveRuns) >= MaxConcurrentRuns
      THEN 0
      ELSE SelectInSeq(es, LAMBDA e : Startable(e, ActiveRuns))

Launch ==
    LET es == RefreshConflictStates(entries, ActiveRuns)
        k  == FindStartable(es)
    IN  /\ pc = "launching" /\ HasRoom /\ ~IsStartBudgetExhausted /\ k # 0
        /\ entries' = MarkIssueRunning(es, es[k].issue)
        /\ started' = started + 1
        /\ runs' = [runs EXCEPT ![es[k].issue] = Launched]
        /\ UNCHANGED <<queued, failed, loopVars, unmarked, labels, worldVars>>

\* Where the loop goes with nothing active and the refresh behind it.
IdleOrExit == IF idledOnce \/ ~Idles THEN "exited" ELSE "merging"

\* The head of the loop of runSchedulerQueue.
LoopHead ==
    IF Active # {} THEN "racing"
    ELSE IF stop THEN "exited"
    ELSE IF ~refreshed THEN "refreshing" ELSE IdleOrExit

\* Variant, wrong: the idle wait is always followed by the exit.
AfterLaunchIdleExits ==
    CASE origin = "race" /\ stop          -> "exited"
      [] origin = "refresh" /\ Active = {} -> IdleOrExit
      [] origin = "idle"                   -> "exited"
      [] OTHER                             -> LoopHead

\* What follows each call of launchAvailable.
AfterLaunch ==
    CASE origin = "race" /\ stop          -> "exited"
      [] origin = "refresh" /\ Active = {} -> IdleOrExit
      [] origin = "idle" /\ Active = {}    -> "exited"
      [] OTHER                             -> LoopHead

\* launchAvailable returns, and the loop runs up to its next await.
StopLaunching ==
    LET es == RefreshConflictStates(entries, ActiveRuns)
    IN  /\ pc = "launching"
        /\ \/ ~HasRoom
           \/ IsStartBudgetExhausted
           \/ FindStartable(es) = 0
        /\ entries' = IF HasRoom THEN es ELSE entries
        /\ pc' = AfterLaunch
        /\ raced' = IF AfterLaunch = "racing" THEN Active ELSE {}
        /\ idledOnce' = (idledOnce \/ AfterLaunch = "merging")
        /\ origin' = IF AfterLaunch = "merging" THEN "idle" ELSE origin
        /\ UNCHANGED <<queued, started, failed, merging, refreshed, runVars, worldVars>>

(***************************************************************************)
(* mergePending. The pending file is emptied at once; new issues are then  *)
(* normalised with requests to GitHub, while runs go on.                   *)
(***************************************************************************)
\* Promise.race: one of the promises it was given has resolved.
Woken == raced \ Active # {}

AfterMerge(from) == IF from = "idle" THEN "refreshing" ELSE "launching"


\* Variant, wrong: one known issue makes the daemon drop the others with it.
NewPendingIfAllNew == IF ToSet(pending) \cap queued = {} THEN pending ELSE <<>>

\* Dropped if it is anywhere in the queue, also among the completed.
NewPending == Without(pending, queued)

MergePending ==
    LET toAdd == NewPending
        from  == IF pc = "racing" THEN "race" ELSE origin
    IN  /\ pc = "merging" \/ (pc = "racing" /\ Woken)
        /\ origin' = from
        /\ pending' = <<>>
        /\ queued' = queued \cup ToSet(toAdd)
        /\ merging' = [NothingToMerge EXCEPT !.batch = toAdd]
        /\ pc' = IF toAdd = <<>> THEN AfterMerge(from) ELSE "fetching"
        /\ raced' = {}
        /\ UNCHANGED <<entries, started, failed, refreshed, idledOnce, runVars,
                       stop, asked, done, late, idleOver, faults>>

\* The bodies of the new issues have been read: their dependencies are known.
FetchIssues ==
    /\ pc = "fetching"
    /\ merging' = [merging EXCEPT !.left = Links(merging.batch)]
    /\ pc' = "checking"
    /\ UNCHANGED <<queueVars, origin, raced, refreshed, idledOnce, runVars, worldVars>>

\* One of them could not be read. Nothing catches the error before
\* daemon-entry does: the daemon ends.
FetchFails ==
    /\ pc = "fetching" /\ Fault
    /\ pc' = "crashed"
    /\ UNCHANGED <<queueVars, origin, raced, merging, refreshed, idledOnce, runVars,
                   stop, pending, asked, done, late, idleOver>>

\* One dependency is looked up; a lookup that fails makes it invalid.
CheckDependency ==
    /\ pc = "checking"
    /\ \E l \in merging.left :
        \/ /\ merging' = [merging EXCEPT !.left = @ \ {l},
                                         !.unmet = IF l[2] \in done THEN @ ELSE @ \cup {l}]
           /\ UNCHANGED faults
        \/ /\ Fault
           /\ merging' = [merging EXCEPT !.left = @ \ {l},
                                         !.unmet = @ \cup {l},
                                         !.invalid = @ \cup {l}]
    /\ UNCHANGED <<queueVars, pc, origin, raced, refreshed, idledOnce, runVars,
                   stop, pending, asked, done, late, idleOver>>

\* All is known: the new entries go to the tail of the entries there are now.
FinishMerge ==
    /\ pc = "checking" /\ merging.left = {}
    /\ entries' = entries \o NewEntries(merging.batch, merging.unmet, merging.invalid)
    /\ merging' = NothingToMerge
    /\ pc' = AfterMerge(origin)
    /\ UNCHANGED <<queued, started, failed, origin, raced, refreshed, idledOnce,
                   runVars, worldVars>>

(***************************************************************************)
(* refreshSchedulerDependencies: every dependency of the entries that wait *)
(* is looked up again. No run is active, so nothing of the process moves   *)
(* meanwhile. A failed lookup counts as not satisfied.                     *)
(***************************************************************************)
RefreshDependencies(es, lost) ==
    [k \in DOMAIN es |->
        IF es[k].state # "DEFERRED_DEPENDENCY" THEN es[k]
        ELSE LET i     == es[k].issue
                 waits == {d \in DependsOn[i] : <<i, d>> \in lost \/ d \notin done}
             IN  [es[k] EXCEPT !.waits = waits,
                               !.state = IF waits = {} THEN "PENDING" ELSE @]]

Waiting == {entries[k].issue : k \in
                {n \in DOMAIN entries : entries[n].state = "DEFERRED_DEPENDENCY"}}

\* The lookups of a refresh.
LookedUp == {l \in Waiting \X Deps : l[2] \in DependsOn[l[1]]}

\* A refresh, with the lookups that fail.
Refresh(lost) ==
    /\ pc = "refreshing"
    /\ faults + Cardinality(lost) <= MaxFaults
    /\ faults' = faults + Cardinality(lost)
    /\ entries' = RefreshDependencies(entries, lost)
    /\ UNCHANGED <<queued, started, failed, raced, merging, idledOnce, runVars,
                   stop, pending, asked, done, late, idleOver>>

\* The one refresh of a blocked queue.
RefreshOnce(lost) ==
    /\ origin # "idle"
    /\ Refresh(lost)
    /\ refreshed' = TRUE
    /\ origin' = "refresh"
    /\ pc' = "launching"

\* A turn of idleUntilPendingOrTimeout.
RefreshIdle(lost) ==
    /\ origin = "idle"
    /\ Refresh(lost)
    /\ pc' = IF idleOver \/ \E k \in DOMAIN entries : entries'[k].state = "PENDING"
               THEN "launching" ELSE "sleeping"
    /\ UNCHANGED <<refreshed, origin>>

WakeUp ==
    /\ pc = "sleeping"
    /\ pc' = "merging"
    /\ UNCHANGED <<queueVars, origin, raced, merging, refreshed, idledOnce, runVars, worldVars>>

Loop ==
    \/ Launch \/ StopLaunching
    \/ MergePending \/ FetchIssues \/ FetchFails \/ CheckDependency \/ FinishMerge
    \/ \E lost \in SUBSET LookedUp : RefreshOnce(lost) \/ RefreshIdle(lost)
    \/ WakeUp

(***************************************************************************)
(* runOneScheduledIssue. The claim and the run itself go on side by side;  *)
(* the release waits for both. A failed label call is logged and skips the *)
(* rest of its claim or release.                                           *)
(***************************************************************************)
IsAt(i, phase) == Yielded /\ runs[i].phase = phase

TakeLabel(i, name) == labels' = [labels EXCEPT ![i] = @ \ {name}]
PutLabel(i, name)  == labels' = [labels EXCEPT ![i] = @ \cup {name}]

\* A label call fails, and leaves a trace in the log only.
LabelLost(i) == Fault /\ unmarked' = unmarked \cup {i} /\ UNCHANGED labels


Claim(i) ==
    /\ Yielded /\ i \in ActiveRuns
    /\ \/ /\ runs[i].claim = "remove"
          /\ TakeLabel(i, "agent:ready") /\ UNCHANGED <<unmarked, faults>>
          /\ runs' = [runs EXCEPT ![i].claim = "add"]
       \/ /\ runs[i].claim = "add"
          /\ PutLabel(i, "agent:in-progress") /\ UNCHANGED <<unmarked, faults>>
          /\ runs' = [runs EXCEPT ![i].claim = "done"]
       \/ /\ runs[i].claim # "done"
          /\ LabelLost(i)
          /\ runs' = [runs EXCEPT ![i].claim = "done"]
    /\ UNCHANGED <<queueVars, loopVars, stop, pending, asked, done, late, idleOver>>

\* runService.start returns, or throws and counts as FAILED.
RunReturns(i) ==
    /\ IsAt(i, "working")
    /\ \E outcome \in Outcomes :
        /\ runs' = [runs EXCEPT ![i].phase = "returned", ![i].outcome = outcome]
        /\ done' = IF outcome = "PR_OPEN" THEN done \cup {i} ELSE done
    /\ UNCHANGED <<queueVars, loopVars, unmarked, labels,
                   stop, pending, asked, late, idleOver, faults>>

\* Variant, wrong: the release does not wait for the claim.
MayReleaseEarly(i) == IsAt(i, "returned")

MayRelease(i) == IsAt(i, "returned") /\ runs[i].claim = "done"

\* The calls of `release`: none after a failure, which leaves the label as a
\* sign for a person.
Release(i) ==
    /\ \/ /\ MayRelease(i)
          /\ runs[i].outcome \in {"PR_OPEN", "NEEDS_REFINEMENT"}
          /\ TakeLabel(i, "agent:in-progress") /\ UNCHANGED <<unmarked, faults>>
          /\ runs' = [runs EXCEPT ![i].phase =
                         IF runs[i].outcome = "PR_OPEN" THEN "released" ELSE "half"]
       \/ /\ IsAt(i, "half")
          /\ TakeLabel(i, "agent:ready") /\ UNCHANGED <<unmarked, faults>>
          /\ runs' = [runs EXCEPT ![i].phase = "released"]
       \/ /\ IsAt(i, "half") \/ (MayRelease(i) /\ runs[i].outcome \in {"PR_OPEN", "NEEDS_REFINEMENT"})
          /\ LabelLost(i)
          /\ runs' = [runs EXCEPT ![i].phase = "released"]
    /\ UNCHANGED <<queueVars, loopVars, stop, pending, asked, done, late, idleOver>>

MayComplete(i) ==
    \/ IsAt(i, "released")
    \/ MayRelease(i) /\ runs[i].outcome \in {"BLOCKED", "FAILED"}

\* completeIssue, and the queue is written.
Complete(i) ==
    /\ MayComplete(i)
    /\ entries' = CompleteIssue(entries, i, runs[i].outcome, ActiveRuns \ {i})
    /\ failed' = IF runs[i].outcome \in {"FAILED", "BLOCKED"} THEN failed + 1 ELSE failed
    /\ runs' = [runs EXCEPT ![i].phase = "settled"]
    /\ UNCHANGED <<queued, started, loopVars, unmarked, labels, worldVars>>

\* The promise leaves the active set.
Leave(i) ==
    /\ IsAt(i, "settled")
    /\ runs' = [runs EXCEPT ![i].phase = "left"]
    /\ UNCHANGED <<queueVars, loopVars, unmarked, labels, worldVars>>

Run(i) == Claim(i) \/ RunReturns(i) \/ Release(i) \/ Complete(i) \/ Leave(i)

(***************************************************************************)
(* The world: signals, `queue add`, people, the clock.                     *)
(***************************************************************************)
Signal ==
    /\ MayStop /\ Yielded /\ ~stop
    /\ stop' = TRUE
    /\ UNCHANGED <<queueVars, loopVars, runVars, pending, asked, done, late, idleOver, faults>>

\* `queue add` refuses when the daemon is not alive.
QueueAdd(i) ==
    /\ ~Ended
    /\ Len(asked) < MaxAdds
    /\ pending' = Append(pending, i)
    /\ asked' = Append(asked, i)
    /\ UNCHANGED <<queueVars, loopVars, runVars, stop, done, late, idleOver, faults>>

\* Somebody closes a dependency, or another run of it opens a pull request.
DependencyDone(d) ==
    /\ ~Ended
    /\ d \in Closable \ done
    /\ done' = done \cup {d}
    /\ UNCHANGED <<queueVars, loopVars, runVars, stop, pending, asked, late, idleOver, faults>>

DeadlinePasses ==
    /\ HasDeadline /\ ~Ended /\ ~late
    /\ late' = TRUE
    /\ UNCHANGED <<queueVars, loopVars, runVars, stop, pending, asked, done, idleOver, faults>>

IdleTimePasses ==
    /\ idledOnce /\ ~Ended /\ ~idleOver
    /\ idleOver' = TRUE
    /\ UNCHANGED <<queueVars, loopVars, runVars, stop, pending, asked, done, late, faults>>

World ==
    \/ Signal
    \/ \E i \in Issues : QueueAdd(i)
    \/ \E d \in Deps : DependencyDone(d)
    \/ DeadlinePasses \/ IdleTimePasses

Next == Loop \/ (\E i \in Issues : Run(i)) \/ World

Spec == Init /\ [][Next]_vars

\* Each await ends: runs and requests have timeouts, and the clock goes on.
FairSpec ==
    /\ Spec
    /\ WF_vars(Loop)
    /\ \A i \in Issues : WF_vars(Run(i))
    /\ WF_vars(IdleTimePasses)

(***************************************************************************)
(* Properties                                                              *)
(***************************************************************************)
TypeOK ==
    /\ entries \in Seq(Entry)
    /\ queued \subseteq Issues
    /\ started \in Nat /\ failed \in Nat
    /\ pc \in {"merging", "fetching", "checking", "launching", "racing", "refreshing",
               "sleeping", "exited", "crashed"}
    /\ origin \in {"start", "race", "refresh", "idle"}
    /\ raced \subseteq Issues
    /\ merging \in [batch : Seq(Issues), left : SUBSET (Issues \X Deps),
                    unmet : SUBSET (Issues \X Deps), invalid : SUBSET (Issues \X Deps)]
    /\ {refreshed, idledOnce, stop, late, idleOver} \subseteq BOOLEAN
    /\ runs \in [Issues -> [phase : Phases, claim : Claims, outcome : Outcomes \cup {None}]]
    /\ unmarked \subseteq Issues
    /\ pending \in Seq(Issues) /\ asked \in Seq(Issues)
    /\ done \subseteq Deps
    /\ labels \in [Issues -> SUBSET {"agent:ready", "agent:in-progress"}]
    /\ faults \in 0..MaxFaults

\* Launched and not yet through completeIssue.
InFlight == {i \in Issues : runs[i].phase \notin {"none", "settled", "left"}}

\* Never more runs than the policy allows, though launches are decided in one
\* place and completions happen in another.
WithinLimit == Cardinality(InFlight) <= MaxConcurrentRuns

\* Two issues whose scopes conflict are never in flight together, down to
\* the last label call of the first.
NoOverlap == \A i, j \in InFlight : i # j => <<i, j>> \notin ScopesConflict

\* Nothing is launched before all it depends on is closed or has opened its
\* pull request, whichever of start, queue add, refresh and completion said so.
DependenciesFirst ==
    \A i \in Issues : runs[i].phase # "none" => DependsOn[i] \subseteq done

\* Start budgets: exact for started runs; for failed runs, only those already
\* in flight when the budget ran out may still fail.
WithinBudget ==
    /\ MaxStartedRuns # None => started <= MaxStartedRuns
    /\ MaxFailedRuns # None => failed <= MaxFailedRuns + MaxConcurrentRuns - 1

\* No issue is launched twice, whatever is queued again and however often.
EachIssueOnce == started = Cardinality({i \in Issues : runs[i].phase # "none"})

\* The queue file says RUNNING and COMPLETED of exactly the issues that are,
\* although completions, merges and launches rewrite it in turn.
EntriesMatchRuns ==
    \A k \in DOMAIN entries :
        LET phase == runs[entries[k].issue].phase
        IN  /\ entries[k].state = "RUNNING" <=> entries[k].issue \in InFlight
            /\ entries[k].state = "COMPLETED" <=> phase \in {"settled", "left"}

\* Could be launched now, judged by what it waits for and not by its state.
Ready(e) ==
    /\ e.state \notin {"RUNNING", "COMPLETED", "DEFERRED_INVALID"}
    /\ e.waits = {}
    /\ ~Conflicts(e.issue, InFlight)

\* While the loop waits for a run and none has finished, no slot is free that
\* an entry could use.
WorkConserving ==
    pc = "racing" /\ raced \subseteq InFlight /\ InFlight = Active =>
        \/ Cardinality(InFlight) >= MaxConcurrentRuns
        \/ IsStartBudgetExhausted
        \/ \A k \in DOMAIN entries : ~Ready(entries[k])

\* A daemon that ends by itself leaves behind only entries that wait for a
\* dependency or never could run, and no run in flight.
NothingLeftBehind ==
    pc = "exited" /\ ~stop =>
        /\ InFlight = {}
        /\ \/ IsStartBudgetExhausted
           \/ \A k \in DOMAIN entries :
                  \/ entries[k].state \in {"COMPLETED", "DEFERRED_INVALID"}
                  \/ entries[k].state = "DEFERRED_DEPENDENCY" /\ entries[k].waits # {}

\* What `queue add` was given is in the pending file, being merged or in the
\* queue, unless the daemon died.
NoIssueLost ==
    pc # "crashed" =>
        ToSet(asked) \subseteq
            ToSet(pending) \cup ToSet(merging.batch) \cup {entries[k].issue : k \in DOMAIN entries}

\* When its run is over, an issue wears agent:in-progress exactly if a person
\* has to look at it, unless a label call failed.
LabelsMatchOutcome ==
    \A i \in Issues \ unmarked :
        runs[i].phase \in {"settled", "left"} =>
            labels[i] = IF runs[i].outcome \in {"BLOCKED", "FAILED"}
                          THEN {"agent:in-progress"} ELSE {}

\* The daemon ends.
DaemonEnds == <>Ended

(***************************************************************************)
(* What the documents say.                                                 *)
(***************************************************************************)
\* The daemon does not exit before the runs in flight have returned.
ExitsAfterRuns == pc = "exited" => \A i \in Issues : runs[i].phase # "working"

\* An issue that cannot be read fails alone.
BadIssueFailsAlone == pc # "crashed"

(***************************************************************************)
(* The scheduler implements a pool of work.                                *)
(***************************************************************************)
Status(i) ==
    IF i \in InFlight THEN "working"
    ELSE IF runs[i].phase # "none" THEN "finished"
    ELSE IF \E k \in DOMAIN entries : entries[k].issue = i THEN "queued" ELSE "outside"

Pool == INSTANCE WorkPool
    WITH Jobs <- Issues, Needs <- DependsOn, Clash <- ScopesConflict,
         Limit <- MaxConcurrentRuns,
         pool <- [i \in Issues |-> Status(i)], fulfilled <- done, open <- ~Ended

\* Whatever the order of launches, completions, merges and refreshes, it looks
\* from outside like a pool that starts each job once, in order of need, within
\* the limit, and never two that clash.
ImplementsPool == Pool!PoolSpec

=================================================================================
