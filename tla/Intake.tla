--------------------------------- MODULE Intake ---------------------------------
(***************************************************************************)
(* From a backlog to a queue: `analyze` and `discover` sort issues into    *)
(* executable ones and others, `discover` moves the label agent:ready, and *)
(* `start` plans the queue from a report or from issues named by the       *)
(* operator. People and an earlier daemon change the issues meanwhile.     *)
(* Every request to GitHub is a step of its own.                           *)
(***************************************************************************)
EXTENDS DependencyCycles

CONSTANTS
    Outside,        \* issues only named as dependencies
    Worlds,         \* bound: what GitHub holds at the beginning, what is asked for,
                    \* and if anything may change or fail meanwhile
    None,
    MaxChanges,     \* bound: steps of people and of the earlier daemon
    MaxFaults       \* bound: requests that fail

Numbers == Issues \cup Outside

Classes == {"READY", "CANDIDATE", "NEEDS_REFINEMENT", "BLOCKED", "SKIPPED"}

ASSUME IntakeAssumption ==
    /\ Outside \subseteq Nat
    /\ \A w \in Worlds :
          /\ w.refs \subseteq Issues /\ w.ready \subseteq Issues
          /\ w.dependsOn \in [Issues -> SUBSET Numbers]
    /\ None \notin Classes \cup {"labeled", "unlabeled"}

VARIABLES
    \* GitHub and the run store
    world,      \* dependsOn, refs and commands of a world; they do not change
    closed, claimed, split, ready,  \* issues that are closed, that have a label
    withPr,     \* issues with a local run that opened its pull request
    daemon,     \* an earlier daemon is live
    \* one command
    pc, command, deep,
    todo,       \* the issues its loop has yet to visit, in ascending order
    open,       \* the resolved set
    looking,    \* dependencies of the issue that are still to be fetched
    screen,     \* the screen's verdict on the issue
    verdict,    \* the classification of each row
    executable, \* of the report
    report,     \* a report is stored
    action,     \* what discover does to the label
    \* planning
    links,      \* dependencies still to be looked up, as pairs
    unmet, invalid,
    plan,       \* the initial state of each queued issue
    \* bounds and bookkeeping
    changes, faults,
    before,     \* issues that have been closed, claimed or split since before the
                \* command, and those that had agent:ready when it began
    touched,    \* issues whose labels others changed since then
    late,       \* issues closed after discover had seen for the last time that they are open
    unread      \* issues with a label request that failed

worldVars  == <<world, closed, claimed, split, ready, withPr, daemon, changes>>
reportVars == <<open, looking, screen, verdict, executable, report, deep>>
planVars   == <<links, unmet, invalid, plan>>
bookVars   == <<before, touched, late, unread>>
vars == <<worldVars, pc, command, todo, reportVars, action, planVars, faults,
          bookVars, cycleVars>>

NoPlan == [i \in {} |-> None]

Init ==
    /\ CyclesInit
    /\ \E w \in Worlds :
        /\ world = [dependsOn |-> w.dependsOn, refs |-> w.refs, commands |-> w.commands]
        /\ closed = w.closed /\ claimed = w.claimed /\ split = w.split
        /\ ready = w.ready /\ daemon = w.daemon
        /\ changes = IF w.quiet THEN MaxChanges ELSE 0
        /\ faults = IF w.quiet THEN MaxFaults ELSE 0
    /\ withPr = {}
    /\ pc = "idle" /\ command = None /\ deep = FALSE /\ todo = {} /\ open = {}
    /\ looking = {} /\ screen = None /\ verdict = [i \in Issues |-> None]
    /\ executable = {} /\ report = FALSE /\ action = None
    /\ links = {} /\ unmet = {} /\ invalid = {} /\ plan = NoPlan
    /\ before = [closed |-> {}, claimed |-> {}, split |-> {}, ready |-> {}]
    /\ touched = {} /\ late = {} /\ unread = {}

Fault == faults < MaxFaults /\ faults' = faults + 1

NextIssue == Min(todo)

Give == pc' = "idle" /\ todo' = {}

\* The issues to look at next, and where the command goes when none is left.
Enter(issues, next, end) ==
    /\ todo' = issues
    /\ pc' = IF issues = {} THEN end ELSE next

(***************************************************************************)
(* analyze and discover: resolveIssueSet                                   *)
(***************************************************************************)
Begin(c, d) ==
    /\ pc = "idle" /\ ~report /\ c \in world.commands   \* bound: one report
    /\ command' = c /\ deep' = d
    /\ Enter(world.refs, "resolve", "report") /\ open' = {}
    /\ verdict' = [i \in Issues |-> None] /\ executable' = {}
    /\ looking' = {} /\ screen' = None
    /\ before' = [closed |-> closed, claimed |-> claimed, split |-> split, ready |-> ready]
    /\ touched' = {} /\ late' = {} /\ unread' = {}
    /\ UNCHANGED <<worldVars, report, action, planVars, faults, cycleVars>>

Resolve ==
    /\ pc = "resolve"
    /\ \/ /\ open' = IF NextIssue \in closed THEN open ELSE open \cup {NextIssue}
          /\ IF todo = {NextIssue} THEN Enter(open', "screen", "report")
                                   ELSE Enter(todo \ {NextIssue}, "resolve", "report")
          /\ looking' = IF todo = {NextIssue} /\ open' # {}
                          THEN world.dependsOn[Min(open')] ELSE {}
          /\ UNCHANGED faults
       \/ Fault /\ Give /\ UNCHANGED <<open, looking>>
    /\ UNCHANGED <<worldVars, command, screen, verdict, executable, report, deep,
                   action, planVars, bookVars, cycleVars>>

(***************************************************************************)
(* analyzeIssues, one issue                                                *)
(***************************************************************************)
\* On to the next issue of the loop, with its dependencies to fetch.
Onward ==
    /\ Enter(todo \ {NextIssue}, "screen", "report")
    /\ looking' = IF todo = {NextIssue} THEN {}
                  ELSE world.dependsOn[Min(todo \ {NextIssue})]
    /\ screen' = None

\* resolveScreenDependencies: one that cannot be fetched counts as open.
FetchDependency ==
    /\ pc = "screen" /\ looking # {}
    /\ LET d == Min(looking) IN
        /\ looking' = looking \ {d}
        /\ \/ screen' = (IF d \in closed THEN screen ELSE "BLOCKED") /\ UNCHANGED faults
           \/ screen' = "BLOCKED" /\ Fault
    /\ UNCHANGED <<worldVars, pc, command, todo, open, verdict, executable, report,
                   deep, action, planVars, bookVars, cycleVars>>

Classify(class) ==
    /\ verdict' = [verdict EXCEPT ![NextIssue] = class]
    /\ IF class = "READY"
         THEN pc' = "claim" /\ UNCHANGED <<todo, looking, screen>>
         ELSE Onward

\* What the rules after the first two may say of a body. AMBIGUOUS is handled as
\* NEEDS_REFINEMENT is; only an issue with no body at all is SKIPPED.
Screens(i) ==
    {"READY", "CANDIDATE", "NEEDS_REFINEMENT"} \cup
    (IF world.dependsOn[i] = {} THEN {"SKIPPED"} ELSE {})

Screen ==
    /\ pc = "screen" /\ looking = {}
    /\ \E s \in IF screen = None THEN Screens(NextIssue) ELSE {screen} :
        IF s # "SKIPPED" /\ (deep \/ s = "CANDIDATE")
          THEN pc' = "gate" /\ screen' = s /\ UNCHANGED <<todo, looking, verdict>>
          ELSE Classify(s)
    /\ UNCHANGED <<worldVars, command, open, executable, report, deep, action,
                   planVars, faults, bookVars, cycleVars>>

Graded(status) == IF screen = "BLOCKED" THEN "BLOCKED" ELSE status

\* A refiner session; when it cannot be had, the command ends.
Gate ==
    /\ pc = "gate"
    /\ \/ \E status \in {"READY", "NEEDS_REFINEMENT"} : Classify(Graded(status))
          /\ UNCHANGED faults
       \/ Fault /\ Give /\ UNCHANGED <<verdict, looking, screen>>
    /\ UNCHANGED <<worldVars, command, open, executable, report, deep, action,
                   planVars, bookVars, cycleVars>>

\* Variant, wrong: nobody looks whether an issue is claimed.
IsInProgressUnseen(i) == FALSE
IsInProgress(i) == i \in claimed

\* A failing read counts as "not claimed".
ReadClaim ==
    /\ pc = "claim"
    /\ \/ /\ executable' = IF IsInProgress(NextIssue) THEN executable
                           ELSE executable \cup {NextIssue}
          /\ UNCHANGED <<faults, unread>>
       \/ Fault /\ executable' = executable \cup {NextIssue}
          /\ unread' = unread \cup {NextIssue}
    /\ Onward
    /\ UNCHANGED <<worldVars, command, open, verdict, report, deep, action,
                   planVars, before, touched, late, cycleVars>>

WriteReport ==
    /\ pc = "report"
    /\ report' = TRUE
    /\ Enter(IF command = "discover" THEN open ELSE {}, "labels", "idle")
    /\ UNCHANGED <<worldVars, command, open, looking, screen, verdict, executable,
                   deep, action, planVars, faults, bookVars, cycleVars>>

(***************************************************************************)
(* discover, the labels                                                    *)
(***************************************************************************)
\* Variant, wrong: a claimed issue is labelled like any other.
ReconcileClaimed(i) ==
    IF i \in split \/ (verdict[i] = "READY" <=> i \in ready) THEN None
    ELSE IF verdict[i] = "READY" THEN "labeled" ELSE "unlabeled"

ReconcileReadyLabel(i) ==
    IF i \in split \cup claimed \/ (verdict[i] = "READY" <=> i \in ready) THEN None
    ELSE IF verdict[i] = "READY" THEN "labeled" ELSE "unlabeled"

ReadLabels ==
    /\ pc = "labels"
    /\ \/ /\ action' = ReconcileReadyLabel(NextIssue)
          /\ IF action' = None
               THEN Enter(todo \ {NextIssue}, "labels", "idle")
               ELSE /\ pc' = IF action' = "labeled" THEN "confirm" ELSE "label"
                    /\ UNCHANGED todo
          /\ UNCHANGED <<faults, unread>>
       \/ Fault /\ Enter(todo \ {NextIssue}, "labels", "idle")
          /\ unread' = unread \cup {NextIssue} /\ UNCHANGED action
    /\ UNCHANGED <<worldVars, command, reportVars, planVars, before, touched, late, cycleVars>>

\* Variant, wrong: the issue is not looked at again before it is labelled.
ConfirmsNothing ==
    /\ pc = "confirm"
    /\ pc' = "label"
    /\ UNCHANGED <<worldVars, command, todo, reportVars, action, planVars, faults, bookVars, cycleVars>>

\* addLabel looks at the issue once more: agent:ready is refused to a closed
\* one. discover goes on, as it does when a request fails.
ConfirmOpen ==
    /\ pc = "confirm"
    /\ \/ /\ NextIssue \notin closed
          /\ pc' = "label" /\ UNCHANGED <<todo, action, faults, unread>>
       \/ /\ NextIssue \in closed
          /\ Enter(todo \ {NextIssue}, "labels", "idle")
          /\ action' = None /\ UNCHANGED <<faults, unread>>
       \/ /\ Fault /\ Enter(todo \ {NextIssue}, "labels", "idle")
          /\ action' = None /\ unread' = unread \cup {NextIssue}
    /\ UNCHANGED <<worldVars, command, reportVars, planVars, before, touched, late, cycleVars>>

WriteLabel ==
    /\ pc = "label"
    /\ \/ /\ ready' = IF action = "labeled" THEN ready \cup {NextIssue} ELSE ready \ {NextIssue}
          /\ UNCHANGED <<faults, unread>>
       \/ Fault /\ unread' = unread \cup {NextIssue} /\ UNCHANGED ready
    /\ action' = None
    /\ Enter(todo \ {NextIssue}, "labels", "idle")
    /\ UNCHANGED <<world, closed, claimed, split, withPr, daemon, changes, command,
                   reportVars, planVars, before, touched, late, cycleVars>>

(***************************************************************************)
(* start: the issues of a report are taken as they are, issues the         *)
(* operator names are checked first; then the plan.                        *)
(***************************************************************************)
StartFromReport ==
    /\ pc = "idle" /\ ~daemon /\ "start" \in world.commands
    /\ report /\ executable # {}
    /\ command' = "start" /\ pc' = "bodies" /\ todo' = executable
    /\ UNCHANGED <<worldVars, reportVars, action, planVars, faults, bookVars, cycleVars>>

StartExplicit(issues) ==
    /\ pc = "idle" /\ ~daemon /\ "start" \in world.commands
    /\ command' = "start" /\ pc' = "verify" /\ todo' = issues /\ open' = issues
    /\ UNCHANGED <<worldVars, looking, screen, verdict, executable, report, deep,
                   action, planVars, faults, bookVars, cycleVars>>

\* assertIssueActionable; a label read that fails counts as "not claimed".
Verify ==
    /\ pc = "verify"
    /\ \/ IF NextIssue \in closed \cup claimed
            THEN Give /\ UNCHANGED faults
            ELSE /\ IF todo = {NextIssue} THEN pc' = "bodies" /\ todo' = open
                                          ELSE todo' = todo \ {NextIssue} /\ UNCHANGED pc
                 /\ UNCHANGED faults
       \/ Fault /\ NextIssue \notin closed
          /\ IF todo = {NextIssue} THEN pc' = "bodies" /\ todo' = open
                                   ELSE todo' = todo \ {NextIssue} /\ UNCHANGED pc
       \/ Fault /\ Give
    /\ UNCHANGED <<worldVars, command, reportVars, action, planVars, bookVars, cycleVars>>

\* The bodies are read, one after the other; nobody asks if an issue is open.
ReadBodies ==
    /\ pc = "bodies"
    /\ \/ /\ links' = {l \in todo \X Numbers : l[2] \in world.dependsOn[l[1]]}
          /\ pc' = "snapshots" /\ UNCHANGED <<todo, faults>>
       \/ Fault /\ Give /\ UNCHANGED links
    /\ UNCHANGED <<worldVars, command, reportVars, action, unmet, invalid, plan,
                   bookVars, cycleVars>>

\* The dependency that is looked up next, in the order of the two loops.
NextLink == CHOOSE l \in links :
    \A k \in links : l[1] < k[1] \/ (l[1] = k[1] /\ l[2] <= k[2])

\* Variant, wrong: a dependency that cannot be fetched is forgotten.
LookUpForgets == UNCHANGED <<unmet, invalid>>
LookUpFails == unmet' = unmet \cup {NextLink} /\ invalid' = invalid \cup {NextLink}

Snapshot ==
    /\ pc = "snapshots" /\ links # {}
    /\ links' = links \ {NextLink}
    /\ \/ unmet' = (IF NextLink[2] \in closed \cup withPr THEN unmet ELSE unmet \cup {NextLink})
          /\ UNCHANGED <<invalid, faults>>
       \/ Fault /\ LookUpFails
    /\ UNCHANGED <<worldVars, pc, command, todo, reportVars, action, plan, bookVars, cycleVars>>

Detect ==
    /\ pc = "snapshots" /\ links = {}
    /\ pc' = "detect"
    /\ StartDetecting([i \in todo |-> world.dependsOn[i]])
    /\ UNCHANGED <<worldVars, command, todo, reportVars, action, planVars, faults, bookVars>>

Waits(i)     == \E l \in unmet : l[1] = i
IsInvalid(i) == i \in cyclic \/ \E l \in invalid : l[1] = i

InitialState(i) ==
    IF IsInvalid(i) THEN "DEFERRED_INVALID" ELSE IF Waits(i) THEN "DEFERRED_DEPENDENCY" ELSE "PENDING"

\* The queue is written and the daemon spawned.
Plan ==
    /\ pc = "detect" /\ Detected
    /\ plan' = [i \in todo |-> InitialState(i)]
    /\ pc' = "started" /\ todo' = {}
    /\ UNCHANGED <<worldVars, command, reportVars, action, links, unmet, invalid,
                   faults, bookVars, cycleVars>>

Detecting ==
    /\ pc = "detect" /\ DetectStep
    /\ UNCHANGED <<worldVars, pc, command, todo, reportVars, action, planVars, faults, bookVars>>

(***************************************************************************)
(* People and the earlier daemon                                           *)
(***************************************************************************)
Change ==
    /\ changes < MaxChanges /\ changes' = changes + 1 /\ pc # "started"
    /\ UNCHANGED <<world, pc, command, todo, reportVars, action, planVars, faults,
                   unread, cycleVars>>

\* discover will not ask any more whether it is open.
Confirmed(i) ==
    command = "discover" /\ report /\ (i \notin todo \/ (pc = "label" /\ i = NextIssue))

Close(i) ==
    /\ i \notin closed /\ closed' = closed \cup {i}
    /\ late' = IF Confirmed(i) THEN late \cup {i} ELSE late
    /\ Change /\ UNCHANGED <<claimed, split, ready, withPr, daemon, before, touched>>

\* agent:ready goes, agent:in-progress comes.
Claim(i) ==
    /\ daemon /\ i \notin claimed \cup closed
    /\ claimed' = claimed \cup {i} /\ ready' = ready \ {i} /\ touched' = touched \cup {i}
    /\ Change /\ UNCHANGED <<closed, split, withPr, daemon, before, late>>

\* The run ended with a pull request.
Release(i) ==
    /\ daemon /\ i \in claimed
    /\ claimed' = claimed \ {i} /\ withPr' = withPr \cup {i}
    /\ before' = [before EXCEPT !.claimed = @ \ {i}] /\ touched' = touched \cup {i}
    /\ Change /\ UNCHANGED <<closed, split, ready, daemon, late>>

DaemonEnds ==
    /\ daemon /\ daemon' = FALSE
    /\ Change /\ UNCHANGED <<closed, claimed, split, ready, withPr, before, touched, late>>

Next ==
    \/ \E c \in {"analyze", "discover"}, d \in BOOLEAN : Begin(c, d)
    \/ Resolve \/ FetchDependency \/ Screen \/ Gate \/ ReadClaim \/ WriteReport
    \/ ReadLabels \/ ConfirmOpen \/ WriteLabel
    \/ StartFromReport
    \/ \E issues \in (SUBSET world.refs) \ {{}} : StartExplicit(issues)
    \/ Verify \/ ReadBodies \/ Snapshot \/ Detect \/ Detecting \/ Plan
    \/ \E i \in Numbers : Close(i)
    \/ \E i \in Issues : Claim(i) \/ Release(i)
    \/ DaemonEnds

Spec == Init /\ [][Next]_vars

-----------------------------------------------------------------------------
(***************************************************************************)
(* Properties. CyclesAreExact comes from DependencyCycles.                 *)
(***************************************************************************)

\* What a report offers for execution was open when the analysis fetched it,
\* and nobody held it all along, unless its labels could not be read; and no
\* gate, no later look and no failure lifts the screen's verdict: what is
\* offered depends on closed issues only.
OfferedIsExecutable ==
    /\ report => executable \cap (before.closed \cup (before.claimed \ unread)) = {}
    /\ \A i \in executable : world.dependsOn[i] \subseteq closed

\* discover leaves alone what has been claimed, split or closed all along.
DiscoverLeavesAlone ==
    [][pc = "label" /\ todo' # todo =>
        \A i \in Issues : i \in before.closed \cup before.claimed \cup before.split
                            => (i \in ready' <=> i \in ready)]_vars

\* After discover the label agent:ready says what the report says, except where
\* a request failed or somebody else changed the labels meanwhile. What was
\* closed while discover worked is not labelled any more, unless it was closed
\* between addLabel's look and its write; a label it had stays.
LabelsFollowReport ==
    command = "discover" /\ report /\ pc = "idle" =>
        \A i \in open \ (touched \cup unread \cup claimed \cup split) :
            i \in ready <=> /\ verdict[i] = "READY"
                            /\ i \in closed \ late => i \in before.ready

\* The plan the daemon is started with can be worked off: nothing starts before
\* its dependencies are met, whatever failed or changed between the requests of
\* `start`, and no planned issues wait for one another only.
PlanIsSound ==
    /\ \A i \in DOMAIN plan :
          plan[i] = "PENDING" => world.dependsOn[i] \subseteq closed \cup withPr
    /\ \A S \in SUBSET DOMAIN plan :
          S # {} =>
          ~ \A i \in S : plan[i] = "DEFERRED_DEPENDENCY" /\ \E j \in S : <<i, j>> \in unmet
=================================================================================
