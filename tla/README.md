# Verification of pi_autopilot

TLA+ models, TLC runs and TLAPS proofs for `pi_autopilot`, a command line
orchestrator that takes GitHub issues through analysis, readiness, implementation by
a Pi agent session, verification, independent review, acceptance verification and a
draft pull request, by hand (`autopilot run`) or from a daemon working a queue.

All source paths below are relative to `src/src/` unless they say otherwise.

## 1. The system

### Components, their state and their operations

| Component | State it keeps | Operations | Modelled by |
|---|---|---|---|
| Run service (`workflow/run-service.ts`) | per execution: believed stage, attempt and cycle counters, fingerprints, attempt sequence, latest evidence | `start`, `resume`, the body of `RunAttempt` | `RunLifecycle` |
| State machine (`workflow/state-machine.ts`) | none | transition table, `nextStage` (only RESUME is ever sent to it) | `Stages` |
| Budgets (`workflow/budgets.ts`) | fingerprints seen | `recordFailure` | `Budgets` |
| Run store (`persistence/run-store.ts`) | SQLite tables runs, transitions, attempts, publications | compare-and-set `transition`, `createRun`, `recordAttempt`, `recordPublication`, lists | `RunLifecycle` (one run) |
| Recovery (`workflow/recovery-service.ts`) | none | `resume`, `abandon` | `RunLifecycle` |
| Workspace manager (`workspace/workspace-manager.ts`) | git worktrees and branches | `create`, `locate`, `inspect`, `treeHash`, `commit` | `RunLifecycle` |
| Verification runner (`verification/`) | evidence with the tree hash | `runSetup`, `runVerification` | `RunLifecycle` |
| Publisher (`publication/publisher.ts`) | publications row, origin, GitHub | `publish` | `RunLifecycle` |
| Daemon (`daemon/daemon-runner.ts`) | queue file, stop flag, runs in flight | reconcile at start; concurrent loop, merges, labels | `RunLifecycle`; `Scheduler`; `DaemonLife` |
| Scheduler (`scheduler/`) | issue states, active runs, budgets | `findStartableIssue`, `markIssueRunning`, `completeIssue`, refreshes | `Scheduler`, `WorkPool` |
| Dependencies (`scheduler/dependencies.ts`) | none | cycle search, snapshots, initial states | `DependencyCycles`, `Intake`, `Scheduler` |
| Scopes (`scheduler/workspace-scope.ts`) | none | the conflict test of two patterns | `Scopes` |
| Daemon life cycle (`daemon/pid-file.ts`, `daemon-entry.ts`, `pending-queue-store.ts`, `commands/start.ts`, `stop.ts`, `queue.ts`) | PID file, queue file, pending file, process table | `start`, `queue add`, `stop`, the daemon from spawn to exit | `DaemonLife` |
| Analysis and discovery (`analysis/`, `commands/analyze.ts`, `discover.ts`, `start.ts`) | reports, the label agent:ready, the planned queue | resolve, screen, gate, claim check, label, plan | `Intake` |
| Reconciliation (`reconciliation/`) | reports, apply artifacts, latest-apply pointer, issue bodies | build a report, apply it patch by patch, steer the next | `ReconcileApply`, `Tracker` |
| Readiness, prepare (`readiness/`, `commands/prepare.ts`, `check.ts`) | readiness reports, snapshots, latest-ready pointer, contract in the body | `check`, `prepare` | `Prepare` |
| Bootstrap (`bootstrap/`, `pi/guard-extension.ts`) | question and answer files, plan file, issues, sub-issues, board | `ask_human` and its pump, `--plan`, `--apply` | `BootstrapAsk`, `BootstrapApply`, `Bootstrap` |
| GitHub adapter (`github/`) | - | REST and GraphQL calls | external: what the modules above see of it (`Tracker`) |
| `run --fresh` (`commands/run.ts`) | - | drop the most recent run, start another | not modelled |
| Configuration, paths, UI, process runner, prompts | - | - | configuration values are CONSTANTS; the process runner's timeout justifies the fairness |

### How they interact

One `RunAttempt` runs in one operating system process, one `await` at a time.
Several processes may act on the same run: the one that started it, an `autopilot
resume`, a daemon that lists the nonterminal runs when it starts, an `autopilot
abandon`. They share the SQLite file, the git worktree, origin and GitHub, and
nothing orders them but the compare-and-set in `RunStore.transition`: a stage write
succeeds only if the row is still in the stage the writer believes in.

A daemon process has one event loop with several runs in flight. It shares three
files with the commands of the operator, without a lock: the PID file (`start`,
`stop`, `queue add` probe it, and delete it when they find nobody), queue.json
(`start` writes it before the daemon does) and the pending file (`queue add` appends,
the daemon drains). Labels on GitHub tell the analysis what a daemon has claimed.

The intake commands (`analyze`, `discover`, `check`, `prepare`, `reconcile`,
`reconcile-apply`, `bootstrap`) work for minutes, on what they read of GitHub at
their start, and leave reports another command picks up hours later. People and
daemons change the issues meanwhile. A bootstrap session is a second process that
talks to the command through numbered files.

### What is hard

* Two processes that both believe they drive a run: no lease, no lock.
* Errors at every await. `runFailClosed` turns all of them into FAILED, with the
  stage to resume at, and its own write may fail.
* Crashes between the git and GitHub calls of a publication, and answers lost after
  GitHub acted; the retry goes through the whole pipeline again. The same for each
  patch of a reconciliation and each issue of a bootstrap plan.
* Counters rebuilt from rows on each resume; rows written only after a session
  returned.
* A worktree that operators, verification commands and other processes change
  between the hash, the review, the acceptance and the commit.
* In the daemon: files written by several processes, PIDs that come back, runs in
  flight while the budgets are checked, a stop signal that races with the launches,
  completions that race with merges.
* Reports, bodies, labels and dependencies that are stale when they are used.
* Questions and answers in files that are half written when they are read.

### What makes each component correct

* Run: an error never leaves it in a working stage with nobody working on it; what
  is finished stays finished; sessions are bounded; correction loops end; what it
  commits is the tree that was verified, reviewed and accepted; publication is done
  once and what is recorded of it is true.
* Scheduler: no two runs with overlapping scopes, never more than
  `maxConcurrentRuns`, start budgets respected, dependencies first, no slot wasted, no
  queued issue lost, labels that say who has to look at an issue.
* Daemon life cycle: one daemon, which the commands find; what `queue add` accepted is
  worked on.
* Intake: what is offered is open, free and unblocked; cycles are found; the planned
  queue can be worked off; labels of claimed, split and closed issues are left alone.
* Reconciliation and bootstrap: applying again repeats nothing and finishes what was
  left; reports are true; nothing is written without consent.
* Prepare: nothing people did meanwhile is overridden; no contract is written for
  another body than it was drafted from.

PROJECT.json lists the components with their status and, under "hazards", every
hard spot at its line with the properties that cover it, or why none does.

## 2. Modules

* **Stages** - stage names, terminal sets, the `TRANSITIONS` table.
* **Budgets** - `BudgetTracker.recordFailure`. A failure is a pair of its stage and a
  finding; equal pairs are equal fingerprints.
* **RunLifecycle** - one run, any number of processes.
* **RunLifecycleProofs** - theorems: types first, then the safety properties on top of them.
* **Scheduler** - the concurrent queue of one daemon, with the runs it launched.
* **WorkPool** - what that queue promises, as an abstract specification `Scheduler` is
  shown to implement.
* **Sift** - the filter both kinds of queue put the pending file through.
* **SchedulerProofs** - theorems: the state of each entry, scopes and budgets; then what
  becomes of each issue, and that `Scheduler` implements `WorkPool`.
  **SiftProofs** - what the filter does, for any sequence.
* **DaemonLife** - daemons from spawn to exit beside `start`, `queue add` and `stop`.
* **DaemonLifeProofs** - theorems: one daemon, and nothing accepted is lost.
* **DependencyCycles** - the search for cycles, step by step, against a definition.
* **Intake** - `analyze`, `discover` and the planning of `start`, on top of it.
* **IntakeProofs** - theorems: the search finds the cycles, reports, labels and plans are right.
* **Scopes** - the pattern test, against what patterns mean.
* **Tracker** - the issues on GitHub, as the adapter reads and writes them.
* **ReconcileApply** - `reconcile` and `reconcile-apply`, on `Tracker`.
* **ReconcileApplyProofs** - theorems: nothing twice, nothing without consent, the declines
  of the last apply are remembered, and the reports are true.
* **Prepare** - `check` and `prepare` commands about one issue.
* **PrepareProofs** - theorems: the pointer, and what is written into the body.
* **BootstrapAsk** (questions through files), **BootstrapApply** (the plan applied, on
  `Tracker`) and **Bootstrap**, which composes them.
* **BootstrapProofs** - theorems: replies go to the call that asked; applying a plan repeats
  nothing and leaves nothing out.
* **MCxxx** modules and the `.cfg` files - instances for TLC.

Each operator marked "Variant" is not part of the specification. It is what a
plausible mistake in the definition that follows would look like; putting it in the
definition's place makes TLC report the property PROJECT.json names with it.

### RunLifecycle and the code

| Variable | Code |
|---|---|
| `stage`, `resumeAt`, `snapshot` | the `runs` row |
| `corrections` | the `transitions` rows that moved to CORRECTION |
| `attempts` | number of `attempts` rows per role |
| `pub` | which fields of the `publications` row are set |
| `ws`, `tree`, `head` | the worktree, its content, the tree of its HEAD |
| `remote`, `prs`, `comments`, `issueChanged` | origin's branch; GitHub's pull requests, comments with the run's marker, and whether `updatedAt` or the body differ from the snapshot |
| `rival` | another run of the issue is active (the partial unique index) |
| `drv[p]` | what process `p` holds: program counter and the fields of `RunAttempt` |
| `resumes`, `crashes`, `busy`, `edits` | used up so far of the bounds `MaxResumes`, `MaxCrashes`, `MaxBusy`, `MaxEdits` |

There is one action per stretch of code between two awaits, named for what it does
(`LaunchImplementer`, `ImplementerReturns`, `HandleImplementerResult`...); `Advance`
is `RunAttempt.transition` followed by more work, `Finish` is a transition after which
the execution returns. `setTaskSnapshotRef` and the transition behind it are two steps
(`FreezeSnapshot`, `FinishReadiness`) although no await lies between them: the first has
its effect also when the second is refused. `BeginResumed` (`listAttempts`, then the
transition) is one. A git tree is a value of `Trees`; a session and a command may leave any tree behind,
also when they fail or are killed (`Partial`). What a role answers is a choice among
the outcomes of its schema, a failure is a choice of a finding.

`Throw(p)` is any await that throws: the catch of `runFailClosed` moves the row to
FAILED if the row is in the stage the process believes in. If it is not, the
compare-and-set of the catch throws too and the row stays as it is.
`ThrowWhileBusy(p)` is the same with the write refused because the database is locked.
A daemon that resumed the run gets the error and makes its own attempt to mark the run
FAILED (`MarkFailed`), from the stage it listed.

### Scheduler and the code

| Variable | Code |
|---|---|
| `entries`, `queued`, `started`, `failed` | `scheduler.issues`, `issues`, `scheduler.budgets` of queue.json |
| `pc`, `origin`, `raced` | the await the loop stands at, where it came from, what it gave to `Promise.race` |
| `merging` | the batch `mergePending` is normalising and the dependencies looked up so far |
| `refreshed`, `idledOnce`, `stop` | the flags `refreshedForBlockedState`, `idledOnce`, `stopRequested` |
| `runs[i]` | the promise of issue i: launched, `start` returned, releasing its label, completed, out of the active set; and beside it how far the claim of the label got |
| `labels`, `unmarked` | labels on GitHub, and issues for which a label call failed |
| `pending`, `asked` | the pending file, and everything `queue add` ever put there |
| `done` | issues that satisfy those who depend on them: closed, or with a run in PR_OPEN |
| `late`, `idleOver`, `faults` | the two clocks; how many requests failed |

The daemon is one process with an event loop, so a step is what runs between two
awaits. `launchAvailable` does not await; it is a step for each run it launches, during
which (`pc = "launching"`) nothing else of the process moves (`Yielded`). The claim of a
label and the run are two promises that advance side by side, as the code starts them;
the release waits for both. Looking up a dependency and reading an issue are requests
that may fail (`Fault`); a failed label call is logged and forgotten, a failed read in
`mergePending` ends the daemon.

What is abstracted: what an issue's body says is a constant (`DependsOn`,
`ScopesConflict`); a run is a call that returns one of its outcomes, `RunLifecycle` says
how; the drain of the pending file and the append to it are one step each; the refresh of
the dependencies is one step, because nothing is active while it runs; reasons and
timestamps are left out. A cycle is an issue that reaches itself inside its own batch,
whatever the order the recursive search visits it in; the search itself is
`DependencyCycles`. A failed write of queue.json and a kill of the daemon are not modelled.

### DaemonLife and the code

`process` is the process table, `pidFile`, `queueFile` and `pending` the three files,
`daemon[d]` what `DaemonRunner` holds in memory and `command[c]` what an invocation of
`start`, `queue add` or `stop` has read. A step is one access to a file or to the process
table with the code up to the next access. `Probe` is `PidFile.isLive`: it deletes the
file when it finds nobody, and takes any process of that number for the daemon.
`ReadPending`/`AppendPending` and `ReadToDrain`/`EmptyPending` are the two halves of
`append` and `drainAll`. `Fatal` is an error nothing catches before `main` does, at
start-up or while a merge looks at its issues, `Kill` is SIGKILL, `Reuse` another program that gets a PID. Three bookkeeping variables
record what the properties speak of: `accepted` (an add reported success), `torn` (the
pending file was written over a change the writer had not read) and `crossed` (commands
met, or met a daemon that had not written its PID yet).

The loop is `runSchedulerQueue`, for `start` writes a scheduler section into every queue.
`errand` says what a merge or a launch follows on: the entry, a run that ended, the
refresh, the idle wait. Which issues may start, and when none may (all done, deferred or
invalid, a budget spent, the deadline over), is `Scheduler`'s question: here `Launch` starts
any number that slots and queue allow, none included, so the loop may end as it does in the
code with issues it did not run. The module adds to `Scheduler` what happens between
processes: each write of queue.json, each half of an access to the pending file, kills,
signals, and the PID file at the end.

### DependencyCycles, Intake, Scopes and the code

`DependencyCycles` is `detectDependencyCycles` one call, one edge, one return at a time:
`calls` holds the issues whose `strongConnect` is in progress, `left` the dependencies such a
call has yet to look at (the rest of its `for` loop), `stack` and `lowlink` are the algorithm's.
`Component` is what the `do` loop pops: the stack from its top down to the issue's `Position`.
`Intake` extends it. `closed`, `claimed`, `split`, `ready` are what GitHub holds of each
issue, `withPr` what the run store knows, `world` the dependencies and references the
bodies hold. `pc` is the command's place: resolving the set, the rows of the analysis
(`Screen`, `Gate`, `ReadClaim`), the report, the labels, the bodies and snapshots of
`start`, the cycle search, the plan. Each request is a step; `Fault` makes one fail, with
what the code then does: a claim that cannot be read counts as none, a dependency whose
look-up fails is invalid. Before agent:ready is added the adapter fetches the issue again and refuses if
it is closed (`ConfirmOpen`); `late` holds the issues closed after that look. What the screen thinks of a text is a choice.

`Scopes` has no environment: it picks two patterns, lets the code decide and compares.
`Matches` and `Covers` define what a pattern means.

### Tracker, ReconcileApply and the code

`Tracker` is GitHub's side: an operator for each request of the adapter. A body is a
record of what the readers of bodies tell apart: the sections the program manages, the
dependencies in managed form and in text, checklists. The title of an issue in `Tracker` is
what a search compares, trimmed and in small letters.

`ReconcileApply` keeps beside it `titles`, letter by letter, and `Normalized` is the map from the one to the
other: a search for an issue uses what is normalised, the list of a split is written with the title
of the issue that was found and compared letter by letter (`SplitAlreadyApplied`), as the code
does. `Ambiguous` is a managed section whose markers are doubled or unbalanced; an enrichment of
such a body cannot be made (`Garbled`): a report turns it into a question, an apply skips it.

`ReconcileApply` is one operator who gives one command after the other; `cli` is the
command that runs (place, mode, patches to do, entries so far, what it has read of the
issue at hand). A report has its patches by their places in the session's answer, and
`cli.todo` is the set of places still to do: `FirstOf` takes the first as `sortPatches`
orders them, a stable sort by `Rank`. `applied` has the artifacts there are. A patch may
name an issue that does not exist (`Missing`): nothing in the schema keeps a session from it, and
the first request about it fails. `Prepare` reads what a patch needs to be judged and previewed, `DecideAlone`
and `Menu` are the ways to a decision, then every patch type has its own fresh look and
its own writes, in the code's order. `Read` and `Write` wrap a request: it succeeds, fails
before GitHub acted or loses its answer after it did. `SaveApply` and `WriteLatestApply`
are the artifact and the pointer. `decided` is bookkeeping: what the operator last
declined, which the steering of the next session is compared with.

### Prepare and the code

`cmd[c]` is a `check` or a `prepare`, with the version of the issue it first fetched
(`base`), the one its session analysed, the report it goes by and its answers so far.
`issue.updated` is GitHub's date, to the second (`clock`). `Results` are what a session
may return, as the verdicts the gate looks at; `IsReady` is the gate. `moved` notes that
the issue changed after the last look of the command, `blurred` that a change did not
show in the date, `blind` that the labels could not be read. `Leave` is the operator's
no, a failing request or a kill, at any place.

### Bootstrap and the code

`BootstrapAsk`: `question[n]` and `answer[n]` are the files of slot n, which exist before
they are whole; `call[c]` is a call of `ask_human` in the session's process, `pump` the
loop in the command. `replies` counts what the operator answered. Both writes may fail
before the file exists (`AskFails`, `ReplyFails`) or leave a part of it (`AskTorn`, `ReplyTorn`); a
call whose write failed is told so, an answer that was not written is not: its question counts
as answered.

`BootstrapApply` names an item of the plan by its place, so two may have one title: `disk`
is plan.json, `run.plan` the copy in memory, `Steps` the order of the steps;
`FindOrCreate`, `LinkSubIssue`, `PatchChecklist` and `AddToBoard` handle one item of their
loops (`Item`, the first in the plan's order that is `ToDo`), `Save` writes the plan after each. `Stop` is anything that ends the command between
two steps: a failing request, an answer lost after GitHub acted, a refusal, a kill.
`Bootstrap` runs the second once the first has stored a plan.

## 3. Runs

All runs use CHECK_DEADLOCK FALSE: a finished run that nobody may resume any more
rightly stops, and so do an exited daemon and a command that is over.

| Run | Shows | Bounds | Distinct states |
|---|---|---|---|
| `run_solo` | budgets, publication, committed tree, with errors at each await | 1 process, 2 attempts, 1 cycle, 2 takeovers, 1 crash, 1 lost write, 1 edit, 2 trees, 1 finding | 1.28 million |
| `run_race` | what survives two processes | 2 processes, 1 attempt, no cycle, 2 takeovers, no crash, no edit | 0.8 million |
| `run_settles` | liveness of a run | 1 process, 2 attempts, 1 cycle, 2 findings, one of each fault | 0.16 million |
| `queue_deps` | the abstract pool is implemented; no slot wasted, nothing lost or left behind | 3 issues, one waits for another and one for an issue outside the queue, 2 slots, 2 issues added, 1 failed request, an idle wait | 1.55 million |
| `queue_ends` | scopes, start budgets; every daemon ends | 3 issues, one waits, 2 in conflict, 2 slots, 1 failure allowed, 1 issue added, 1 failed request, a deadline, an idle wait, a stop | 0.29 million |
| `daemon_life` | one daemon, nothing accepted is lost | 2 daemons, 2 PIDs, 2 starts, 1 add (of an issue that is queued and a new one), 1 stop, 1 death, 1 reuse, 2 slots | 2.27 million |
| `apply` | reconciliation | 2 reports, 2 applies, 1 failed request, 1 kill, 1 edit, 4 proposals with all nine kinds of patch but KEEP, also about an issue that is not there, an epic of 2 issues of which one has ambiguous markers, a title in two spellings | 2.93 million |
| `prepare` | check and prepare | 2 commands, 3 kinds of results, 1 answer each, 1 edit, 1 other change, 2 seconds | 0.8 million |
| `bootstrap` | questions, then the plan | 2 questions, 1 failed prompt or write; 3 epics with 4 children, two epics and two children of one title, one epic with its child there already, 2 stops, 1 change by others | 0.29 million |
| `intake` | analysis, labels, planning, cycles | backlogs of 2 issues and a dependency outside, 2 changes, 1 failed request; all 512 graphs over 3 issues, and those over 4 without loops and with at most 2 dependencies each | 2.93 million |
| `scope_prefix` | a finding, see section 5 | all pairs of patterns of at most 2 names | - |
| `run_republish` | a finding, see section 5 | 1 process, 1 attempt, 1 takeover, no faults | - |

Why the bounds are enough. One process that may be taken over twice already gives
three successive executions: a first one, a resume, and a resume of the resume, so
seeded counters are seeded from seeded counters. One crash can fall at every program
point, one edit between any two. Two trees tell "verified" from "changed since". Two
processes and two takeovers are the smallest instance in which a live process, a
daemon that fails its run and a resume beside it coexist. Two findings let a failure
differ from the one before, so that the budget, and not only the repeated
fingerprint, ends a loop. Three issues and two slots are the smallest queue in which
two runs are in flight, one is deferred, and the completion of one must neither launch
the deferred one too early nor forget it. Two additions let an issue be added twice, in
one batch or in two, before, while and after it runs. One failed request can hit any
request. Two daemons and two starts are what a race to spawn needs; with two PIDs the
second daemon gets the PID of the first, or another program does. Two applies and two
reports let a report be applied again, before or after the next one is made, and the
second session be steered by the first apply. Two prepare commands, one edit and one other
change suffice for each to write between the other's look and write. Two stops interrupt
an attempt and the repetition. Four issues are the smallest graphs with two cycles beside
each other, or a cycle with a way in and a way out.

The properties of a run:

* `TypeOK` also says that a process stands where the stage it believes in says it stands.
* `NoOrphanedRun`: a working stage has a process that works on it and believes in
  that stage, unless one was killed or the catch could not write.
* `SessionsWithinBudget`: implementer sessions and correction cycles of one execution
  stay within their budgets, however the counters were seeded.
* `NoAttemptGap`: attempt numbers are handed out without gaps.
* `RecordedMeansPublished`: the publications row never claims more than happened, and
  PR_OPEN means all of it happened.
* `PublishedAtMostOnce`, `OpenPrShowsHead`: across crashes, lost answers and retries, for
  one process at a time; for two see section 5.
* `OnlyReviewedTreeCommitted`: the committed tree is the one that was hashed, reviewed
  and accepted last. `run_solo` allows one edit. With two, an operator can change the
  worktree during the review and change it back before the commit, and the hash
  cannot see it: the code compares the tree before the commit with the tree of
  verification, not with what the reviewer read.
* `FinalStagesAreFinal`: PR_OPEN, NEEDS_REFINEMENT and CANCELLED are never left.
* `StagesFollowTable`: whoever moves a run that is being worked on moves it along the
  transition table, which none of them consults.
* `RunSettles`: every run comes to rest.

of the queue:

* `ImplementsPool`: seen from outside the scheduler is `WorkPool`: each job starts once,
  when what it needs is there, within the limit, and never beside one it clashes with.
  That includes `WithinLimit`, `DependenciesFirst` and `EachIssueOnce`, which the module
  states for the reader and no run lists.
* `NoOverlap`: no two conflicting runs in flight, down to the last label call of the first.
* `WithinBudget`: exact for started runs. Runs in flight when the budget of failures is
  used up may still fail, so it can be exceeded by one less than the limit.
* `EntriesMatchRuns`: RUNNING and COMPLETED in the file are true of the runs, although
  completions, merges and launches rewrite it in turn and across awaits.
* `WorkConserving`, `NothingLeftBehind`: no slot stays empty that an entry could use, and
  a daemon that ends by itself leaves only entries that wait for something. Both judge an
  entry by the dependencies it still holds, which may be out of date (section 5).
* `NoIssueLost`: what was added is in the file, in a merge or in the queue, unless the
  daemon crashed.
* `LabelsMatchOutcome`: a finished issue wears agent:in-progress exactly if a person has to
  look at it, in spite of a claim that may be late.
* `DaemonEnds`.

of the daemon's life: `OneDaemon` (never two, and the PID file names the one there is, with
kills, reused PIDs and commands that delete the file; unless commands crossed) and
`AcceptedIsKept`: what an add reported is in the pending file or has reached the queue of a
daemon, unless two accesses to the file overlapped; unless commands crossed, queue.json is
what the daemon holds whenever it launches, idles or waits for a run, so that a kill there
costs no issue; a daemon that nobody stopped, and that met no error, does not leave its loop
with a run in flight; and an add that repeats what the queue has, done or not, does not put it
there again. A repetition inside one drain does (section 5), which is why the last part
supposes that no issue is given to two adds (`GivenOnce`).

of the intake: `CyclesAreExact` (the search finds the members of cycles and nobody else);
`OfferedIsExecutable` (what a report offers was open, free and unblocked, whatever failed or
changed while it was made); `LabelsFollowReport` and `DiscoverLeavesAlone` (agent:ready
agrees with the report, a closed issue never gains it unless it was closed after the last look,
and what is claimed, split or closed is not touched); `PlanIsSound`
(nothing starts early, and no planned issues wait for one another only).

of reconciliation: `NothingIsRepeated` (no issue, answer or comment twice, over failures,
lost answers, kills and repeated applies); `ReportsAreTrue` (what an entry says was applied
is so, and stays so); `AppliedIsSettled` (the next session has nothing to do about it), both for
sessions that do not contradict each other, as `InstanceAssumption` says of the instance. Neither
says of the code more than it keeps: entries found done on a closed issue or on ambiguous markers
are exempt from the first, splits whose child is listed in another spelling (`ListedOtherwise`) from the
second (section 5). In the instance of `apply` the ambiguous markers are in an issue of the epic,
where the report turns the patch into a question; an apply meets them in an issue outside the
epic, which only the theorem covers. Further
`SteeredByLastApply`; `WritesAreApproved`.

of prepare: `NothingIsOverridden`, `ContractIsOfThisBody`, `PointerIsReady`.

of bootstrap: `RepliesGoHome`, `CallsAreHeard` (each question gets its own answer, once, and
is not kept waiting by a prompt that fails, a call that is given up, a file that cannot be
created or an answer written in part; two other failures do strand a call, `Stranded`, see
section 5); `NothingTwice`, `AppliedIsComplete`, `PlanIsApplied` (a title that has an
issue gets no second one, nothing is skipped, and repeated attempts reach the end).

**Fairness.** `RunLifecycle!FairSpec` asks that each process keeps taking steps: every
session, command and git or GitHub call has a timeout (`platform/process-runner.ts`, the
role budgets of the configuration), so each await returns or throws. Weak fairness is on
`Work(p) \/ Throw(p)` together: nothing says that a call succeeds. Resumes, crashes,
abandons and edits have no fairness.

`Scheduler!FairSpec` asks the same of the loop and of each run, and that the clock of an
idle wait goes on (`IdleTimePasses`). Signals, additions, the closing of dependencies and
the deadline have no fairness. Additions are bounded (`MaxAdds`): a daemon that is given
issues for ever need not end.

`Bootstrap!FairSpec` asks that the session's process and the command go on: both poll on a
timer. `Reply` has strong fairness, for a prompt may fail again and again and the operator
is asked each time: one who never answers is not excluded by the code, but nothing then
can be promised. The end of the session has none. Applying the plan has weak fairness: the
operator repeats the command after a failure; failures are bounded by `MaxStops`.

## 4. Proofs

What TLC checks on small instances the theorems below state for every value of the constants.
`RunLifecycleProofs` is about `RunLifecycle!Spec`, for every set of processes, trees and findings and every value of the budgets and of the bounds. They assume
`BudgetAssumption` (at least one attempt is configured, `config/schema.ts`) and
`RunAssumption` (`None` is neither a tree nor a stage, the base tree is a tree, the
bounds are numbers); faults, takeovers and edits are all included. Three of them have a
hypothesis besides. `PublishedOnce` and `OpenPrIsHead` suppose that there is one process at a
time (`OneProcess`), killed, failing and resumed as often as the bounds say: two
can both look for the pull request before either creates it (section 5).
`ReviewedIsCommitted` supposes this, and at most one edit of the worktree by hand
(`EditedOnce`): the second could undo the first between two looks (section 3). `run_solo` is
an instance of both.

`SchedulerProofs` is about `Scheduler!Spec`, for any issues,
dependencies, conflicts, initial queue, limits, deadlines and faults, under
`SchedulerAssumption`: the limit is positive, dependencies are finite, and the start
is one the daemon can have. `DaemonLifeProofs` is about `DaemonLife!Spec`, for any number of
daemons, PIDs, `start`, `queue add` and `stop` commands, under `DaemonLifeAssumption`, which
says that the sets are disjoint and what each command was given. `PrepareProofs`
is about `Prepare!Spec`, for any number of commands, any set of session results and any number
of edits, comments and closings; of `PrepareAssumption` it uses only that `Nothing` is not a
command. `BootstrapProofs` is about `Bootstrap!Spec`, questions and application together,
for any finite set of calls, any plan, whatever issues and sub-issues there are already, and
any number of interruptions, failing writes and changes by people. It assumes that `None` is not a call
(`BootstrapAskAssumption`) and what `BootstrapApplyAssumption` says of types: each child has an
epic of the plan, the issues there are before are issues. Titles may come twice, as nothing in
the code keeps them from it: the items then share one issue, and of two epics of one title the
later one's checklist stays (`WritesLast`). `PlanIsApplied` is left to TLC, for a plan in which no
child is shared by epics of different titles; such a one stops at GitHub's rule of one parent
for ever (section 5).

`IntakeProofs` is about `Intake!Spec`, the search for cycles included: any finite set of issues,
any dependencies (also on issues outside the batch), any backlog to begin with, and any number of
failing requests and of changes by people and daemons. It assumes `IssuesAssumption` (issues are
positive numbers, a finite set) and `IntakeAssumption` (worlds refer to issues and depend on
numbers; `None` is no classification and no label action).

`ReconcileApplyProofs` is about `ReconcileApply!Spec`, for any backlog, any patches a session may
return (also contradictory ones, and about issues that do not exist), and any number of reports,
applies, failing requests, lost answers, kills and edits. It assumes `TrackerAssumption` (issue numbers
are a finite set of numbers; `Nothing` is neither a number nor a title) and
`ReconcileApplyAssumption`: the issues there are at first are issues, without a comment of the
program about a duplicate and with at most one with answers; `Normalized` gives a title for every spelling;
a proposal is what the schema lets through (`IsPatch`).
Two theorems have a hypothesis besides, since they are not true of every session's patches.
`Coherent`: no two patches about one issue ask for opposites (two contents of the managed section, two
splits, a dependency added and removed), none patches the epic or creates an issue of its title, no issue is
closed as a duplicate that was closed at first, and nothing but the epic starts with a checklist. Nothing in the
code keeps a session from it: a dependency added and then removed leaves the entry of the addition
untrue. `NothingLeftToPropose` also supposes `AboutTheEpic`: patches are about issues the epic
lists from the start, and what is to be created is neither there and closed nor closed as a duplicate.
A patch about another issue is applied but never settled, since the next session looks at the
epic's issues only (`Satisfied`). Both are conditions on `Proposals` and `Backlog` alone; TLC evaluates them on the instance of
`apply` (`InstanceAssumption` of `MCReconcileApply`), so some instance meets them.

| Theorem | Property | Inductive invariant |
|---|---|---|
| `TypeCorrect` (RunLifecycleProofs) | `TypeOK` | itself |
| `FinalForEver` | `FinalStagesAreFinal` | `TypeOK` |
| `TableIsFollowed` | `StagesFollowTable` | `TypeOK` |
| `NeverOrphaned` | `NoOrphanedRun` | itself, with `TypeOK` |
| `NumbersHaveNoGaps` | `NoAttemptGap` | itself, with `TypeOK` |
| `BudgetsKept` | `SessionsWithinBudget` | `BudgetInv`, with `TypeOK` |
| `PublicationIsTrue` | `RecordedMeansPublished` | `PublishInv`, with `TypeOK` |
| `PublishedOnce`, `OpenPrIsHead` | `PublishedAtMostOnce`, `OpenPrShowsHead` | `SoloInv`, with `TypeOK` |
| `ReviewedIsCommitted` | `OnlyReviewedTreeCommitted` | `TreeInv`, with `TypeOK` |
| `TypesHold` (SchedulerProofs) | its types, which no run lists | `Inv` |
| `EntriesFollowRuns` | `EntriesMatchRuns` | `Inv` |
| `NeverOverlap` | `NoOverlap` | `Inv` |
| `BudgetsHold` | `WithinBudget` | `Inv` |
| `LaunchesAreOrderly` | `WithinLimit`, `EachIssueOnce`, `DependenciesFirst` | `Inv` |
| `NothingLost` | `NoIssueLost` | `KeptInv`, with `Inv` |
| `NoSlotWasted` | `WorkConserving` | `RaceInv`, with `Inv` |
| `NoneForgotten` | `NothingLeftBehind` | itself, with `Inv` |
| `LabelsTellOutcome` | `LabelsMatchOutcome` | `LabelInv`, with `Inv` |
| `QueueIsPool` | `ImplementsPool` | `Inv` |
| `OnlyOneDaemon` (DaemonLifeProofs) | `OneDaemon` | `Inv` |
| `NothingAcceptedIsLost` | `AcceptedIsKept` | `Inv` |
| `PointerAlwaysReady` (PrepareProofs) | `PointerIsReady` | `Inv` |
| `ContractsFit` | `ContractIsOfThisBody` | `Inv` |
| `PeopleAreHeard` | `NothingIsOverridden` | `Inv` |
| `EachHearsItsOwn` (BootstrapProofs) | `RepliesGoHome` | `Inv` |
| `RepeatsNothing`, `AppliedAsAWhole` | `NothingTwice`, `AppliedIsComplete` | `ApplyInv` |
| `IntakeTypesOK` (IntakeProofs) | its types, which no run lists | `IntakeInv` |
| `OnlyCyclesAreBlamed` | `CyclesAreExact` | `IntakeInv`, of it `CycleInv` |
| `OffersAreExecutable`, `OthersAreLeftAlone` | `OfferedIsExecutable`, `DiscoverLeavesAlone` | `IntakeInv` |
| `LabelsAreRight`, `PlansAreSound` | `LabelsFollowReport`, `PlanIsSound` | `IntakeInv` |
| `AppliesRepeatNothing` (ReconcileApplyProofs) | `NothingIsRepeated` | `Inv` |
| `LastWordSteers` | `SteeredByLastApply` | `Inv` |
| `ApprovedBeforeWritten` | `WritesAreApproved` | `Inv` |
| `ReportsTellTruth`, `NothingLeftToPropose` | `ReportsAreTrue`, `AppliedIsSettled` | `Truth`, with `Inv` |

**RunLifecycle.** `TypeOK` is more than types. `GoodDriver` says that a process stands where
the stage it believes in says it stands, so `RunAttempt.stage` and the code position agree; that
is what makes the compare-and-set mean something, and all the other proofs rest on it.
There is one keep-lemma for each way a step can end (`AdvanceKeeps`, `ContinueKeeps`,
`FinishKeeps`, `FailClosedKeeps`) and one lemma for each group of actions.

* `FinalForEver`: the row moves only out of a stage some process believes in or a daemon
  listed, and `Believes` never relates a program point to a final stage.
* `TableIsFollowed`: the same two facts give the stage a move starts from; the table is
  looked up for each (`Table`).
* `NeverOrphaned`: by `Moves`, a step of a process either leaves it owning the run, or
  takes the run out of the working stages, or leaves another owner alone.
* `NumbersHaveNoGaps`: the unique index refuses a number that is taken, which is what
  keeps a process that lost the run from recording behind the new driver's back.
* `BudgetsKept`: the checked property is not inductive, because a process that still
  prepares the workspace also has a session before it, and because the bound on
  sessions needs that cycles never fall below those seeded; `BudgetInv` adds both.
* `PublicationIsTrue`: `PublishInv` adds what a process may rely on at each step of
  `Publisher.publish` (`Reached`); it survives other processes because nothing that was
  published or recorded is taken back (`Grows`).
* `PublishedOnce`, `OpenPrIsHead`: a process about to create has looked and found nothing,
  what was pushed stays the head until the row is in PR_OPEN, and nobody drives a run that is
  (`Solo`). A process killed after it created starts with the look again.
* `ReviewedIsCommitted`: as long as the worktree is what was hashed, it is also what the
  reviewer and the verifier worked on (`Looked`): no step of the process writes to
  it in between, and an edit makes it differ from the hash for good.

**Scheduler.** `Inv` ties the queue file to the runs. `EntryInv`: an entry is RUNNING or
COMPLETED exactly if its run is, and whatever it depends on and no longer waits for is
done. `QueueInv`: the issues of a batch that is being merged are marked as queued and are not
in the queue yet. `LookupInv`: of each dependency of the batch that was looked up it is known
that it is done, or it is noted. `CountInv`: failed runs and runs in flight
together stay within the budget and the limit, since a run starts only below the budget; that is
why `WithinBudget` has its "one less than the limit". Completion, merge, launch and
refresh each rewrite the queue file; for each a lemma says what it does to an entry.

* `NothingLost`: `KeptInv` is about membership only, so it needs nothing of the order or
  the repetitions in the pending file.
* `NoSlotWasted`: at the race the loop has just launched all it could; `RaceInv` says that
  this stays so while nobody leaves, whoever settles in the meantime.
* `NoneForgotten`: the queue is empty or blocked when the loop decides to end, and nothing
  is in flight.
* `LabelsTellOutcome`: `LabelInv` follows claim and run as two promises of which either
  may be first.
* `QueueIsPool`: the pool's variables are functions of the scheduler's (`Pool`). A launch is a
  start, the return of a run a finish, a merge an admission; each other action maps to a
  stutter. The guards of a start are `EntryInv` (its needs are there), `NoOverlap` and
  `CountInv`.

`SiftProofs`: what `Without` keeps of a sequence of any length is an induction over data, which
the provers cannot do with the library's induction rule; `Sift` writes the filter as a
function and the proof takes the least length at which it would be wrong (`WithoutSifts`).

**DaemonLife.** `TableInv`: a daemon holds its PID until it is gone. `OneByOne`: as long as
nothing crossed, commands and daemons come one at a time, and what a command read of the PID
file is still so; a `start` past its probe found no daemon, and nobody becomes one but through a
`start`. `KeptInv` looks for each accepted issue in the file and in the memories of daemons;
the buffer of a drain is in the file until it is truncated, or else the file is torn.
`SyncedInv` is about queue.json: only a `start` writes it besides the daemon, and while nothing
crossed there is none beside a daemon. `DoneInv`: nothing is in flight where the loop rests, and
without a stop it is left from there only.
`NoneTwice` follows each issue from the add to the queue: it is nowhere twice, and what is
not from an add that succeeded is nowhere.

**Prepare.** `PrepareProofs` has one invariant, `Inv`, for its three theorems. None of the
properties is inductive: each is about the last step of a command, and depends on what the
command kept from its earlier ones.

* `Stored`: a command about to publish a pointer has its report stored and ready and, once
  past `WriteSnapshot`, its snapshot; so the pointer never gets ahead of them
  (`PointerAlwaysReady`).
* `Looked`: at the write, what the second look compared still holds, unless the command is
  marked `moved` (`ContractsFit`).
* `Dated`: dates never fall, and whoever changes the issue dates it at `clock`, which is later
  than any date a command holds, or else `blurred` is set. So the same date with `blurred`
  still FALSE means the same body, and an issue still open and free, as `FetchIssue` and
  `CheckLabels` found it (`PeopleAreHeard`). The second look asks neither again, and this is why
  it need not.
* The steps of a command change its own record only; `OwnStep` says once what the new record
  has to satisfy. `ChangeKeeps` does the same for whoever changes the issue.

**Bootstrap.** A call that has asked has exactly one question file, and the file is its own
(`Asked`); an answer names the question of its slot, and while there is none the operator
has not replied (`Answered`); the pump stands before a question without an answer (`Pumps`),
so a prompt that failed and is repeated never replies twice.

`ApplyInv` says of both copies of the plan, the one in memory and the one on disk, that they
never say more than GitHub has (`Fits`): a number is that of an issue of its title, a child that
counts as linked is below its epic, and each step that counts as done has left what it is there
for (`Gives`). So wherever the command is stopped, the copy on disk is one it can go on from.
`StillFits` is the lemma everything rests on: what GitHub gains, by the command or by people,
breaks no plan that fits. Only the patch of a checklist takes something away, and it is made
while the step does not count as done, on disk no more than in memory. `Passed` says of the two
loops that write nothing until they are through that what is behind them is done.
`RepeatsNothing` needs `Single`: the search finds an issue of a title if there is one, and the
next number is one no issue has; both are about the greatest or least number of a finite set
(`GreatestNumber` and `LeastNumber` of `SiftProofs`).

**Intake.** `CycleInv` is why the search is right, for a graph of any shape. An issue is visited
when it has an index, open while its call is in progress, and settled when it is visited and off the
stack. `Leads` is the definition of a path by closed sets that `OnACycle` uses too, so nothing is
said about paths of some length and no induction over data is needed.

* `Looked`: what a call is past has been visited. `Apart`: what is settled depends on settled
  issues only, and is in `cyclic` exactly if it leads back to itself.
* `Above` and `Below`: an open issue leads to all that is above it on the stack, and all on
  the stack lead to an open issue below them. So when a call returns as a root, what it pops
  is connected in both directions.
* `Linked` and `Low`: a lowlink is the index of an issue that is reached, and is as low as any that
  was looked at on the stack. So a root leads to nothing below it, and what it pops leads to nothing
  but itself and what is settled: it is a whole component, and `Apart` goes on to hold.

`Before` says what was closed or claimed before the command and still is, so an issue that is offered
was looked at while it was free, or its labels could not be read. `Screened`: what gets past the
screen depends on closed issues only, and no issue is opened again in the model. `Labelled`
speaks of the issues behind the loop of `discover`; others touch an issue only by marking it,
and one that is about to be labelled was open at the second look or is in `late` (`Tells`). `Linkage`
says of each dependency of a planned issue that it is met, noted as unmet or still to be looked
up. For `PlansAreSound` suppose that planned issues wait for one another only. `SomeCycle` takes the
issue among them that leads to the fewest others: all it leads to leads back to it, so it is on a
cycle, and by `CycleInv` it was found, which makes it invalid and not deferred.

**ReconcileApply.** None of the properties is inductive: each needs what the command found
out before the step that could break it.

* `AboutToCreate`: at the request that creates an issue, no issue has the title. The command has
  looked just before, there is one operator, and people who edit do not create issues (`Edit`); with
  two operators this is where `NothingIsRepeated` would end. `SearchFinds` says that the search does
  not miss an issue, `NextIsFree` that a new issue gets a number no issue has.
* `Owed`: an open issue has at most as many comments about a duplicate as requests failed and
  commands were killed, unless the command is about to close it (`Closing`). A comment is followed
  by the close, so if the issue stays open, a fault or a kill came in between and pays for the next.
  `AboutToComment` says the same of the answers, which are looked for and then posted, once.
* `Known`: past the first look the issue of a patch is there. No issue ever goes away.
* `Allowed`: a command stands at a place that writes only if the patch at hand is safe, is a
  question or has been consented to, and not in a preview. It is about the patch at hand, so it
  rests on the places to do being left alone until the entry is recorded (`SamePatch`).
* `Remembered`: the declines the operator knows are those of the artifact the pointer names,
  unless that artifact was overwritten since (`decided.lost`); `Pointing`: a command about to
  move the pointer has stored its artifact.

For the two properties of reports the invariant is `Truth`, which holds as long as nobody edits:

* `TellTruth`: what the entries of the stored reports, and of the apply that runs, say was achieved
  is so (`Holds`). `Moves` says how a request may change the issues: they get more, titles stay, what
  is closed stays closed, and the body of an issue changes only as one patch asks (`BodyGoesOn`).
  `HoldsOn` is the heart of the proof: no such change undoes what holds, since two patches about
  one issue do not ask for opposites. `TruthStays` carries it over to the entries.
* `Sound`: a child listed under an issue is there and in the epic, and an issue is closed for a
  reason, with its comment. `DoneHolds` needs it: a command that finds the titles of the children in the
  body, or a duplicate closed, reports the patch as done without having seen the rest. The list may
  have a child under its issue's own title only; where no child is listed in another spelling, the
  check letter by letter finds what the search has found.
* `AboutToWrite`: what the command has read is still so when it writes, the body of the issue and that
  of the epic, since it is alone; and of the children of a split, those done so far are there and in
  the epic. Bodies are written as a whole, so with people who edit this is where it would end.

Out of the prover's reach, and left to TLC: `RunSettles`, `DaemonEnds`, `CallsAreHeard` and
`PlanIsApplied` (liveness under fairness), and what `Scopes` says of patterns of any length
(its reference definition is recursive).

## 5. Where the code and its documents disagree

Two runs check a sentence of a document and TLC finds it violated:

* `scope_prefix`: `globPrefix` keeps what stands before a wildcard inside a name as if it
  were a whole name, so `src/foo*` and `src/foobar` count as disjoint.
  `docs/superpowers/specs/2026-08-24-m4-dependency-aware-scheduler-design.md:267-268`:
  "False positives are acceptable; false negatives are not."
* `run_republish`: `publish` commits again on every attempt, so after an interruption past the
  commit no retry can publish: there is nothing to commit. `publication/publisher.ts:136-141`:
  "Idempotently publishes a run's verified work ... so an interrupted-and-retried publication
  never creates a duplicate PR or comment."

More was seen while the code was modelled. Those with the name of a definition can be
reproduced by listing it in the `.cfg` of its module; the others can be read off the
definitions named.

Runs:

* `ResumeFindsImplementation` (RunLifecycle): an error during setup makes resume verify a
  tree no implementer touched. `workflow/run-service.ts:503-504`: "resumeTo is VERIFICATION
  or INDEPENDENT_REVIEW: the implementation is already present in the preserved worktree."
* `CarriedCyclesWereConsumed` (RunLifecycle): approving review and acceptance sessions count
  as correction cycles after a resume. `workflow/run-service.ts:395-396` calls the seeded
  counters "attempts/cycles already consumed before the interruption".
* `OneCommentPerRun` (RunLifecycle, two processes): a daemon started beside a live run, then
  a resume: two comments. `publication/publisher.ts:138-139`: "posts exactly one concise
  issue comment".
* WORKSPACE_CREATION to BLOCKED (`FinishSetup`), BLOCKED to CANCELLED (`Abandon`) and
  BLOCKED to FAILED (`Throw` in a resume) are not in the transition table.
* A FAILED outcome of the reviewer or verifier records no `resumeAt` (`RejectOutright`), so
  resume launches an implementer, not the verification README.md:193 announces.
* The catch's own write may meet a locked database (`ThrowWhileBusy`): the run then stays in
  its working stage.
* A starting daemon resumes BLOCKED runs and marks those a crash interrupted FAILED
  (`ListNonterminal`, `ResumeListed`).

The daemon:

* `ExitsAfterRuns` (Scheduler): a daemon told to stop exits when one run ends, with another
  in flight. `docs/superpowers/specs/2026-08-21-pi-autopilot-m3-design.md:38`: "The daemon
  never kills a Pi session mid-flight". It may even launch another before it looks at the
  flag (`Launch` does not read `stop`).
* `BadIssueFailsAlone` (Scheduler): one added issue that cannot be read ends the daemon, and
  the batch it came with is gone; the continuous backlog intake design, section 11, says
  "the daemon will surface the failure naturally when it eventually calls
  `runService.start` on that issue".
* `refreshedForBlockedState` is never reset (`RefreshOnce`): a queue that is blocked a second
  time is not refreshed again, and an entry whose snapshot went stale is left behind.
* Cycles are looked for in one batch (`NewEntries`), so an added issue that closes a cycle
  with one in the queue makes both wait until the idle wait is over.
* A run may be over before its claim is written (`Claim`, `RunReturns`).
* `OneDaemon` without its first disjunct fails: two `start` commands, or one and a daemon that
  has not written its PID, lead to two daemons (m3 design, line 39: "One daemon per
  repository. Enforced via the PID file.").
* `AcceptedIsKept` without its first disjunct fails: an append between the read and the
  truncation of a drain is lost, though the intake design says of it "at worst delaying it
  one extra iteration rather than losing or duplicating it".
* `AcceptedIsKept` without `GivenOnce` fails: a merge compares a drained issue with the queue
  only (`EmptyPending`), and the append compares it with nothing, so an issue added twice before a
  drain is in the queue twice. It is launched once all the same (`EachIssueOnce` of `Scheduler`).
* A daemon killed between the truncation of the pending file and the write of its queue takes
  the drained issues with it (`EmptyPending`, `Kill`): they are in its memory only.

Intake and reconciliation:

* `start --from-analyze` checks nothing again (`StartFromReport`): what was closed or claimed
  since the report is queued.
* `discover` reads labels and then writes them (`ReadLabels`, `WriteLabel`): a claim in between
  leaves agent:ready beside agent:in-progress. It never passes `isClosed`; the adapter looks once
  more before it adds agent:ready (`ConfirmOpen`), and an issue closed between that look and the
  write still gets it (`late`). `github/github-adapter.ts:506-508`: "it must never land on closed
  work no matter which caller asks".
* An enrichment of a body with ambiguous markers is skipped as `idempotent` although nothing was
  written (`reconciliation/apply-service.ts:621-637`; `Garbled`). Splits are no better: unbalanced markers
  of their section end as a failed write.
* A split's list names a child that was found by its issue's own title, and the check whether a
  split is applied compares titles letter by letter (`reconciliation/managed-split-section.ts:45-55`).
  A split over a child that exists in another spelling is therefore proposed and applied again by every
  session; `AppliedIsSettled` without `ListedOtherwise` fails.
  `docs/superpowers/specs/2026-08-24-split-issue-design.md:155-157` has it that the titles match
  "exactly (case-insensitive, ...)".
* `SaveApply` overwrites the artifact of the same analysis also for a preview or an aborted
  apply, which loses the declines the comment at `reconciliation/apply-service.ts:237-239`
  wants to keep; `SteeredByLastApply` excludes that case (`decided.lost`).
* An issue that is closed between preparation and fresh look is still rewritten: only the
  first look asks (`reconciliation/apply-service.ts:612-613` promises "never rewrite its
  body").
* A second, different set of questions to one issue is skipped, since the first one's answers
  are found (`ReadAnswers`); a declined MERGE_DUPLICATE steers nothing (`Declines`); a
  REMOVE_DEPENDENCY of a dependency that stands in a line of text is reported applied with an
  unchanged body.
* `prepare` compares dates that GitHub gives to the second, and does not hold the issue between
  its last look and its write: `NothingIsOverridden` excludes both (`blurred`, `moved`).

Bootstrap:

* An answer file that is read half written is taken for an empty answer (`Hear`).
* A reply whose file cannot be written is lost, and its question is never put again, for it
  counts as answered before the write (`ReplyFails`). `bootstrap/answer-pump.ts:95-97`: "Do not mark
  answered so the next tick retries". `CallsAreHeard` without `Stranded` fails.
* A question that was left half written is tried again for ever and blocks all later ones
  (`AskTorn`, `Poll`): the model was told of the failure and goes on, and its next question waits.
* An epic found by its title under another plan has its body overwritten by the checklist
  (`PatchChecklist`); a child that is another epic's sub-issue cannot be linked
  (`LinkSubIssue`), and the plan never completes. Two children of one title below epics of
  different titles make such a plan by themselves.
* Two epics of one title share an issue, and the later one's checklist replaces the earlier one's
  (`PatchChecklist`, `WritesLast`).
* A retried board step sets cards that people moved back to Todo (`AddToBoard`).

## 6. Not modelled

* `run --fresh` and `dropRun`: they need several runs of one issue with their branches and
  worktrees in one model.
* `runSequentialQueue`, the loop of a queue without a scheduler section, which no command of
  the program writes; a failed write of queue.json and a kill of the daemon in
  `Scheduler` (`DaemonLife` has the kill).
* Bootstrap's size check, its rounds of feedback on a plan and `ensureLabel`.
* The command guard's grammar, the parsing of references, dependencies and scopes in bodies:
  pure text. What they find is a constant or a choice.
* Prompts, progress output, artifact files (except those named above), model choice, terminal
  UI, configuration parsing.
* `RecoveryService.reconcile` reads and reports, and nothing acts on the report;
  `BudgetTracker.checkDeadline` has no caller.

## 7. Plan

What is left, in order:

1. `RunStore`: several runs of one issue, `createRun`, `dropRun`, `run --fresh`.
