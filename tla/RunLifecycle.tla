------------------------------ MODULE RunLifecycle ------------------------------
(***************************************************************************)
(* One run of one GitHub issue: the row the run store keeps for it, the    *)
(* git worktree it works in, the pull request and comment it publishes,    *)
(* and the processes that act on it.                                       *)
(*                                                                         *)
(* Several operating system processes can act on the same row: the one     *)
(* that started the run, a `resume`, a daemon reconciling at its start, an *)
(* `abandon`. The only thing that orders them is the compare-and-set of    *)
(* RunStore.transition. Each process that drives the run executes the body *)
(* of RunAttempt (src/workflow/run-service.ts) one await at a time: drv[p] *)
(* holds its program counter and its private fields.                       *)
(***************************************************************************)
EXTENDS Stages, Budgets

CONSTANTS
    Procs,          \* processes that may act on the run
    Trees,          \* git tree contents the worktree can have
    BaseTree,       \* the tree of the base branch
    None,           \* null: no process, no stage, no tree
    MaxResumes,     \* bound: takeovers of the run by `resume` or a daemon
    MaxCrashes,     \* bound: processes killed while they drive the run
    MaxBusy,        \* bound: FAILED writes lost to SQLITE_BUSY
    MaxEdits        \* bound: edits of the worktree or the issue, rival runs started

ASSUME RunAssumption ==
    /\ BaseTree \in Trees
    /\ None \notin Trees \cup RunStages
    /\ {MaxResumes, MaxCrashes, MaxBusy, MaxEdits} \subseteq Nat

VARIABLES
    stage,          \* runs.stage
    resumeAt,       \* runs.resume_at
    snapshot,       \* runs.task_snapshot_ref is set
    attempts,       \* rows of `attempts`, per role
    corrections,    \* rows of `transitions` with to_stage CORRECTION
    pub,            \* publications row: which fields are recorded
    ws,             \* the worktree exists
    tree,           \* its content
    head,           \* the tree of its HEAD commit
    remote,         \* the tree of the branch on origin
    prs,            \* pull requests open for the branch
    comments,       \* issue comments carrying this run's marker
    issueChanged,   \* the issue differs from the frozen snapshot
    rival,          \* another run of the same issue is active
    drv,            \* the processes driving the run
    resumes, crashes, busy, edits   \* used up so far, for the bounds

rowVars   == <<stage, resumeAt>>
logVars   == <<snapshot, attempts, corrections, pub>>
gitVars   == <<ws, tree, head, remote>>
hubVars   == <<prs, comments, issueChanged, rival>>
faultVars == <<resumes, crashes, busy, edits>>
vars == <<rowVars, logVars, gitVars, hubVars, drv, faultVars>>

Roles == {"implementer", "reviewer", "verifier"}

\* Where a process can stand: "idle" does not drive the run; the others
\* name what it does next.
PCs ==
    {"idle", "start", "readiness", "frozen", "workspace", "setup",
     "implement", "implementing", "implemented", "verify", "hash",
     "review", "reviewing", "reviewed", "accept", "accepting", "accepted",
     "correct", "publish", "checkTree", "commit", "recordCommit", "push", "findPr", "createPr",
     "recordPr", "findComment", "createComment", "recordComment", "prOpen",
     "listed", "resumeImplement", "resumeVerify", "markFailed"}

\* Standing here a process has not taken the run, or no longer has it.
Outside == {"idle", "listed", "resumeImplement", "resumeVerify", "markFailed"}

\* A process that does not drive the run. `stage` is RunAttempt.stage, impl
\* and cycles its budget counters with impl0 and cycles0 what they were
\* seeded with, seq its attempt sequence, seen its budget fingerprints,
\* verified the tree hash of its latest verification evidence, reviewed and
\* accepted the trees its reviewer and its verifier worked on, listed the
\* stage a daemon read when it listed the nonterminal runs.
Idle ==
    [pc |-> "idle", stage |-> None, impl |-> 0, cycles |-> 0, impl0 |-> 0,
     cycles0 |-> 0, seq |-> 0, seen |-> {}, verified |-> None,
     reviewed |-> None, accepted |-> None, listed |-> None]

NothingRecorded == [commit |-> FALSE, pr |-> FALSE, comment |-> FALSE]

AllRecorded == [commit |-> TRUE, pr |-> TRUE, comment |-> TRUE]

\* RunService.start has inserted the row: no other run of the issue was
\* active, and the process enters RunAttempt.execute.
Init ==
    /\ stage = "PREFLIGHT" /\ resumeAt = None
    /\ snapshot = FALSE /\ pub = NothingRecorded
    /\ attempts = [r \in Roles |-> 0] /\ corrections = 0
    /\ ws = FALSE /\ tree = BaseTree /\ head = BaseTree /\ remote = None
    /\ prs = 0 /\ comments = 0 /\ issueChanged = FALSE /\ rival = FALSE
    /\ \E p \in Procs :
         drv = [q \in Procs |->
                  IF q = p THEN [Idle EXCEPT !.pc = "start", !.stage = "PREFLIGHT"]
                           ELSE Idle]
    /\ resumes = 0 /\ crashes = 0 /\ busy = 0 /\ edits = 0

----------------------------------------------------------------------------
\* Variant, wrong: a plain UPDATE that does not look at the current stage.
SetUnconditionally(from, to) ==
    /\ stage' = to

(***************************************************************************)
(* RunStore.transition as RunAttempt.transition calls it: the row moves    *)
(* only if it is still in the stage the caller believes it is in, and      *)
(* leaves a terminal stage only if no other run of the issue is active     *)
(* (the partial unique index). d is the process's state after the code     *)
(* that precedes the call.                                                 *)
(***************************************************************************)
CompareAndSet(from, to) ==
    /\ stage = from
    /\ stage \in TerminalStages /\ to \notin TerminalStages => ~rival
    /\ stage' = to

\* Variant, wrong: RunAttempt.stage is not updated.
AdvanceRowOnly(p, d, to, next) ==
    /\ CompareAndSet(d.stage, to)
    /\ drv' = [drv EXCEPT ![p] = [d EXCEPT !.pc = next]]
    /\ UNCHANGED resumeAt

Advance(p, d, to, next) ==
    /\ CompareAndSet(d.stage, to)
    /\ drv' = [drv EXCEPT ![p] = [d EXCEPT !.stage = to, !.pc = next]]
    /\ UNCHANGED resumeAt

\* A transition after which RunAttempt returns its summary.
Finish(p, to) ==
    /\ CompareAndSet(drv[p].stage, to)
    /\ drv' = [drv EXCEPT ![p] = Idle]
    /\ UNCHANGED resumeAt

At(p, pc) == drv[p].pc = pc

\* A step that writes no row of the run.
Continue(p, d, next) ==
    /\ drv' = [drv EXCEPT ![p] = [d EXCEPT !.pc = next]]
    /\ UNCHANGED rowVars

Go(p, next) == Continue(p, drv[p], next)

(***************************************************************************)
(* RunStore.recordAttempt: (run_id, attempt_number) is unique. Numbers are *)
(* handed out without gaps, so counting rows is enough to tell whether a   *)
(* number is taken.                                                        *)
(***************************************************************************)
AttemptRows == attempts["implementer"] + attempts["reviewer"] + attempts["verifier"]

RecordAttempt(d, role) ==
    /\ d.seq + 1 > AttemptRows
    /\ attempts' = [attempts EXCEPT ![role] = @ + 1]

----------------------------------------------------------------------------
(***************************************************************************)
(* Readiness and workspace creation (RunAttempt.run).                      *)
(***************************************************************************)
BeginReadiness(p) ==
    /\ At(p, "start")
    /\ Advance(p, drv[p], "READINESS_CHECK", "readiness")
    /\ UNCHANGED <<logVars, gitVars, hubVars, faultVars>>

\* A READY report's snapshot is frozen; setTaskSnapshotRef does not look at
\* the stage.
FreezeSnapshot(p) ==
    /\ At(p, "readiness") /\ snapshot' = TRUE
    /\ Go(p, "frozen")
    /\ UNCHANGED <<attempts, corrections, pub, gitVars, hubVars, faultVars>>

\* The readiness report is in, and a READY one's snapshot frozen.
FinishReadiness(p) ==
    /\ \/ At(p, "readiness") /\ Finish(p, "NEEDS_REFINEMENT")
       \/ At(p, "frozen") /\ Advance(p, drv[p], "WORKSPACE_CREATION", "workspace")
    /\ UNCHANGED <<logVars, gitVars, hubVars, faultVars>>

\* WorkspaceManager.create: a worktree on a fresh branch of the base.
CreateWorkspace(p) ==
    /\ At(p, "workspace")
    /\ ~ws /\ ws' = TRUE /\ tree' = BaseTree /\ head' = BaseTree
    /\ Go(p, "setup")
    /\ UNCHANGED <<remote, logVars, hubVars, faultVars>>

\* The setup commands have run, and may have written to the worktree.
FinishSetup(p) ==
    /\ At(p, "setup")
    /\ \/ Finish(p, "BLOCKED")
       \/ Advance(p, drv[p], "IMPLEMENTATION", "implement")
    /\ tree' \in Trees
    /\ UNCHANGED <<ws, head, remote, logVars, hubVars, faultVars>>

----------------------------------------------------------------------------
(***************************************************************************)
(* Implementation. The counter is charged before the session starts, the   *)
(* attempts row is written only when it returned a result.                 *)
(***************************************************************************)
LaunchImplementer(p) ==
    /\ At(p, "implement")
    /\ Continue(p, [drv[p] EXCEPT !.impl = @ + 1, !.verified = None, !.reviewed = None,
                               !.accepted = None], "implementing")
    /\ UNCHANGED <<logVars, gitVars, hubVars, faultVars>>

ImplementerReturns(p) ==
    /\ At(p, "implementing")
    /\ tree' \in Trees
    /\ RecordAttempt(drv[p], "implementer")
    /\ Continue(p, [drv[p] EXCEPT !.seq = @ + 1], "implemented")
    /\ UNCHANGED <<ws, head, remote, snapshot, corrections, pub, hubVars, faultVars>>

\* BLOCKED and NEEDS_REPLAN both block; a FAILED outcome is an ordinary
\* transition, not an exception, and records no resume stage.
HandleImplementerResult(p) ==
    /\ At(p, "implemented")
    /\ \/ Advance(p, drv[p], "VERIFICATION", "verify")
       \/ \E to \in {"BLOCKED", "NEEDS_REFINEMENT", "FAILED"} : Finish(p, to)
    /\ UNCHANGED <<logVars, gitVars, hubVars, faultVars>>

----------------------------------------------------------------------------
(***************************************************************************)
(* Verification: the commands run (and may write to the worktree), then    *)
(* the tree is hashed.                                                     *)
(***************************************************************************)
RunVerificationCommands(p) ==
    /\ At(p, "verify")
    /\ tree' \in Trees
    /\ Go(p, "hash")
    /\ UNCHANGED <<ws, head, remote, logVars, hubVars, faultVars>>

\* Variant, wrong: failing verification is repeated at nobody's expense.
VerifyAgain(p) ==
    /\ At(p, "hash")
    /\ \/ Go(p, "review")
       \/ Go(p, "verify")
    /\ UNCHANGED <<logVars, gitVars, hubVars, faultVars>>

\* Passing evidence goes to the reviewer; failing evidence to the budgets.
FinishVerification(p) ==
    /\ At(p, "hash")
    /\ LET d == [drv[p] EXCEPT !.verified = tree]
       IN  \/ Continue(p, d, "review")
           \/ \E f \in Findings :
                LET fp == <<"VERIFICATION", f>>
                IN  IF RecordFailure(d.seen, d.impl, d.cycles, fp) = "CONTINUE"
                      THEN Advance(p, [d EXCEPT !.seen = @ \cup {fp}],
                                   "IMPLEMENTATION", "implement")
                      ELSE Finish(p, "BLOCKED")
    /\ UNCHANGED <<logVars, gitVars, hubVars, faultVars>>

----------------------------------------------------------------------------
(***************************************************************************)
(* Review, then acceptance verification: runReview and                     *)
(* runAcceptanceVerification have the same shape.                          *)
(***************************************************************************)
BeginReview(p) ==
    /\ At(p, "review")
    /\ Advance(p, drv[p], "INDEPENDENT_REVIEW", "reviewing")
    /\ UNCHANGED <<logVars, gitVars, hubVars, faultVars>>

ReviewerReturns(p) ==
    /\ At(p, "reviewing")
    /\ RecordAttempt(drv[p], "reviewer")
    /\ Continue(p, [drv[p] EXCEPT !.seq = @ + 1, !.reviewed = tree], "reviewed")
    /\ UNCHANGED <<snapshot, corrections, pub, gitVars, hubVars, faultVars>>

\* CHANGES_REQUESTED or NOT_VERIFIED: a correction cycle if the budget has
\* one left, BLOCKED otherwise.
RequestCorrection(p, at) ==
    \E f \in Findings :
      LET d  == drv[p]
          fp == <<at, f>>
      IN  IF RecordFailure(d.seen, d.impl, d.cycles, fp) = "CONTINUE"
            THEN /\ Advance(p, [d EXCEPT !.seen = @ \cup {fp}, !.cycles = @ + 1],
                            "CORRECTION", "correct")
                 /\ corrections' = corrections + 1
            ELSE /\ Finish(p, "BLOCKED")
                 /\ UNCHANGED corrections

\* PRODUCT_AMBIGUITY and a FAILED outcome end the run.
RejectOutright(p) ==
    /\ \E to \in {"NEEDS_REFINEMENT", "FAILED"} : Finish(p, to)
    /\ UNCHANGED corrections

HandleReview(p) ==
    /\ At(p, "reviewed")
    /\ \/ Go(p, "accept") /\ UNCHANGED corrections
       \/ RequestCorrection(p, "INDEPENDENT_REVIEW")
       \/ RejectOutright(p)
    /\ UNCHANGED <<snapshot, attempts, pub, gitVars, hubVars, faultVars>>

BeginAcceptance(p) ==
    /\ At(p, "accept")
    /\ Advance(p, drv[p], "ACCEPTANCE_VERIFICATION", "accepting")
    /\ UNCHANGED <<logVars, gitVars, hubVars, faultVars>>

VerifierReturns(p) ==
    /\ At(p, "accepting")
    /\ RecordAttempt(drv[p], "verifier")
    /\ Continue(p, [drv[p] EXCEPT !.seq = @ + 1, !.accepted = tree], "accepted")
    /\ UNCHANGED <<snapshot, corrections, pub, gitVars, hubVars, faultVars>>

HandleAcceptance(p) ==
    /\ At(p, "accepted")
    /\ \/ Go(p, "publish") /\ UNCHANGED corrections
       \/ RequestCorrection(p, "ACCEPTANCE_VERIFICATION")
       \/ RejectOutright(p)
    /\ UNCHANGED <<snapshot, attempts, pub, gitVars, hubVars, faultVars>>

ReenterImplementation(p) ==
    /\ At(p, "correct")
    /\ Advance(p, drv[p], "IMPLEMENTATION", "implement")
    /\ UNCHANGED <<logVars, gitVars, hubVars, faultVars>>

----------------------------------------------------------------------------
(***************************************************************************)
(* Publication. The issue is read again, and only once; then each git and  *)
(* GitHub call of Publisher.publish is a step of its own, because a crash  *)
(* or a lost answer can fall between any two.                              *)
(***************************************************************************)
CheckIssue(p) ==
    /\ At(p, "publish")
    /\ IF issueChanged
         THEN Finish(p, "BLOCKED")
         ELSE Advance(p, drv[p], "PUBLICATION", "checkTree")
    /\ UNCHANGED <<logVars, gitVars, hubVars, faultVars>>

CheckTree(p) ==
    /\ At(p, "checkTree")
    /\ tree = drv[p].verified
    /\ Go(p, "commit")
    /\ UNCHANGED <<logVars, gitVars, hubVars, faultVars>>

\* Variant, wrong: the tree is compared once, by the publisher only.
CommitUnchecked(p) ==
    /\ At(p, "commit")
    /\ tree # head
    /\ head' = tree
    /\ Go(p, "recordCommit")
    /\ UNCHANGED <<ws, tree, remote, logVars, hubVars, faultVars>>

\* WorkspaceManager.commit compares again, and `git commit` refuses when
\* there is nothing to commit.
Commit(p) ==
    /\ At(p, "commit")
    /\ tree = drv[p].verified
    /\ tree # head
    /\ head' = tree
    /\ Go(p, "recordCommit")
    /\ UNCHANGED <<ws, tree, remote, logVars, hubVars, faultVars>>

RecordCommit(p) ==
    /\ At(p, "recordCommit")
    /\ pub' = [pub EXCEPT !.commit = TRUE]
    /\ Go(p, "push")
    /\ UNCHANGED <<snapshot, attempts, corrections, gitVars, hubVars, faultVars>>

\* Variant, wrong: a branch that is already on origin is not pushed again.
PushNewBranch(p) ==
    /\ At(p, "push")
    /\ remote' = IF remote = None THEN head ELSE remote
    /\ Go(p, "findPr")
    /\ UNCHANGED <<ws, tree, head, logVars, hubVars, faultVars>>

Push(p) ==
    /\ At(p, "push")
    /\ remote' = head
    /\ Go(p, "findPr")
    /\ UNCHANGED <<ws, tree, head, logVars, hubVars, faultVars>>

\* Variant, wrong: an empty answer to the search is taken for a pull request.
FindPullRequestAlways(p) ==
    /\ At(p, "findPr")
    /\ Go(p, "recordPr")
    /\ UNCHANGED <<logVars, gitVars, hubVars, faultVars>>

FindPullRequest(p) ==
    /\ At(p, "findPr")
    /\ Go(p, IF prs > 0 THEN "recordPr" ELSE "createPr")
    /\ UNCHANGED <<logVars, gitVars, hubVars, faultVars>>

CreatePullRequest(p) ==
    /\ At(p, "createPr")
    /\ prs' = prs + 1
    /\ Go(p, "recordPr")
    /\ UNCHANGED <<comments, issueChanged, rival, logVars, gitVars, faultVars>>

RecordPullRequest(p) ==
    /\ At(p, "recordPr")
    /\ pub' = [pub EXCEPT !.pr = TRUE]
    /\ Go(p, "findComment")
    /\ UNCHANGED <<snapshot, attempts, corrections, gitVars, hubVars, faultVars>>

\* Variant, wrong: the comment is posted without looking for its marker.
PostBlindly(p) ==
    /\ At(p, "findComment")
    /\ Go(p, "createComment")
    /\ UNCHANGED <<logVars, gitVars, hubVars, faultVars>>

FindComment(p) ==
    /\ At(p, "findComment")
    /\ Go(p, IF comments > 0 THEN "recordComment" ELSE "createComment")
    /\ UNCHANGED <<logVars, gitVars, hubVars, faultVars>>

\* A comment may move the issue's updatedAt, which CheckIssue compares.
CreateComment(p) ==
    /\ At(p, "createComment")
    /\ comments' = comments + 1
    /\ issueChanged' \in {issueChanged, TRUE}
    /\ Go(p, "recordComment")
    /\ UNCHANGED <<prs, rival, logVars, gitVars, faultVars>>

RecordComment(p) ==
    /\ At(p, "recordComment")
    /\ pub' = [pub EXCEPT !.comment = TRUE]
    /\ Go(p, "prOpen")
    /\ UNCHANGED <<snapshot, attempts, corrections, gitVars, hubVars, faultVars>>

\* Variant, wrong: the issue is compared after the publication.
OpenPrIfUnchanged(p) ==
    /\ At(p, "prOpen")
    /\ Finish(p, IF issueChanged THEN "BLOCKED" ELSE "PR_OPEN")
    /\ UNCHANGED <<logVars, gitVars, hubVars, faultVars>>

OpenPr(p) ==
    /\ At(p, "prOpen")
    /\ Finish(p, "PR_OPEN")
    /\ UNCHANGED <<logVars, gitVars, hubVars, faultVars>>

----------------------------------------------------------------------------
(***************************************************************************)
(* Errors. Every await can throw: a session that ends abnormally or times  *)
(* out, a failed command, an answer lost after GitHub acted, a             *)
(* compare-and-set that finds another stage. The catch of runFailClosed    *)
(* moves the run to FAILED if it is still in the stage this process left   *)
(* it in. A daemon that resumed the run gets the error and marks the run   *)
(* FAILED itself, unless it was a PiRunError, which is not rethrown.       *)
(***************************************************************************)
AfterThrow(p) ==
    LET d == drv[p]
    IN  {Idle} \cup (IF d.listed = None THEN {}
                     ELSE {[Idle EXCEPT !.pc = "markFailed", !.listed = d.listed]})

Partial(p) ==
    IF drv[p].pc \in {"setup", "implementing", "verify"}
      THEN tree' \in Trees
      ELSE UNCHANGED tree

\* Variant, wrong: the error is reported and the row left as it is.
ReportOnly(p) ==
    /\ drv[p].stage # None
    /\ UNCHANGED rowVars
    /\ \E d \in AfterThrow(p) : drv' = [drv EXCEPT ![p] = d]

FailClosed(p) ==
    /\ drv[p].stage # None
    /\ IF stage = drv[p].stage
         THEN stage' = "FAILED" /\ resumeAt' = stage
         ELSE UNCHANGED rowVars
    /\ \E d \in AfterThrow(p) : drv' = [drv EXCEPT ![p] = d]

Throw(p) ==
    /\ FailClosed(p)
    /\ Partial(p)
    /\ UNCHANGED <<ws, head, remote, logVars, hubVars, faultVars>>

\* The write of the catch itself is lost: no busy timeout is set, so BEGIN
\* IMMEDIATE throws at once while another process holds the write lock.
ThrowWhileBusy(p) ==
    /\ drv[p].stage # None
    /\ busy < MaxBusy
    /\ busy' = busy + 1
    /\ \E d \in AfterThrow(p) : drv' = [drv EXCEPT ![p] = d]
    /\ Partial(p)
    /\ UNCHANGED <<rowVars, ws, head, remote, logVars, hubVars, resumes, crashes, edits>>

\* The process is killed.
Crash(p) ==
    /\ ~At(p, "idle")
    /\ crashes < MaxCrashes
    /\ crashes' = crashes + 1
    /\ drv' = [drv EXCEPT ![p] = Idle]
    /\ Partial(p)
    /\ UNCHANGED <<rowVars, ws, head, remote, logVars, hubVars, resumes, busy, edits>>

----------------------------------------------------------------------------
(***************************************************************************)
(* Taking over a run. RunService.resume reads the row, awaits, then counts *)
(* the recorded attempts and makes its first transition.                   *)
(***************************************************************************)
ResumeTarget ==
    IF stage = "FAILED" /\ resumeAt \notin {None, "IMPLEMENTATION"}
      THEN "resumeVerify"
      ELSE "resumeImplement"

LoadRun(p, listed) ==
    /\ stage \in ResumableStages /\ snapshot
    /\ drv' = [drv EXCEPT ![p] = [Idle EXCEPT !.pc = ResumeTarget, !.stage = stage,
                                              !.listed = listed]]

\* `autopilot resume`.
Resume(p) ==
    /\ At(p, "idle") /\ resumes < MaxResumes
    /\ resumes' = resumes + 1
    /\ LoadRun(p, None)
    /\ UNCHANGED <<rowVars, logVars, gitVars, hubVars, crashes, busy, edits>>

\* Variant, wrong: the sequence starts one past the next free number.
SeededPastNext(d) ==
    LET impl   == attempts["implementer"]
        cycles == attempts["reviewer"] + attempts["verifier"]
    IN  [d EXCEPT !.impl = impl, !.impl0 = impl, !.cycles = cycles, !.cycles0 = cycles,
                  !.seq = AttemptRows + 1]

\* The counters come from the attempts rows: every reviewer and every
\* verifier session counts as a correction cycle.
Seeded(d) ==
    LET impl   == attempts["implementer"]
        cycles == attempts["reviewer"] + attempts["verifier"]
    IN  [d EXCEPT !.impl = impl, !.impl0 = impl, !.cycles = cycles, !.cycles0 = cycles,
                  !.seq = AttemptRows]

BeginResumed(p) ==
    /\ ws
    /\ \/ /\ At(p, "resumeImplement")
          /\ Advance(p, Seeded(drv[p]), "IMPLEMENTATION", "implement")
       \/ /\ At(p, "resumeVerify")
          /\ Advance(p, Seeded(drv[p]), "VERIFICATION", "verify")
    /\ UNCHANGED <<logVars, gitVars, hubVars, faultVars>>

\* The worktree is gone or the snapshot unreadable: resume throws before
\* there is a RunAttempt to fail closed.
RefuseResume(p) ==
    /\ drv[p].pc \in {"resumeImplement", "resumeVerify"}
    /\ \E d \in AfterThrow(p) : drv' = [drv EXCEPT ![p] = d]
    /\ UNCHANGED <<rowVars, logVars, gitVars, hubVars, faultVars>>

\* A daemon starts and lists the nonterminal runs, BLOCKED ones included...
ListNonterminal(p) ==
    /\ At(p, "idle") /\ resumes < MaxResumes
    /\ stage \notin TerminalStages
    /\ resumes' = resumes + 1
    /\ drv' = [drv EXCEPT ![p] = [Idle EXCEPT !.pc = "listed", !.listed = stage]]
    /\ UNCHANGED <<rowVars, logVars, gitVars, hubVars, crashes, busy, edits>>

\* ... resumes each of them, ...
ResumeListed(p) ==
    /\ At(p, "listed")
    /\ IF stage \in ResumableStages /\ snapshot
         THEN LoadRun(p, drv[p].listed)
         ELSE drv' = [drv EXCEPT ![p] = [Idle EXCEPT !.pc = "markFailed",
                                                     !.listed = drv[p].listed]]
    /\ UNCHANGED <<rowVars, logVars, gitVars, hubVars, faultVars>>

\* ... and marks FAILED, from the stage it listed, what it cannot resume.
MarkFailed(p) ==
    /\ At(p, "markFailed")
    /\ IF stage = drv[p].listed
         THEN stage' = "FAILED"
         ELSE UNCHANGED stage
    /\ drv' = [drv EXCEPT ![p] = Idle]
    /\ UNCHANGED <<resumeAt, logVars, gitVars, hubVars, faultVars>>

----------------------------------------------------------------------------
(***************************************************************************)
(* Everybody else.                                                         *)
(***************************************************************************)
\* `autopilot abandon` (RecoveryService.abandon).
Abandon ==
    /\ stage \notin TerminalStages
    /\ stage' = "CANCELLED"
    /\ UNCHANGED <<resumeAt, logVars, gitVars, hubVars, drv, faultVars>>

\* Somebody edits the preserved worktree.
EditWorktree ==
    /\ ws /\ edits < MaxEdits
    /\ edits' = edits + 1
    /\ tree' \in Trees \ {tree}
    /\ UNCHANGED <<rowVars, logVars, ws, head, remote, hubVars, drv, resumes, crashes, busy>>

\* Somebody edits the issue on GitHub.
EditIssue ==
    /\ ~issueChanged /\ issueChanged' = TRUE
    /\ edits < MaxEdits /\ edits' = edits + 1
    /\ UNCHANGED <<rowVars, logVars, gitVars, prs, comments, rival, drv,
                   resumes, crashes, busy>>

\* Another run of the issue starts, which createRun allows only while this
\* one is terminal; ...
RivalStarts ==
    /\ ~rival /\ stage \in TerminalStages /\ rival' = TRUE
    /\ edits < MaxEdits /\ edits' = edits + 1
    /\ UNCHANGED <<rowVars, logVars, gitVars, prs, comments, issueChanged, drv,
                   resumes, crashes, busy>>

\* ... and ends.
RivalEnds ==
    /\ rival /\ rival' = FALSE
    /\ UNCHANGED <<rowVars, logVars, gitVars, prs, comments, issueChanged, drv, faultVars>>

----------------------------------------------------------------------------
Work(p) ==
    \/ BeginReadiness(p) \/ FreezeSnapshot(p) \/ FinishReadiness(p)
    \/ CreateWorkspace(p) \/ FinishSetup(p)
    \/ LaunchImplementer(p) \/ ImplementerReturns(p) \/ HandleImplementerResult(p)
    \/ RunVerificationCommands(p) \/ FinishVerification(p)
    \/ BeginReview(p) \/ ReviewerReturns(p) \/ HandleReview(p)
    \/ BeginAcceptance(p) \/ VerifierReturns(p) \/ HandleAcceptance(p)
    \/ ReenterImplementation(p)
    \/ CheckIssue(p) \/ CheckTree(p) \/ Commit(p) \/ RecordCommit(p) \/ Push(p)
    \/ FindPullRequest(p) \/ CreatePullRequest(p) \/ RecordPullRequest(p)
    \/ FindComment(p) \/ CreateComment(p) \/ RecordComment(p) \/ OpenPr(p)
    \/ BeginResumed(p) \/ RefuseResume(p) \/ ResumeListed(p) \/ MarkFailed(p)

Fault(p) == Throw(p) \/ ThrowWhileBusy(p) \/ Crash(p)

Takeover(p) == Resume(p) \/ ListNonterminal(p)

Environment == Abandon \/ EditWorktree \/ EditIssue \/ RivalStarts \/ RivalEnds

Next ==
    \/ \E p \in Procs : Work(p) \/ Fault(p) \/ Takeover(p)
    \/ Environment

Spec == Init /\ [][Next]_vars

\* A live process keeps running: every session, command and GitHub call has
\* a timeout, so each await returns or throws. Nobody has to crash, resume,
\* abandon or edit anything.
FairSpec == Spec /\ \A p \in Procs : WF_vars(Work(p) \/ Throw(p))

----------------------------------------------------------------------------
(***************************************************************************)
(* Correctness.                                                            *)
(***************************************************************************)
Larger(a, b) == IF a >= b THEN a ELSE b

Driving(p) == drv[p].pc \notin Outside

\* Which stage a process believes the run is in, at each point of its program.
Believes(pc, at) ==
    \/ pc = "start" /\ at = "PREFLIGHT"
    \/ pc \in {"readiness", "frozen"} /\ at = "READINESS_CHECK"
    \/ pc \in {"workspace", "setup"} /\ at = "WORKSPACE_CREATION"
    \/ pc \in {"implement", "implementing", "implemented"} /\ at = "IMPLEMENTATION"
    \/ pc \in {"verify", "hash", "review"} /\ at = "VERIFICATION"
    \/ pc \in {"reviewing", "reviewed", "accept"} /\ at = "INDEPENDENT_REVIEW"
    \/ pc \in {"accepting", "accepted", "publish"} /\ at = "ACCEPTANCE_VERIFICATION"
    \/ pc = "correct" /\ at = "CORRECTION"
    \/ pc \in {"checkTree", "commit", "recordCommit", "push", "findPr", "createPr",
               "recordPr", "findComment", "createComment", "recordComment", "prOpen"}
       /\ at = "PUBLICATION"
    \/ pc \in {"resumeImplement", "resumeVerify"} /\ at \in ResumableStages
    \/ pc \in {"idle", "listed", "markFailed"} /\ at = None

DriverState ==
    [pc : PCs, stage : RunStages \cup {None}, impl : Nat, cycles : Nat, impl0 : Nat,
     cycles0 : Nat, seq : Nat, seen : SUBSET Fingerprints, verified : Trees \cup {None},
     reviewed : Trees \cup {None}, accepted : Trees \cup {None},
     listed : RunStages \cup {None}]

\* What a process believes fits its program counter: RunAttempt.stage is the
\* stage of the code it stands in, a takeover starts from a resumable stage,
\* a daemon lists nonterminal runs.
GoodDriver ==
    {d \in DriverState :
       /\ Believes(d.pc, d.stage)
       /\ d.pc \in {"listed", "markFailed"} => d.listed # None
       /\ d.listed \notin TerminalStages}

ProcessOK ==
    /\ stage \in RunStages
    /\ resumeAt \in RunStages \cup {None}
    /\ drv \in [Procs -> GoodDriver]

DataOK ==
    /\ snapshot \in BOOLEAN /\ attempts \in [Roles -> Nat] /\ corrections \in Nat
    /\ pub \in [commit : BOOLEAN, pr : BOOLEAN, comment : BOOLEAN]
    /\ ws \in BOOLEAN /\ tree \in Trees /\ head \in Trees /\ remote \in Trees \cup {None}
    /\ prs \in Nat /\ comments \in Nat /\ issueChanged \in BOOLEAN /\ rival \in BOOLEAN
    /\ resumes \in Nat /\ crashes \in Nat /\ busy \in Nat /\ edits \in Nat

\* The state is well formed.
TypeOK == ProcessOK /\ DataOK

\* A run is never left in a working stage with nobody working on it, unless
\* a process was killed or the store refused the write of the catch: such a
\* run would hold its issue for ever, out of reach of `resume`. Holds with
\* any number of processes taking the run from one another.
NoOrphanedRun ==
    stage \in WorkingStages =>
      \/ \E p \in Procs : Driving(p) /\ drv[p].stage = stage
      \/ crashes > 0 \/ busy > 0

\* One execution launches a bounded number of implementer sessions: the
\* attempts budget (one session at least, after a resume) plus one for each
\* correction cycle, and the cycles stay within their own budget.
SessionsWithinBudget ==
    \A p \in Procs : Driving(p) =>
      LET d == drv[p]
          due == IF d.pc \in {"implement", "correct"} THEN 1 ELSE 0
      IN  /\ d.cycles <= Larger(d.cycles0, MaxCycles)
          /\ d.impl + due <= Larger(d.impl0 + 1, MaxAttempts) + (d.cycles - d.cycles0)

\* The attempt number a live process would assign next was never skipped:
\* it is at most one past the last recorded one, so numbers have no gaps.
NoAttemptGap == \A p \in Procs : Driving(p) => drv[p].seq <= AttemptRows

\* What the publications row says is true of origin and of GitHub, and a
\* run in PR_OPEN has a pushed branch, a pull request and a comment, all
\* recorded: true after crashes and with processes racing.
RecordedMeansPublished ==
    /\ pub.pr => prs > 0 /\ remote # None
    /\ pub.comment => comments > 0
    /\ stage = "PR_OPEN" => pub = AllRecorded

\* A run publishes one pull request and one comment at most, whatever
\* interrupts the publication and however often it is retried.
PublishedAtMostOnce == prs <= 1 /\ comments <= 1

\* What an open pull request shows is what the branch holds.
OpenPrShowsHead == stage = "PR_OPEN" => remote = head

\* A commit contains the tree that verification hashed last, that the
\* reviewer worked on and that the acceptance verifier worked on.
OnlyReviewedTreeCommitted ==
    [][head' # head /\ ws =>
         \E p \in Procs :
           /\ At(p, "commit")
           /\ {drv[p].verified, drv[p].reviewed, drv[p].accepted} = {head'}]_vars

\* A finished, refused or cancelled run stays so: no process that still
\* believes it drives the run, no resume and no daemon moves it again.
FinalStagesAreFinal ==
    [][(stage \in {"PR_OPEN", "NEEDS_REFINEMENT", "CANCELLED"}) => stage' = stage]_vars

\* A run in a working stage reaches a quiescent one, unless it is orphaned:
\* the correction loops end and nothing waits for ever.
RunSettles ==
    stage \in WorkingStages ~> (stage \in QuiescentStages \/ crashes > 0 \/ busy > 0)

\* Whoever moves a run that is being worked on (its process, the catch, a
\* daemon, an abandon) moves it along the TRANSITIONS table, which none of
\* them consults; the one move it does not have is a setup that ends BLOCKED.
StagesFollowTable ==
    [][stage' # stage /\ stage \in WorkingStages =>
         \/ stage' \in Transitions[stage]
         \/ stage = "WORKSPACE_CREATION" /\ stage' = "BLOCKED"]_vars

(***************************************************************************)
(* What the documentation says and the code does not do.                   *)
(***************************************************************************)
\* A resume that skips the implementer finds an implementation to verify.
ResumeFindsImplementation ==
    [][stage = "FAILED" /\ stage' = "VERIFICATION" => attempts["implementer"] > 0]_vars

\* The correction cycles a resumed run starts with are cycles it consumed.
CarriedCyclesWereConsumed == \A p \in Procs : Driving(p) => drv[p].cycles0 <= corrections

\* A run posts one issue comment, also when a daemon takes a live run for an
\* interrupted one and an operator resumes it.
OneCommentPerRun == comments <= 1

\* A publication that was interrupted after the commit can be retried.
CommittedWorkCanBePublished ==
    \A p \in Procs : At(p, "commit") /\ tree = drv[p].verified /\ pub.commit => tree # head

=================================================================================
