--------------------------- MODULE RunLifecycleProofs ---------------------------
(***************************************************************************)
(* Theorems of RunLifecycle, for every number of processes, every set of   *)
(* trees and findings, and every value of the budgets and the bounds.      *)
(***************************************************************************)
EXTENDS RunLifecycle, TLAPS

(***************************************************************************)
(* How a process's state changes.                                          *)
(***************************************************************************)
LEMMA LaunchedIsDriver ==
  ASSUME NEW d \in DriverState, NEW n \in Nat
  PROVE  [d EXCEPT !.impl = n, !.verified = None, !.reviewed = None, !.accepted = None]
           \in DriverState
BY DEF DriverState

LEMMA SpentIsDriver ==
  ASSUME NEW d \in DriverState, NEW fps \in SUBSET Fingerprints, NEW n \in Nat
  PROVE  [d EXCEPT !.seen = fps, !.cycles = n] \in DriverState
BY DEF DriverState

LEMMA ReturnedIsDriver ==
  ASSUME NEW d \in DriverState, NEW n \in Nat, NEW t \in Trees
  PROVE  /\ [d EXCEPT !.seq = n, !.reviewed = t] \in DriverState
         /\ [d EXCEPT !.seq = n, !.reviewed = t].listed = d.listed
         /\ [d EXCEPT !.seq = n, !.reviewed = t].stage = d.stage
         /\ [d EXCEPT !.seq = n, !.accepted = t] \in DriverState
         /\ [d EXCEPT !.seq = n, !.accepted = t].listed = d.listed
         /\ [d EXCEPT !.seq = n, !.accepted = t].stage = d.stage
BY DEF DriverState

LEMMA SeenIsDriver ==
  ASSUME NEW d \in DriverState, NEW fps \in SUBSET Fingerprints
  PROVE  /\ [d EXCEPT !.seen = fps] \in DriverState
         /\ [d EXCEPT !.seen = fps].listed = d.listed
BY DEF DriverState

LEMMA SeededIsDriver ==
  ASSUME DataOK, NEW d \in DriverState
  PROVE  /\ Seeded(d) \in DriverState
         /\ Seeded(d).listed = d.listed
<1>1. /\ attempts["implementer"] \in Nat /\ AttemptRows \in Nat
      /\ attempts["reviewer"] + attempts["verifier"] \in Nat
  BY DEF DataOK, AttemptRows, Roles
<1> QED BY <1>1 DEF Seeded, DriverState

LEMMA IdleIsGood == Idle \in GoodDriver
BY RunAssumption
DEF Idle, GoodDriver, DriverState, PCs, Believes, RunStages, TerminalStages

LEMMA MovedIsGood ==
  ASSUME NEW d \in DriverState, d.listed \notin TerminalStages,
         NEW to \in RunStages, NEW pc \in PCs, Believes(pc, to),
         pc \notin {"listed", "markFailed"}
  PROVE  [d EXCEPT !.stage = to, !.pc = pc] \in GoodDriver
BY DEF GoodDriver, DriverState

LEMMA ContinuedIsGood ==
  ASSUME NEW d \in DriverState, d.listed \notin TerminalStages,
         NEW pc \in PCs, Believes(pc, d.stage),
         pc \notin {"listed", "markFailed"}
  PROVE  [d EXCEPT !.pc = pc] \in GoodDriver
BY DEF GoodDriver, DriverState

LEMMA ReplaceDriver ==
  ASSUME ProcessOK, NEW p \in Procs, NEW d \in GoodDriver,
         drv' = [drv EXCEPT ![p] = d]
  PROVE  drv' \in [Procs -> GoodDriver]
BY DEF ProcessOK

LEMMA AdvanceKeeps ==
  ASSUME ProcessOK, NEW p \in Procs, NEW d \in DriverState,
         d.listed \notin TerminalStages, NEW to \in RunStages, NEW pc \in PCs,
         Believes(pc, to), pc \notin {"listed", "markFailed"},
         Advance(p, d, to, pc)
  PROVE  ProcessOK'
<1>1. [d EXCEPT !.stage = to, !.pc = pc] \in GoodDriver
  BY MovedIsGood
<1>2. drv' \in [Procs -> GoodDriver]
  BY <1>1, ReplaceDriver DEF Advance
<1> QED
  BY <1>2 DEF ProcessOK, Advance, CompareAndSet, DriverState

LEMMA ContinueKeeps ==
  ASSUME ProcessOK, NEW p \in Procs, NEW d \in DriverState,
         d.listed \notin TerminalStages, NEW pc \in PCs,
         Believes(pc, d.stage), pc \notin {"listed", "markFailed"},
         Continue(p, d, pc)
  PROVE  ProcessOK'
<1>1. [d EXCEPT !.pc = pc] \in GoodDriver
  BY ContinuedIsGood
<1>2. drv' \in [Procs -> GoodDriver]
  BY <1>1, ReplaceDriver DEF Continue
<1> QED
  BY <1>2 DEF ProcessOK, Continue, rowVars

LEMMA FinishKeeps ==
  ASSUME ProcessOK, NEW p \in Procs, NEW to \in RunStages, Finish(p, to)
  PROVE  ProcessOK'
<1>1. drv' \in [Procs -> GoodDriver]
  BY IdleIsGood, ReplaceDriver DEF Finish
<1> QED
  BY <1>1 DEF ProcessOK, Finish, CompareAndSet

LEMMA AfterThrowIsGood ==
  ASSUME ProcessOK, NEW p \in Procs, NEW d \in AfterThrow(p)
  PROVE  d \in GoodDriver
<1>1. drv[p] \in GoodDriver
  BY DEF ProcessOK
<1>2. CASE d = Idle
  BY <1>2, IdleIsGood
<1>3. CASE d = [Idle EXCEPT !.pc = "markFailed", !.listed = drv[p].listed] /\ drv[p].listed # None
  BY ZenonT(40), <1>1, <1>3, IdleIsGood DEF Idle, GoodDriver, DriverState, Believes, PCs
<1> QED
  BY <1>2, <1>3 DEF AfterThrow

LEMMA FailClosedKeeps ==
  ASSUME ProcessOK, NEW p \in Procs, FailClosed(p)
  PROVE  ProcessOK'
<1>1. PICK d \in AfterThrow(p) : drv' = [drv EXCEPT ![p] = d]
  BY DEF FailClosed
<1>2. drv' \in [Procs -> GoodDriver]
  BY <1>1, AfterThrowIsGood, ReplaceDriver
<1> QED
  BY <1>2 DEF ProcessOK, FailClosed, rowVars, RunStages, TerminalStages

LEMMA DriverFacts ==
  ASSUME ProcessOK, NEW p \in Procs
  PROVE  /\ drv[p] \in GoodDriver /\ drv[p] \in DriverState
         /\ drv[p].listed \notin TerminalStages
         /\ Believes(drv[p].pc, drv[p].stage)
BY DEF ProcessOK, GoodDriver

LEMMA NoneIsNoStage == None \notin RunStages /\ None \notin Trees
BY RunAssumption

\* The stages and program counters that occur in the steps of a process.
LEMMA Names ==
  /\ {"READINESS_CHECK", "WORKSPACE_CREATION", "IMPLEMENTATION", "VERIFICATION",
      "INDEPENDENT_REVIEW", "ACCEPTANCE_VERIFICATION", "CORRECTION", "PUBLICATION",
      "BLOCKED", "NEEDS_REFINEMENT", "FAILED", "CANCELLED", "PR_OPEN"} \subseteq RunStages
  /\ \A pc \in PCs \ Outside : pc \notin {"listed", "markFailed"}
BY DEF RunStages, WorkingStages, TerminalStages, Outside

(***************************************************************************)
(* Every step of a process that drives the run keeps its row and the       *)
(* processes' states well formed.                                          *)
(***************************************************************************)
LEMMA RequestCorrectionKeeps ==
  ASSUME ProcessOK, NEW p \in Procs, NEW at \in CycleStages, RequestCorrection(p, at)
  PROVE  ProcessOK'
<1> DEFINE Spent(f) == [drv[p] EXCEPT !.seen = @ \cup {<<at, f>>}, !.cycles = @ + 1]
<1>1. PICK f \in Findings :
        \/ Advance(p, Spent(f), "CORRECTION", "correct")
        \/ Finish(p, "BLOCKED")
  BY DEF RequestCorrection
<1>2. Spent(f) \in DriverState /\ Spent(f).listed \notin TerminalStages
  <2>1. drv[p].seen \cup {<<at, f>>} \in SUBSET Fingerprints /\ drv[p].cycles + 1 \in Nat
    BY DriverFacts DEF DriverState, Fingerprints
  <2>2. Spent(f).listed = drv[p].listed
    BY DriverFacts DEF DriverState
  <2> QED BY <2>1, <2>2, DriverFacts, SpentIsDriver
<1>3. CASE Advance(p, Spent(f), "CORRECTION", "correct")
  <2>1. "correct" \in PCs /\ Believes("correct", "CORRECTION")
    BY DEF PCs, Believes
  <2> HIDE DEF Spent
  <2> QED BY <1>2, <1>3, <2>1, Names, AdvanceKeeps
<1>4. CASE Finish(p, "BLOCKED")
  BY <1>4, Names, FinishKeeps
<1> QED BY <1>1, <1>3, <1>4

LEMMA RejectOutrightKeeps ==
  ASSUME ProcessOK, NEW p \in Procs, RejectOutright(p)
  PROVE  ProcessOK'
BY Names, FinishKeeps DEF RejectOutright

LEMMA PreparationKeeps ==
  ASSUME ProcessOK, NEW p \in Procs,
         \/ BeginReadiness(p) \/ FreezeSnapshot(p) \/ FinishReadiness(p)
         \/ CreateWorkspace(p) \/ FinishSetup(p)
  PROVE  ProcessOK'
<1>1. CASE BeginReadiness(p)
  BY <1>1, Names, DriverFacts, AdvanceKeeps DEF BeginReadiness, PCs, Believes
<1>2. CASE FreezeSnapshot(p) \/ FinishReadiness(p)
  BY <1>2, Names, DriverFacts, AdvanceKeeps, ContinueKeeps, FinishKeeps
  DEF FreezeSnapshot, FinishReadiness, At, Go, PCs, Believes
<1>3. CASE CreateWorkspace(p)
  BY <1>3, Names, NoneIsNoStage, DriverFacts, ContinueKeeps
  DEF CreateWorkspace, At, Go, PCs, Believes, ResumableStages
<1>4. CASE FinishSetup(p)
  BY <1>4, Names, DriverFacts, AdvanceKeeps, FinishKeeps DEF FinishSetup, PCs, Believes
<1> QED BY <1>1, <1>2, <1>3, <1>4

LEMMA ImplementationKeeps ==
  ASSUME ProcessOK, NEW p \in Procs,
         \/ LaunchImplementer(p) \/ ImplementerReturns(p) \/ HandleImplementerResult(p)
         \/ ReenterImplementation(p)
  PROVE  ProcessOK'
<1>1. CASE LaunchImplementer(p)
  <2> DEFINE d == [drv[p] EXCEPT !.impl = @ + 1, !.verified = None, !.reviewed = None,
                                 !.accepted = None]
  <2>0. drv[p].impl + 1 \in Nat
    BY DriverFacts DEF DriverState
  <2>1. d \in DriverState /\ d.listed = drv[p].listed /\ d.stage = drv[p].stage
    BY ZenonT(40), <2>0, DriverFacts, LaunchedIsDriver DEF DriverState
  <2>2. Continue(p, d, "implementing")
    BY <1>1 DEF LaunchImplementer
  <2>3. "implementing" \in PCs /\ Believes("implementing", drv[p].stage)
    BY <1>1, DriverFacts DEF LaunchImplementer, At, PCs, Believes
  <2> HIDE DEF d
  <2> QED BY <2>1, <2>2, <2>3, DriverFacts, ContinueKeeps
<1>2. CASE ImplementerReturns(p)
  <2> DEFINE d == [drv[p] EXCEPT !.seq = @ + 1]
  <2>1. d \in DriverState /\ d.listed = drv[p].listed /\ d.stage = drv[p].stage
    BY DriverFacts DEF DriverState
  <2>2. Continue(p, d, "implemented")
    BY <1>2 DEF ImplementerReturns
  <2>3. "implemented" \in PCs /\ Believes("implemented", drv[p].stage)
    BY <1>2, DriverFacts DEF ImplementerReturns, At, PCs, Believes
  <2> HIDE DEF d
  <2> QED BY <2>1, <2>2, <2>3, DriverFacts, ContinueKeeps
<1>3. CASE HandleImplementerResult(p)
  BY <1>3, Names, DriverFacts, AdvanceKeeps, FinishKeeps
  DEF HandleImplementerResult, PCs, Believes
<1>4. CASE ReenterImplementation(p)
  BY <1>4, Names, DriverFacts, AdvanceKeeps DEF ReenterImplementation, PCs, Believes
<1> QED BY <1>1, <1>2, <1>3, <1>4

LEMMA DataTypes == DataOK => tree \in Trees
BY DEF DataOK

LEMMA VerificationKeeps ==
  ASSUME ProcessOK, DataOK, NEW p \in Procs,
         RunVerificationCommands(p) \/ FinishVerification(p)
  PROVE  ProcessOK'
<1>1. CASE RunVerificationCommands(p)
  BY <1>1, NoneIsNoStage, DriverFacts, ContinueKeeps
  DEF RunVerificationCommands, At, Go, PCs, Believes, ResumableStages
<1>2. CASE FinishVerification(p)
  <2> DEFINE d == [drv[p] EXCEPT !.verified = tree]
             Spent(f) == [d EXCEPT !.seen = @ \cup {<<"VERIFICATION", f>>}]
  <2>1. /\ d \in DriverState /\ d.listed = drv[p].listed
        /\ d.stage = drv[p].stage /\ d.seen = drv[p].seen
    BY DataTypes, DriverFacts DEF DriverState
  <2>2. ASSUME NEW f \in Findings
        PROVE  Spent(f) \in DriverState /\ Spent(f).listed = drv[p].listed
    <3>1. d.seen \cup {<<"VERIFICATION", f>>} \in SUBSET Fingerprints
      BY <2>1 DEF DriverState, Fingerprints, AttemptStages
    <3> HIDE DEF d
    <3> QED BY <2>1, <3>1, SeenIsDriver
  <2>3. \/ Continue(p, d, "review")
        \/ \E f \in Findings : Advance(p, Spent(f), "IMPLEMENTATION", "implement")
        \/ Finish(p, "BLOCKED")
    BY <1>2 DEF FinishVerification
  <2>4. /\ {"review", "implement"} \subseteq PCs
        /\ Believes("review", drv[p].stage)
        /\ Believes("implement", "IMPLEMENTATION")
    BY <1>2, DriverFacts DEF FinishVerification, At, PCs, Believes
  <2> HIDE DEF d, Spent
  <2>5. CASE Continue(p, d, "review")
    BY <2>1, <2>4, <2>5, DriverFacts, ContinueKeeps
  <2>6. CASE \E f \in Findings : Advance(p, Spent(f), "IMPLEMENTATION", "implement")
    BY <2>2, <2>4, <2>6, DriverFacts, Names, AdvanceKeeps
  <2>7. CASE Finish(p, "BLOCKED")
    BY <2>7, Names, FinishKeeps
  <2> QED BY <2>3, <2>5, <2>6, <2>7
<1> QED BY <1>1, <1>2

LEMMA ReviewKeeps ==
  ASSUME ProcessOK, DataOK, NEW p \in Procs,
         \/ BeginReview(p) \/ ReviewerReturns(p) \/ HandleReview(p)
         \/ BeginAcceptance(p) \/ VerifierReturns(p) \/ HandleAcceptance(p)
  PROVE  ProcessOK'
<1>1. CASE BeginReview(p)
  BY <1>1, Names, DriverFacts, AdvanceKeeps DEF BeginReview, PCs, Believes
<1>2. CASE ReviewerReturns(p)
  <2> DEFINE d == [drv[p] EXCEPT !.seq = @ + 1, !.reviewed = tree]
  <2>0. drv[p].seq + 1 \in Nat
    BY DriverFacts DEF DriverState
  <2>1. d \in DriverState /\ d.listed = drv[p].listed /\ d.stage = drv[p].stage
    BY ZenonT(40), <2>0, DataTypes, DriverFacts, ReturnedIsDriver
  <2>2. Continue(p, d, "reviewed")
    BY <1>2 DEF ReviewerReturns
  <2>3. "reviewed" \in PCs /\ Believes("reviewed", drv[p].stage)
    BY <1>2, DriverFacts DEF ReviewerReturns, At, PCs, Believes
  <2> HIDE DEF d
  <2> QED BY <2>1, <2>2, <2>3, DriverFacts, ContinueKeeps
<1>3. CASE HandleReview(p)
  <2>1. CASE Go(p, "accept")
    BY <1>3, <2>1, NoneIsNoStage, DriverFacts, ContinueKeeps
    DEF HandleReview, At, Go, PCs, Believes, ResumableStages
  <2>2. CASE RequestCorrection(p, "INDEPENDENT_REVIEW")
    BY <2>2, RequestCorrectionKeeps DEF CycleStages
  <2>3. CASE RejectOutright(p)
    BY <2>3, RejectOutrightKeeps
  <2> QED BY <1>3, <2>1, <2>2, <2>3 DEF HandleReview
<1>4. CASE BeginAcceptance(p)
  BY <1>4, Names, DriverFacts, AdvanceKeeps DEF BeginAcceptance, PCs, Believes
<1>5. CASE VerifierReturns(p)
  <2> DEFINE d == [drv[p] EXCEPT !.seq = @ + 1, !.accepted = tree]
  <2>0. drv[p].seq + 1 \in Nat
    BY DriverFacts DEF DriverState
  <2>1. d \in DriverState /\ d.listed = drv[p].listed /\ d.stage = drv[p].stage
    BY ZenonT(40), <2>0, DataTypes, DriverFacts, ReturnedIsDriver
  <2>2. Continue(p, d, "accepted")
    BY <1>5 DEF VerifierReturns
  <2>3. "accepted" \in PCs /\ Believes("accepted", drv[p].stage)
    BY <1>5, DriverFacts DEF VerifierReturns, At, PCs, Believes
  <2> HIDE DEF d
  <2> QED BY <2>1, <2>2, <2>3, DriverFacts, ContinueKeeps
<1>6. CASE HandleAcceptance(p)
  <2>1. CASE Go(p, "publish")
    BY <1>6, <2>1, NoneIsNoStage, DriverFacts, ContinueKeeps
    DEF HandleAcceptance, At, Go, PCs, Believes, ResumableStages
  <2>2. CASE RequestCorrection(p, "ACCEPTANCE_VERIFICATION")
    BY <2>2, RequestCorrectionKeeps DEF CycleStages
  <2>3. CASE RejectOutright(p)
    BY <2>3, RejectOutrightKeeps
  <2> QED BY <1>6, <2>1, <2>2, <2>3 DEF HandleAcceptance
<1> QED BY <1>1, <1>2, <1>3, <1>4, <1>5, <1>6

LEMMA PublicationKeeps ==
  ASSUME ProcessOK, NEW p \in Procs,
         \/ CheckIssue(p) \/ CheckTree(p) \/ Commit(p) \/ RecordCommit(p) \/ Push(p)
         \/ FindPullRequest(p) \/ CreatePullRequest(p) \/ RecordPullRequest(p)
         \/ FindComment(p) \/ CreateComment(p) \/ RecordComment(p) \/ OpenPr(p)
  PROVE  ProcessOK'
<1>1. CASE CheckIssue(p)
  BY <1>1, Names, DriverFacts, AdvanceKeeps, FinishKeeps DEF CheckIssue, PCs, Believes
<1>2. CASE CheckTree(p)
  BY <1>2, NoneIsNoStage, DriverFacts, ContinueKeeps
  DEF CheckTree, At, Go, PCs, Believes, ResumableStages
<1>3. CASE Commit(p)
  BY <1>3, NoneIsNoStage, DriverFacts, ContinueKeeps
  DEF Commit, At, Go, PCs, Believes, ResumableStages
<1>4. CASE Push(p)
  BY <1>4, NoneIsNoStage, DriverFacts, ContinueKeeps
  DEF Push, At, Go, PCs, Believes, ResumableStages
<1>5. CASE FindPullRequest(p)
  BY <1>5, NoneIsNoStage, DriverFacts, ContinueKeeps
  DEF FindPullRequest, At, Go, PCs, Believes, ResumableStages
<1>6. CASE CreatePullRequest(p)
  BY <1>6, NoneIsNoStage, DriverFacts, ContinueKeeps
  DEF CreatePullRequest, At, Go, PCs, Believes, ResumableStages
<1>7. CASE RecordPullRequest(p)
  BY <1>7, NoneIsNoStage, DriverFacts, ContinueKeeps
  DEF RecordPullRequest, At, Go, PCs, Believes, ResumableStages
<1>8. CASE FindComment(p)
  BY <1>8, NoneIsNoStage, DriverFacts, ContinueKeeps
  DEF FindComment, At, Go, PCs, Believes, ResumableStages
<1>9. CASE CreateComment(p)
  BY <1>9, NoneIsNoStage, DriverFacts, ContinueKeeps
  DEF CreateComment, At, Go, PCs, Believes, ResumableStages
<1>10. CASE RecordComment(p)
  BY <1>10, NoneIsNoStage, DriverFacts, ContinueKeeps
  DEF RecordComment, At, Go, PCs, Believes, ResumableStages
<1>11. CASE OpenPr(p)
  BY <1>11, Names, FinishKeeps DEF OpenPr
<1>12. CASE RecordCommit(p)
  BY <1>12, NoneIsNoStage, DriverFacts, ContinueKeeps
  DEF RecordCommit, At, Go, PCs, Believes, ResumableStages
<1> QED
  BY <1>1, <1>2, <1>3, <1>4, <1>5, <1>6, <1>7, <1>8, <1>9, <1>10, <1>11, <1>12

(***************************************************************************)
(* Taking the run over, and losing it.                                     *)
(***************************************************************************)
LEMMA LoadRunKeeps ==
  ASSUME ProcessOK, NEW p \in Procs, LoadRun(p, None) \/ LoadRun(p, drv[p].listed)
  PROVE  drv' \in [Procs -> GoodDriver]
<1> DEFINE Loaded(l) == [Idle EXCEPT !.pc = ResumeTarget, !.stage = stage, !.listed = l]
<1>1. ASSUME NEW l \in RunStages \cup {None}, l \notin TerminalStages, stage \in ResumableStages
      PROVE  Loaded(l) \in GoodDriver
  <2>1. /\ ResumeTarget \in {"resumeImplement", "resumeVerify"}
        /\ stage \in RunStages
    BY DEF ResumeTarget, ProcessOK
  <2>2. Idle \in DriverState
    BY IdleIsGood DEF GoodDriver
  <2>3. Loaded(l) \in DriverState
    BY <2>1, <2>2 DEF DriverState, PCs
  <2>4. /\ Loaded(l).pc = ResumeTarget /\ Loaded(l).stage = stage
        /\ Loaded(l).listed = l
    BY <2>2 DEF DriverState
  <2> HIDE DEF Loaded
  <2> QED BY <1>1, <2>1, <2>3, <2>4 DEF GoodDriver, Believes
<1>2. None \notin TerminalStages
  BY NoneIsNoStage DEF RunStages
<1>3. /\ drv[p].listed \in RunStages \cup {None}
      /\ drv[p].listed \notin TerminalStages
  BY DriverFacts DEF DriverState
<1>4. CASE LoadRun(p, None)
  <2>1. Loaded(None) \in GoodDriver
    BY <1>1, <1>2, <1>4 DEF LoadRun
  <2> QED BY <1>4, <2>1, ReplaceDriver DEF LoadRun
<1>5. CASE LoadRun(p, drv[p].listed)
  <2>1. Loaded(drv[p].listed) \in GoodDriver
    BY <1>1, <1>3, <1>5 DEF LoadRun
  <2> QED BY <1>5, <2>1, ReplaceDriver DEF LoadRun
<1> QED BY <1>4, <1>5

LEMMA ListedIsGood ==
  ASSUME NEW pc \in {"listed", "markFailed"}, NEW l \in RunStages \ TerminalStages
  PROVE  [Idle EXCEPT !.pc = pc, !.listed = l] \in GoodDriver
<1>1. Idle \in DriverState /\ Idle.stage = None
  BY IdleIsGood DEF GoodDriver, Idle
<1>0. pc \in PCs /\ l \in RunStages
  BY DEF PCs
<1>2. [Idle EXCEPT !.pc = pc, !.listed = l] \in DriverState
  BY <1>0, <1>1 DEF DriverState
<1> DEFINE d == [Idle EXCEPT !.pc = pc, !.listed = l]
<1>3. /\ [Idle EXCEPT !.pc = pc, !.listed = l].pc = pc
      /\ [Idle EXCEPT !.pc = pc, !.listed = l].listed = l
      /\ [Idle EXCEPT !.pc = pc, !.listed = l].stage = None
  BY <1>1 DEF DriverState
<1>4. l # None /\ l \notin TerminalStages
  BY NoneIsNoStage
<1>5. d \in DriverState /\ Believes(d.pc, d.stage) /\ d.listed = l
  BY <1>2, <1>3 DEF Believes
<1> HIDE DEF d
<1>6. d \in GoodDriver
  BY <1>4, <1>5 DEF GoodDriver
<1> QED BY <1>6 DEF d

LEMMA TakeoverKeeps ==
  ASSUME ProcessOK, DataOK, NEW p \in Procs,
         \/ Resume(p) \/ ListNonterminal(p) \/ BeginResumed(p) \/ RefuseResume(p)
         \/ ResumeListed(p) \/ MarkFailed(p)
  PROVE  ProcessOK'
<1>1. CASE Resume(p)
  BY <1>1, LoadRunKeeps DEF Resume, ProcessOK, rowVars
<1>2. CASE ListNonterminal(p)
  <2>1. [Idle EXCEPT !.pc = "listed", !.listed = stage] \in GoodDriver
    BY <1>2, ListedIsGood DEF ListNonterminal, ProcessOK
  <2>2. drv' \in [Procs -> GoodDriver]
    BY <1>2, <2>1, ReplaceDriver DEF ListNonterminal
  <2> QED BY <1>2, <2>2 DEF ListNonterminal, ProcessOK, rowVars
<1>3. CASE BeginResumed(p)
  <2>1. Seeded(drv[p]) \in DriverState /\ Seeded(drv[p]).listed = drv[p].listed
    BY DriverFacts, SeededIsDriver
  <2>2. \/ Advance(p, Seeded(drv[p]), "IMPLEMENTATION", "implement")
        \/ Advance(p, Seeded(drv[p]), "VERIFICATION", "verify")
    BY <1>3 DEF BeginResumed
  <2>3. /\ {"implement", "verify"} \subseteq PCs
        /\ Believes("implement", "IMPLEMENTATION") /\ Believes("verify", "VERIFICATION")
    BY DEF PCs, Believes
  <2> QED BY <2>1, <2>2, <2>3, DriverFacts, Names, AdvanceKeeps
<1>4. CASE RefuseResume(p)
  <2>1. PICK d \in AfterThrow(p) : drv' = [drv EXCEPT ![p] = d]
    BY <1>4 DEF RefuseResume
  <2>2. drv' \in [Procs -> GoodDriver]
    BY <2>1, AfterThrowIsGood, ReplaceDriver
  <2> QED BY <1>4, <2>2 DEF RefuseResume, ProcessOK, rowVars
<1>5. CASE ResumeListed(p)
  <2>1. drv[p].listed \in RunStages \ TerminalStages
    BY <1>5, DriverFacts DEF ResumeListed, At, GoodDriver, DriverState
  <2>2. [Idle EXCEPT !.pc = "markFailed", !.listed = drv[p].listed] \in GoodDriver
    BY <2>1, ListedIsGood
  <2>3. drv' \in [Procs -> GoodDriver]
    BY <1>5, <2>2, LoadRunKeeps, ReplaceDriver DEF ResumeListed
  <2> QED BY <1>5, <2>3 DEF ResumeListed, ProcessOK, rowVars
<1>6. CASE MarkFailed(p)
  <2>1. drv' \in [Procs -> GoodDriver]
    BY <1>6, IdleIsGood, ReplaceDriver DEF MarkFailed
  <2> QED BY <1>6, <2>1, Names DEF MarkFailed, ProcessOK
<1> QED BY <1>1, <1>2, <1>3, <1>4, <1>5, <1>6

LEMMA FaultKeeps ==
  ASSUME ProcessOK, NEW p \in Procs, Fault(p)
  PROVE  ProcessOK'
<1>1. CASE Throw(p)
  BY <1>1, FailClosedKeeps DEF Throw
<1>2. CASE ThrowWhileBusy(p)
  <2>1. PICK d \in AfterThrow(p) : drv' = [drv EXCEPT ![p] = d]
    BY <1>2 DEF ThrowWhileBusy
  <2>2. drv' \in [Procs -> GoodDriver]
    BY <2>1, AfterThrowIsGood, ReplaceDriver
  <2> QED BY <1>2, <2>2 DEF ThrowWhileBusy, ProcessOK, rowVars
<1>3. CASE Crash(p)
  <2>1. drv' \in [Procs -> GoodDriver]
    BY <1>3, IdleIsGood, ReplaceDriver DEF Crash
  <2> QED BY <1>3, <2>1 DEF Crash, ProcessOK, rowVars
<1> QED BY <1>1, <1>2, <1>3 DEF Fault

LEMMA EnvironmentKeeps ==
  ASSUME ProcessOK, Environment
  PROVE  ProcessOK'
BY Names
DEF Environment, Abandon, EditWorktree, EditIssue, RivalStarts, RivalEnds, ProcessOK, rowVars

(***************************************************************************)
(* The rest of the state.                                                  *)
(***************************************************************************)
\* The steps that touch no data at all.
LEMMA QuietKeepsData ==
  ASSUME DataOK, UNCHANGED <<logVars, gitVars, hubVars, faultVars>>
  PROVE  DataOK'
BY DEF DataOK, logVars, gitVars, hubVars, faultVars

LEMMA RecordAttemptKeepsData ==
  ASSUME DataOK, NEW d, NEW role \in Roles, RecordAttempt(d, role)
  PROVE  attempts' \in [Roles -> Nat]
BY DEF DataOK, RecordAttempt, Roles

LEMMA RequestCorrectionKeepsData ==
  ASSUME DataOK, NEW p, NEW at, RequestCorrection(p, at) \/ RejectOutright(p)
  PROVE  corrections' \in Nat
<1>1. corrections' = corrections \/ corrections' = corrections + 1
  BY DEF RequestCorrection, RejectOutright
<1> QED BY <1>1 DEF DataOK

LEMMA WorkKeepsData ==
  ASSUME DataOK, NEW p \in Procs, Work(p)
  PROVE  DataOK'
<1>1. CASE UNCHANGED <<logVars, gitVars, hubVars, faultVars>>
  BY <1>1, QuietKeepsData
<1>2. CASE FreezeSnapshot(p) \/ FinishReadiness(p)
  BY <1>2
  DEF FreezeSnapshot, FinishReadiness, DataOK, logVars, gitVars, hubVars, faultVars
<1>3. CASE CreateWorkspace(p)
  BY <1>3, RunAssumption
  DEF CreateWorkspace, DataOK, logVars, gitVars, hubVars, faultVars
<1>4. CASE FinishSetup(p)
  BY <1>4
  DEF FinishSetup, DataOK, logVars, gitVars, hubVars, faultVars
<1>5. CASE ImplementerReturns(p)
  BY <1>5, RecordAttemptKeepsData
  DEF ImplementerReturns, DataOK, logVars, gitVars, hubVars, faultVars, Roles
<1>6. CASE RunVerificationCommands(p)
  BY <1>6
  DEF RunVerificationCommands, DataOK, logVars, gitVars, hubVars, faultVars
<1>7. CASE ReviewerReturns(p)
  BY <1>7, RecordAttemptKeepsData
  DEF ReviewerReturns, DataOK, logVars, gitVars, hubVars, faultVars, Roles
<1>8. CASE HandleReview(p)
  BY <1>8, RequestCorrectionKeepsData
  DEF HandleReview, DataOK, logVars, gitVars, hubVars, faultVars
<1>9. CASE VerifierReturns(p)
  BY <1>9, RecordAttemptKeepsData
  DEF VerifierReturns, DataOK, logVars, gitVars, hubVars, faultVars, Roles
<1>10. CASE HandleAcceptance(p)
  BY <1>10, RequestCorrectionKeepsData
  DEF HandleAcceptance, DataOK, logVars, gitVars, hubVars, faultVars
<1>11. CASE Commit(p)
  BY <1>11
  DEF Commit, DataOK, logVars, gitVars, hubVars, faultVars
<1>12. CASE Push(p)
  BY <1>12
  DEF Push, DataOK, logVars, gitVars, hubVars, faultVars
<1>13. CASE CreatePullRequest(p)
  BY <1>13
  DEF CreatePullRequest, DataOK, logVars, gitVars, hubVars, faultVars
<1>14. CASE RecordPullRequest(p)
  BY <1>14
  DEF RecordPullRequest, DataOK, logVars, gitVars, hubVars, faultVars
<1>15. CASE CreateComment(p)
  <2>1. issueChanged' \in BOOLEAN
    BY <1>15, Zenon DEF CreateComment, DataOK
  <2> QED
    BY <1>15, <2>1 DEF CreateComment, DataOK, logVars, gitVars, faultVars
<1>16. CASE RecordComment(p)
  BY <1>16
  DEF RecordComment, DataOK, logVars, gitVars, hubVars, faultVars
<1>17. CASE RecordCommit(p)
  BY <1>17
  DEF RecordCommit, DataOK, logVars, gitVars, hubVars, faultVars
<1> QED
  BY <1>1, <1>2, <1>3, <1>4, <1>5, <1>6, <1>7, <1>8, <1>9, <1>10, <1>11, <1>12, <1>13, <1>14, <1>15, <1>16, <1>17
  DEF Work, BeginReadiness, LaunchImplementer, HandleImplementerResult, FinishVerification, BeginReview, BeginAcceptance, ReenterImplementation, CheckIssue, CheckTree, FindPullRequest, FindComment, OpenPr, BeginResumed, RefuseResume, ResumeListed, MarkFailed

LEMMA OthersKeepData ==
  ASSUME DataOK,
         (\E p \in Procs : Fault(p) \/ Takeover(p)) \/ Environment
  PROVE  DataOK'
<1>1. ASSUME NEW p \in Procs, Throw(p) PROVE DataOK'
  BY <1>1 DEF Throw, Partial, DataOK, logVars, hubVars, faultVars
<1>2. ASSUME NEW p \in Procs, ThrowWhileBusy(p) PROVE DataOK'
  BY <1>2 DEF ThrowWhileBusy, Partial, DataOK, logVars, hubVars
<1>3. ASSUME NEW p \in Procs, Crash(p) PROVE DataOK'
  BY <1>3 DEF Crash, Partial, DataOK, logVars, hubVars
<1>4. ASSUME NEW p \in Procs, Takeover(p) PROVE DataOK'
  BY <1>4 DEF Takeover, Resume, ListNonterminal, DataOK, logVars, gitVars, hubVars
<1>5. CASE Abandon
  BY <1>5, QuietKeepsData DEF Abandon
<1>6. CASE EditWorktree
  BY <1>6 DEF EditWorktree, DataOK, logVars, hubVars
<1>7. CASE EditIssue
  BY <1>7 DEF EditIssue, DataOK, logVars, gitVars
<1>8. CASE RivalStarts
  BY <1>8 DEF RivalStarts, DataOK, logVars, gitVars
<1>9. CASE RivalEnds
  BY <1>9 DEF RivalEnds, DataOK, logVars, gitVars, faultVars
<1> QED
  BY <1>1, <1>2, <1>3, <1>4, <1>5, <1>6, <1>7, <1>8, <1>9 DEF Fault, Environment

LEMMA WorkKeeps ==
  ASSUME ProcessOK, DataOK, NEW p \in Procs, Work(p)
  PROVE  ProcessOK'
BY PreparationKeeps, ImplementationKeeps, VerificationKeeps, ReviewKeeps,
   PublicationKeeps, TakeoverKeeps
DEF Work

(***************************************************************************)
(* The state stays well formed, and every process stands where the stage   *)
(* it believes in says it stands (RunAttempt.stage).                       *)
(***************************************************************************)
THEOREM TypeCorrect == Spec => []TypeOK
<1>1. Init => TypeOK
  <2> SUFFICES ASSUME Init PROVE TypeOK
    OBVIOUS
  <2>1. DataOK
    BY RunAssumption DEF Init, DataOK, NothingRecorded
  <2>2. [Idle EXCEPT !.pc = "start", !.stage = "PREFLIGHT"] \in GoodDriver
    <3>1. "start" \in PCs /\ Believes("start", "PREFLIGHT") /\ "PREFLIGHT" \in RunStages
      BY DEF PCs, Believes, RunStages, WorkingStages
    <3>2. [Idle EXCEPT !.stage = "PREFLIGHT", !.pc = "start"] \in GoodDriver
      BY <3>1, IdleIsGood, MovedIsGood DEF GoodDriver
    <3> QED BY <3>2 DEF Idle
  <2>3. drv \in [Procs -> GoodDriver]
    BY <2>2, IdleIsGood DEF Init
  <2> QED
    BY <2>1, <2>3 DEF Init, TypeOK, ProcessOK, RunStages, WorkingStages
<1>2. TypeOK /\ [Next]_vars => TypeOK'
  <2> SUFFICES ASSUME TypeOK, [Next]_vars PROVE TypeOK'
    OBVIOUS
  <2> USE DEF TypeOK
  <2>1. ASSUME NEW p \in Procs, Work(p) PROVE TypeOK'
    BY <2>1, WorkKeeps, WorkKeepsData
  <2>2. ASSUME NEW p \in Procs, Fault(p) PROVE TypeOK'
    BY <2>2, FaultKeeps, OthersKeepData
  <2>3. ASSUME NEW p \in Procs, Takeover(p) PROVE TypeOK'
    BY <2>3, TakeoverKeeps, OthersKeepData DEF Takeover
  <2>4. CASE Environment
    BY <2>4, EnvironmentKeeps, OthersKeepData
  <2>5. CASE UNCHANGED vars
    BY <2>5, QuietKeepsData DEF vars, rowVars, ProcessOK
  <2> QED BY <2>1, <2>2, <2>3, <2>4, <2>5 DEF Next
<1> QED BY <1>1, <1>2, PTL DEF Spec

(***************************************************************************)
(* Safety, on top of the types. Each step of a process has one of four     *)
(* shapes: it advances the run, it continues without touching the row, it  *)
(* finishes, or it stays outside.                                          *)
(***************************************************************************)
\* Two states of a process that hold the same budgets and sequence.
SameCounters(d, e) ==
    /\ d.impl = e.impl /\ d.impl0 = e.impl0
    /\ d.cycles = e.cycles /\ d.cycles0 = e.cycles0
    /\ d.seq = e.seq

\* Only p's state changes.
OthersKept(p) == \A q \in Procs : q # p => drv'[q] = drv[q]

LEMMA AdvanceFields ==
  ASSUME ProcessOK, NEW p \in Procs, NEW d \in DriverState, NEW to \in RunStages,
         NEW pc \in PCs, Advance(p, d, to, pc)
  PROVE  /\ drv'[p].pc = pc /\ drv'[p].stage = to
         /\ SameCounters(drv'[p], d)
         /\ OthersKept(p)
<1>1. drv'[p] = [d EXCEPT !.stage = to, !.pc = pc] /\ OthersKept(p)
  BY DEF ProcessOK, Advance, OthersKept
<1>2. DEFINE e == [d EXCEPT !.stage = to, !.pc = pc]
<1>3. e.pc = pc /\ e.stage = to /\ SameCounters(e, d)
  BY DEF SameCounters, DriverState
<1> QED BY <1>1, <1>3

LEMMA ContinueFields ==
  ASSUME ProcessOK, NEW p \in Procs, NEW d \in DriverState, NEW pc \in PCs,
         Continue(p, d, pc)
  PROVE  /\ drv'[p].pc = pc /\ drv'[p].stage = d.stage
         /\ SameCounters(drv'[p], d)
         /\ OthersKept(p)
<1>1. drv'[p] = [d EXCEPT !.pc = pc] /\ OthersKept(p)
  BY DEF ProcessOK, Continue, OthersKept
<1>2. DEFINE e == [d EXCEPT !.pc = pc]
<1>3. e.pc = pc /\ e.stage = d.stage /\ SameCounters(e, d)
  BY DEF SameCounters, DriverState
<1> QED BY <1>1, <1>3

LEMMA FinishFields ==
  ASSUME ProcessOK, NEW p \in Procs, NEW to, Finish(p, to)
  PROVE  drv'[p] = Idle /\ OthersKept(p)
BY DEF ProcessOK, Finish, OthersKept

(***************************************************************************)
(* What a step of p does to the stage and to p's hold on the run.          *)
(***************************************************************************)
Owns(p) == Driving(p) /\ drv[p].stage = stage

\* p advances the run, works on, lets go of the run, or stays outside.
Moves(p) ==
    /\ OthersKept(p)
    /\ \/ stage = drv[p].stage /\ Owns(p)'
       \/ stage' = stage /\ Driving(p)' /\ drv'[p].stage = drv[p].stage
       \/ stage = drv[p].stage /\ stage' \notin WorkingStages
       \/ ~Driving(p) /\ stage' = stage
       \/ ~Driving(p) /\ stage = drv[p].listed /\ stage' = "FAILED"

LEMMA AdvanceMoves ==
  ASSUME ProcessOK, NEW p \in Procs, NEW d \in DriverState, d.stage = drv[p].stage,
         NEW to \in RunStages, NEW pc \in PCs \ Outside, Advance(p, d, to, pc)
  PROVE  Moves(p)
<1>1. drv'[p].pc = pc /\ drv'[p].stage = to /\ OthersKept(p)
  BY AdvanceFields
<1>2. stage = drv[p].stage /\ stage' = to
  BY DEF Advance, CompareAndSet
<1>3. Owns(p)'
  BY <1>1, <1>2 DEF Owns, Driving
<1> QED BY <1>1, <1>2, <1>3 DEF Moves

LEMMA ContinueMoves ==
  ASSUME ProcessOK, NEW p \in Procs, NEW d \in DriverState, d.stage = drv[p].stage,
         NEW pc \in PCs \ Outside, Continue(p, d, pc)
  PROVE  Moves(p)
BY ZenonT(40), ContinueFields DEF Moves, Driving, Continue, rowVars

LEMMA FinishMoves ==
  ASSUME ProcessOK, NEW p \in Procs, NEW to, to \notin WorkingStages, Finish(p, to)
  PROVE  Moves(p)
BY FinishFields DEF Moves, Finish, CompareAndSet

LEMMA InsidePCs ==
  PCs \ Outside =
    {"start", "readiness", "frozen", "workspace", "setup",
     "implement", "implementing", "implemented", "verify", "hash",
     "review", "reviewing", "reviewed", "accept", "accepting", "accepted",
     "correct", "publish", "checkTree", "commit", "recordCommit", "push", "findPr",
     "createPr", "recordPr", "findComment", "createComment", "recordComment", "prOpen"}
BY DEF PCs, Outside

LEMMA QuietStages ==
  /\ "BLOCKED" \notin WorkingStages /\ "NEEDS_REFINEMENT" \notin WorkingStages
  /\ "FAILED" \notin WorkingStages /\ "PR_OPEN" \notin WorkingStages
  /\ "CANCELLED" \notin WorkingStages
BY DEF WorkingStages

\* The states of p that the steps with a changed budget or sequence compute.
LEMMA ChangedDrivers ==
  ASSUME ProcessOK, DataOK, NEW p \in Procs
  PROVE  LET d == drv[p]
         IN  /\ [d EXCEPT !.impl = @ + 1, !.verified = None, !.reviewed = None,
                          !.accepted = None] \in DriverState
             /\ [d EXCEPT !.seq = @ + 1] \in DriverState
             /\ [d EXCEPT !.seq = @ + 1, !.reviewed = tree] \in DriverState
             /\ [d EXCEPT !.seq = @ + 1, !.accepted = tree] \in DriverState
             /\ [d EXCEPT !.verified = tree] \in DriverState
             /\ Seeded(d) \in DriverState
<1>1. drv[p].impl + 1 \in Nat /\ drv[p].seq + 1 \in Nat /\ drv[p] \in DriverState
  BY DriverFacts DEF DriverState
<1>2. tree \in Trees
  BY DataTypes
<1>3. [drv[p] EXCEPT !.verified = tree] \in DriverState
  BY <1>1, <1>2 DEF DriverState
<1>4. [drv[p] EXCEPT !.seq = @ + 1] \in DriverState
  BY <1>1 DEF DriverState
<1> QED BY <1>1, <1>2, <1>3, <1>4, LaunchedIsDriver, ReturnedIsDriver, SeededIsDriver

LEMMA RequestCorrectionMoves ==
  ASSUME ProcessOK, NEW p \in Procs, NEW at \in CycleStages, RequestCorrection(p, at)
  PROVE  Moves(p)
<1> DEFINE Spent(f) == [drv[p] EXCEPT !.seen = @ \cup {<<at, f>>}, !.cycles = @ + 1]
<1>1. PICK f \in Findings :
        \/ Advance(p, Spent(f), "CORRECTION", "correct")
        \/ Finish(p, "BLOCKED")
  BY DEF RequestCorrection
<1>2. Spent(f) \in DriverState /\ Spent(f).stage = drv[p].stage
  <2>1. drv[p].seen \cup {<<at, f>>} \in SUBSET Fingerprints /\ drv[p].cycles + 1 \in Nat
    BY DriverFacts DEF DriverState, Fingerprints
  <2>2. Spent(f).stage = drv[p].stage
    BY DriverFacts DEF DriverState
  <2> QED BY <2>1, <2>2, DriverFacts, SpentIsDriver
<1>3. CASE Advance(p, Spent(f), "CORRECTION", "correct")
  <2> HIDE DEF Spent
  <2> QED BY <1>2, <1>3, Names, InsidePCs, AdvanceMoves
<1>4. CASE Finish(p, "BLOCKED")
  BY <1>4, QuietStages, FinishMoves
<1> QED BY <1>1, <1>3, <1>4

LEMMA FinishVerificationMoves ==
  ASSUME ProcessOK, DataOK, NEW p \in Procs, FinishVerification(p)
  PROVE  Moves(p)
<1> DEFINE d == [drv[p] EXCEPT !.verified = tree]
           Spent(f) == [d EXCEPT !.seen = @ \cup {<<"VERIFICATION", f>>}]
<1>1. d \in DriverState /\ d.stage = drv[p].stage
  BY DriverFacts, ChangedDrivers DEF DriverState
<1>2. ASSUME NEW f \in Findings
      PROVE  Spent(f) \in DriverState /\ Spent(f).stage = drv[p].stage
  <2>1. d.seen \cup {<<"VERIFICATION", f>>} \in SUBSET Fingerprints
    BY <1>1 DEF DriverState, Fingerprints, AttemptStages
  <2>2. Spent(f).stage = d.stage
    BY <1>1 DEF DriverState
  <2> HIDE DEF d
  <2> QED BY <1>1, <2>1, <2>2, SeenIsDriver
<1>3. \/ Continue(p, d, "review")
      \/ \E f \in Findings : Advance(p, Spent(f), "IMPLEMENTATION", "implement")
      \/ Finish(p, "BLOCKED")
  BY DEF FinishVerification
<1> HIDE DEF d, Spent
<1>4. CASE Continue(p, d, "review")
  BY <1>1, <1>4, InsidePCs, ContinueMoves
<1>5. CASE \E f \in Findings : Advance(p, Spent(f), "IMPLEMENTATION", "implement")
  BY <1>2, <1>5, Names, InsidePCs, AdvanceMoves
<1>6. CASE Finish(p, "BLOCKED")
  BY <1>6, QuietStages, FinishMoves
<1> QED BY <1>3, <1>4, <1>5, <1>6

LEMMA PipelineMoves ==
  ASSUME ProcessOK, DataOK, NEW p \in Procs,
         \/ BeginReadiness(p) \/ FreezeSnapshot(p) \/ FinishReadiness(p)
         \/ CreateWorkspace(p) \/ FinishSetup(p)
         \/ LaunchImplementer(p) \/ ImplementerReturns(p) \/ HandleImplementerResult(p)
         \/ RunVerificationCommands(p)
         \/ BeginReview(p) \/ ReviewerReturns(p) \/ HandleReview(p)
         \/ BeginAcceptance(p) \/ VerifierReturns(p) \/ HandleAcceptance(p)
         \/ ReenterImplementation(p)
  PROVE  Moves(p)
<1> USE DriverFacts, Names, InsidePCs, QuietStages
<1>1. CASE BeginReadiness(p)
  BY <1>1, AdvanceMoves DEF BeginReadiness
<1>2. CASE FreezeSnapshot(p) \/ FinishReadiness(p)
  BY <1>2, AdvanceMoves, ContinueMoves, FinishMoves DEF FreezeSnapshot, FinishReadiness, Go
<1>3. CASE CreateWorkspace(p)
  BY <1>3, ContinueMoves DEF CreateWorkspace, Go
<1>4. CASE FinishSetup(p)
  BY <1>4, AdvanceMoves, FinishMoves DEF FinishSetup
<1>5. CASE LaunchImplementer(p)
  <2> DEFINE d == [drv[p] EXCEPT !.impl = @ + 1, !.verified = None, !.reviewed = None,
                                 !.accepted = None]
  <2>1. d \in DriverState /\ d.stage = drv[p].stage
    BY ChangedDrivers DEF DriverState
  <2>2. Continue(p, d, "implementing")
    BY <1>5 DEF LaunchImplementer
  <2> HIDE DEF d
  <2> QED BY <2>1, <2>2, ContinueMoves
<1>6. CASE ImplementerReturns(p)
  <2> DEFINE d == [drv[p] EXCEPT !.seq = @ + 1]
  <2>1. d \in DriverState /\ d.stage = drv[p].stage
    BY ChangedDrivers DEF DriverState
  <2>2. Continue(p, d, "implemented")
    BY <1>6 DEF ImplementerReturns
  <2> HIDE DEF d
  <2> QED BY <2>1, <2>2, ContinueMoves
<1>7. CASE HandleImplementerResult(p)
  BY <1>7, AdvanceMoves, FinishMoves DEF HandleImplementerResult
<1>8. CASE RunVerificationCommands(p)
  BY <1>8, ContinueMoves DEF RunVerificationCommands, Go
<1>9. CASE BeginReview(p)
  BY <1>9, AdvanceMoves DEF BeginReview
<1>10. CASE ReviewerReturns(p)
  <2> DEFINE d == [drv[p] EXCEPT !.seq = @ + 1, !.reviewed = tree]
  <2>1. d \in DriverState /\ d.stage = drv[p].stage
    BY ChangedDrivers DEF DriverState
  <2>2. Continue(p, d, "reviewed")
    BY <1>10 DEF ReviewerReturns
  <2> HIDE DEF d
  <2> QED BY <2>1, <2>2, ContinueMoves
<1>11. CASE HandleReview(p)
  BY <1>11, ContinueMoves, RequestCorrectionMoves, FinishMoves
  DEF HandleReview, RejectOutright, Go, CycleStages
<1>12. CASE BeginAcceptance(p)
  BY <1>12, AdvanceMoves DEF BeginAcceptance
<1>13. CASE VerifierReturns(p)
  <2> DEFINE d == [drv[p] EXCEPT !.seq = @ + 1, !.accepted = tree]
  <2>1. d \in DriverState /\ d.stage = drv[p].stage
    BY ChangedDrivers DEF DriverState
  <2>2. Continue(p, d, "accepted")
    BY <1>13 DEF VerifierReturns
  <2> HIDE DEF d
  <2> QED BY <2>1, <2>2, ContinueMoves
<1>14. CASE HandleAcceptance(p)
  BY <1>14, ContinueMoves, RequestCorrectionMoves, FinishMoves
  DEF HandleAcceptance, RejectOutright, Go, CycleStages
<1>15. CASE ReenterImplementation(p)
  BY <1>15, AdvanceMoves DEF ReenterImplementation
<1> QED
  BY <1>1, <1>2, <1>3, <1>4, <1>5, <1>6, <1>7, <1>8, <1>9, <1>10, <1>11, <1>12, <1>13,
     <1>14, <1>15

LEMMA PublicationMoves ==
  ASSUME ProcessOK, NEW p \in Procs,
         \/ CheckIssue(p) \/ CheckTree(p) \/ Commit(p) \/ RecordCommit(p) \/ Push(p)
         \/ FindPullRequest(p) \/ CreatePullRequest(p) \/ RecordPullRequest(p)
         \/ FindComment(p) \/ CreateComment(p) \/ RecordComment(p) \/ OpenPr(p)
  PROVE  Moves(p)
<1> USE DriverFacts, Names, InsidePCs, QuietStages
<1>1. CASE CheckIssue(p)
  BY <1>1, AdvanceMoves, FinishMoves DEF CheckIssue
<1>2. CASE OpenPr(p)
  BY <1>2, FinishMoves DEF OpenPr
<1>3. CASE \E pc \in PCs \ Outside : Go(p, pc)
  BY <1>3, ContinueMoves DEF Go
<1>4. CASE CheckTree(p) \/ Commit(p) \/ RecordCommit(p) \/ Push(p)
  BY <1>3, <1>4 DEF CheckTree, Commit, RecordCommit, Push
<1>5. CASE FindPullRequest(p) \/ CreatePullRequest(p) \/ RecordPullRequest(p)
  BY <1>3, <1>5 DEF FindPullRequest, CreatePullRequest, RecordPullRequest
<1>6. CASE FindComment(p) \/ CreateComment(p) \/ RecordComment(p)
  BY <1>3, <1>6 DEF FindComment, CreateComment, RecordComment
<1> QED BY <1>1, <1>2, <1>4, <1>5, <1>6

LEMMA OutsideMoves ==
  ASSUME ProcessOK, DataOK, NEW p \in Procs,
         BeginResumed(p) \/ RefuseResume(p) \/ ResumeListed(p) \/ MarkFailed(p) \/ Takeover(p)
  PROVE  Moves(p)
<1>1. CASE BeginResumed(p)
  <2>1. Seeded(drv[p]) \in DriverState /\ Seeded(drv[p]).stage = drv[p].stage
    BY DriverFacts, ChangedDrivers DEF Seeded, DriverState
  <2>2. \/ Advance(p, Seeded(drv[p]), "IMPLEMENTATION", "implement")
        \/ Advance(p, Seeded(drv[p]), "VERIFICATION", "verify")
    BY <1>1 DEF BeginResumed
  <2> QED BY <2>1, <2>2, Names, InsidePCs, AdvanceMoves
<1>2. CASE RefuseResume(p)
  BY <1>2 DEF RefuseResume, Moves, OthersKept, Driving, Outside, ProcessOK, rowVars
<1>3. CASE ResumeListed(p)
  BY <1>3 DEF ResumeListed, LoadRun, Moves, OthersKept, Driving, Outside, At, ProcessOK, rowVars
<1>4. CASE MarkFailed(p)
  BY <1>4 DEF MarkFailed, Moves, OthersKept, Driving, Outside, At, ProcessOK
<1>5. CASE Takeover(p)
  BY <1>5 DEF Takeover, Resume, ListNonterminal, LoadRun, Moves, OthersKept, Driving, Outside,
              At, ProcessOK, rowVars
<1> QED BY <1>1, <1>2, <1>3, <1>4, <1>5

LEMMA WorkMoves ==
  ASSUME ProcessOK, DataOK, NEW p \in Procs, Work(p) \/ Takeover(p)
  PROVE  Moves(p)
BY PipelineMoves, FinishVerificationMoves, PublicationMoves, OutsideMoves DEF Work

(***************************************************************************)
(* PR_OPEN, NEEDS_REFINEMENT and CANCELLED are final: no process believes  *)
(* the run to be in one of them, and the compare-and-set moves the run     *)
(* only out of the stage a process believes in.                            *)
(***************************************************************************)
FinalStages == {"PR_OPEN", "NEEDS_REFINEMENT", "CANCELLED"}

LEMMA NobodyHoldsFinal ==
  ASSUME ProcessOK, NEW p \in Procs
  PROVE  drv[p].stage \notin FinalStages /\ drv[p].listed \notin FinalStages
<1>1. FinalStages \subseteq TerminalStages /\ None \notin FinalStages
  BY NoneIsNoStage DEF FinalStages, TerminalStages, RunStages
<1> QED
  BY <1>1, DriverFacts DEF Believes, FinalStages, ResumableStages

LEMMA FinalStagesKept ==
  ASSUME TypeOK, Next, stage \in FinalStages
  PROVE  stage' = stage
<1> USE DEF TypeOK
<1>1. ASSUME NEW p \in Procs, Work(p) \/ Takeover(p) PROVE stage' = stage
  BY <1>1, WorkMoves, NobodyHoldsFinal DEF Moves
<1>2. ASSUME NEW p \in Procs, Fault(p) PROVE stage' = stage
  BY <1>2, NobodyHoldsFinal DEF Fault, Throw, FailClosed, ThrowWhileBusy, Crash, rowVars
<1>3. CASE Environment
  BY <1>3 DEF Environment, Abandon, EditWorktree, EditIssue, RivalStarts, RivalEnds,
              rowVars, FinalStages, TerminalStages
<1> QED BY <1>1, <1>2, <1>3 DEF Next

\* A finished, refused or cancelled run stays so, whatever the processes
\* that still believe they drive it do.
THEOREM FinalForEver == Spec => FinalStagesAreFinal
<1>1. TypeOK /\ [Next]_vars =>
        [(stage \in {"PR_OPEN", "NEEDS_REFINEMENT", "CANCELLED"}) => stage' = stage]_vars
  BY FinalStagesKept DEF FinalStages, vars, rowVars
<1> QED BY <1>1, TypeCorrect, PTL DEF Spec, FinalStagesAreFinal

(***************************************************************************)
(* Whoever moves the run into a working stage drives it from there, and    *)
(* whoever stops driving it has moved it out of the working stages, unless *)
(* it was killed or its write was refused.                                 *)
(***************************************************************************)
LEMMA OwnerKept ==
  ASSUME NEW p \in Procs, NEW q \in Procs, q # p, OthersKept(p), Owns(q), stage' = stage
  PROVE  Owns(q)'
BY DEF OthersKept, Owns, Driving

LEMMA MovesKeepOwner ==
  ASSUME NEW p \in Procs, Moves(p), stage \in WorkingStages => \E q \in Procs : Owns(q)
  PROVE  stage' \in WorkingStages => \E q \in Procs : Owns(q)'
<1> SUFFICES ASSUME stage' \in WorkingStages PROVE \E q \in Procs : Owns(q)'
  OBVIOUS
<1>1. CASE Owns(p)'
  BY <1>1
<1>2. CASE ~Owns(p)'
  <2>1. stage' = stage /\ OthersKept(p) /\ ~Owns(p)
    BY <1>2, QuietStages DEF Moves, Owns, Driving
  <2> QED BY <2>1, OwnerKept
<1> QED BY <1>1, <1>2

LEMMA WorkKeepsFaults ==
  ASSUME NEW p, Work(p)
  PROVE  UNCHANGED faultVars
BY DEF Work, BeginReadiness, FreezeSnapshot, FinishReadiness, CreateWorkspace, FinishSetup,
       LaunchImplementer, ImplementerReturns, HandleImplementerResult,
       RunVerificationCommands, FinishVerification, BeginReview, ReviewerReturns,
       HandleReview, BeginAcceptance, VerifierReturns, HandleAcceptance,
       ReenterImplementation, CheckIssue, CheckTree, Commit, RecordCommit, Push,
       FindPullRequest, CreatePullRequest, RecordPullRequest, FindComment,
       CreateComment, RecordComment, OpenPr, BeginResumed, RefuseResume,
       ResumeListed, MarkFailed

LEMMA FaultsCounted ==
  ASSUME TypeOK, Next
  PROVE  /\ crashes' \in {crashes, crashes + 1}
         /\ busy' \in {busy, busy + 1}
<1>1. ASSUME NEW p \in Procs, Work(p)
      PROVE  crashes' = crashes /\ busy' = busy
  BY <1>1, WorkKeepsFaults DEF faultVars
<1>2. ASSUME NEW p \in Procs, Fault(p) \/ Takeover(p)
      PROVE  crashes' \in {crashes, crashes + 1} /\ busy' \in {busy, busy + 1}
  BY <1>2 DEF Fault, Throw, ThrowWhileBusy, Crash, Takeover, Resume, ListNonterminal, faultVars
<1>3. CASE Environment
  BY <1>3 DEF Environment, Abandon, EditWorktree, EditIssue, RivalStarts, RivalEnds, faultVars
<1> QED BY <1>1, <1>2, <1>3 DEF Next

LEMMA OwnerNext ==
  ASSUME TypeOK, NoOrphanedRun, Next
  PROVE  NoOrphanedRun'
<1> USE DEF TypeOK
<1> DEFINE Owned == stage \in WorkingStages => \E q \in Procs : Owns(q)
<1>1. CASE crashes > 0 \/ busy > 0
  BY <1>1, FaultsCounted DEF NoOrphanedRun, DataOK
<1>2. CASE Owned
  <2>1. ASSUME NEW p \in Procs, Work(p) \/ Takeover(p) PROVE Owned'
    BY <1>2, <2>1, WorkMoves, MovesKeepOwner
  <2>2. ASSUME NEW p \in Procs, Throw(p) PROVE Owned'
    <3>1. OthersKept(p)
      BY <2>2 DEF Throw, FailClosed, OthersKept, ProcessOK
    <3>2. CASE stage = drv[p].stage
      BY <2>2, <3>2, QuietStages DEF Throw, FailClosed
    <3>3. CASE stage # drv[p].stage
      <4>1. stage' = stage /\ ~Owns(p)
        BY <2>2, <3>3 DEF Throw, FailClosed, rowVars, Owns
      <4> QED BY <1>2, <3>1, <4>1, OwnerKept
    <3> QED BY <3>2, <3>3
  <2>3. ASSUME NEW p \in Procs, ThrowWhileBusy(p) \/ Crash(p)
        PROVE  crashes' > 0 \/ busy' > 0
    BY <2>3 DEF ThrowWhileBusy, Crash, DataOK
  <2>4. ASSUME Environment PROVE Owned'
    <3>1. CASE Abandon
      BY <3>1, QuietStages DEF Abandon
    <3>2. CASE UNCHANGED <<stage, drv>>
      BY <1>2, <3>2 DEF Owns, Driving
    <3> QED
      BY <2>4, <3>1, <3>2
      DEF Environment, EditWorktree, EditIssue, RivalStarts, RivalEnds, rowVars
  <2>5. Owned' => NoOrphanedRun'
    BY DEF Owns, NoOrphanedRun
  <2>6. crashes' > 0 \/ busy' > 0 => NoOrphanedRun'
    BY DEF NoOrphanedRun
  <2> HIDE DEF Owned
  <2> QED BY <2>1, <2>2, <2>3, <2>4, <2>5, <2>6 DEF Next, Fault
<1> QED BY <1>1, <1>2 DEF NoOrphanedRun, Owns

\* A run in a working stage has a process working on it that believes in
\* that stage, unless one was killed or the catch could not write.
THEOREM NeverOrphaned == Spec => []NoOrphanedRun
<1>1. Init => NoOrphanedRun
  <2> SUFFICES ASSUME Init PROVE NoOrphanedRun
    OBVIOUS
  <2>1. PICK p \in Procs :
          drv = [q \in Procs |->
                  IF q = p THEN [Idle EXCEPT !.pc = "start", !.stage = "PREFLIGHT"]
                           ELSE Idle]
    BY DEF Init
  <2>2. drv[p].pc = "start" /\ drv[p].stage = "PREFLIGHT"
    BY <2>1 DEF Idle
  <2>3. stage = "PREFLIGHT"
    BY DEF Init
  <2> QED BY <2>2, <2>3 DEF NoOrphanedRun, Driving, Outside
<1>2. TypeOK /\ NoOrphanedRun /\ [Next]_vars => NoOrphanedRun'
  <2>1. CASE Next
    BY <2>1, OwnerNext
  <2>2. CASE UNCHANGED vars
    BY <2>2 DEF vars, rowVars, faultVars, NoOrphanedRun, Driving
  <2> QED BY <2>1, <2>2
<1> QED BY <1>1, <1>2, TypeCorrect, PTL DEF Spec

(***************************************************************************)
(* Budgets and attempt numbers. Most steps leave a process's counters      *)
(* alone; six actions change them.                                         *)
(***************************************************************************)
\* Standing here a process has the launch of an implementer before it.
Launching == {"start", "readiness", "frozen", "workspace", "setup", "implement", "correct"}

\* p keeps its counters, and has no new launch before it, or stops driving.
Unspent(p) ==
    Driving(p)' =>
      /\ Driving(p)
      /\ SameCounters(drv'[p], drv[p])
      /\ drv'[p].pc \in Launching => drv[p].pc \in Launching

LEMMA AdvanceUnspent ==
  ASSUME ProcessOK, NEW p \in Procs, Driving(p), NEW to \in RunStages, NEW pc \in PCs,
         pc \in Launching => drv[p].pc \in Launching, Advance(p, drv[p], to, pc)
  PROVE  Unspent(p)
BY DriverFacts, AdvanceFields DEF Unspent

LEMMA ContinueUnspent ==
  ASSUME ProcessOK, NEW p \in Procs, Driving(p), NEW pc \in PCs,
         pc \in Launching => drv[p].pc \in Launching, Go(p, pc)
  PROVE  Unspent(p)
BY DriverFacts, ContinueFields DEF Unspent, Go

LEMMA FinishUnspent ==
  ASSUME ProcessOK, NEW p \in Procs, NEW to, Finish(p, to)
  PROVE  Unspent(p)
BY FinishFields DEF Unspent, Driving, Outside, Idle

LEMMA PlainUnspent ==
  ASSUME ProcessOK, NEW p \in Procs,
         \/ BeginReadiness(p) \/ FreezeSnapshot(p) \/ FinishReadiness(p)
         \/ CreateWorkspace(p) \/ FinishSetup(p)
         \/ HandleImplementerResult(p) \/ RunVerificationCommands(p)
         \/ BeginReview(p) \/ BeginAcceptance(p) \/ ReenterImplementation(p)
         \/ CheckIssue(p) \/ OpenPr(p)
  PROVE  Unspent(p)
<1> USE Names, InsidePCs
<1>1. CASE BeginReadiness(p)
  BY <1>1, AdvanceUnspent DEF BeginReadiness, At, Driving, Launching, Outside
<1>2. CASE FreezeSnapshot(p) \/ FinishReadiness(p)
  BY <1>2, AdvanceUnspent, ContinueUnspent, FinishUnspent
  DEF FreezeSnapshot, FinishReadiness, At, Driving, Launching, Outside
<1>3. CASE CreateWorkspace(p)
  BY <1>3, ContinueUnspent DEF CreateWorkspace, At, Driving, Launching, Outside
<1>4. CASE FinishSetup(p)
  BY <1>4, AdvanceUnspent, FinishUnspent DEF FinishSetup, At, Driving, Launching, Outside
<1>5. CASE HandleImplementerResult(p)
  BY <1>5, AdvanceUnspent, FinishUnspent
  DEF HandleImplementerResult, At, Driving, Launching, Outside
<1>6. CASE RunVerificationCommands(p)
  BY <1>6, ContinueUnspent DEF RunVerificationCommands, At, Driving, Launching, Outside
<1>7. CASE BeginReview(p)
  BY <1>7, AdvanceUnspent DEF BeginReview, At, Driving, Launching, Outside
<1>8. CASE BeginAcceptance(p)
  BY <1>8, AdvanceUnspent DEF BeginAcceptance, At, Driving, Launching, Outside
<1>9. CASE ReenterImplementation(p)
  BY <1>9, AdvanceUnspent DEF ReenterImplementation, At, Driving, Launching, Outside
<1>10. CASE CheckIssue(p)
  BY <1>10, AdvanceUnspent, FinishUnspent DEF CheckIssue, At, Driving, Launching, Outside
<1>11. CASE OpenPr(p)
  BY <1>11, FinishUnspent DEF OpenPr
<1> QED BY <1>1, <1>2, <1>3, <1>4, <1>5, <1>6, <1>7, <1>8, <1>9, <1>10, <1>11

LEMMA PublishUnspent ==
  ASSUME ProcessOK, NEW p \in Procs,
         \/ CheckTree(p) \/ Commit(p) \/ RecordCommit(p) \/ Push(p)
         \/ FindPullRequest(p) \/ CreatePullRequest(p) \/ RecordPullRequest(p)
         \/ FindComment(p) \/ CreateComment(p) \/ RecordComment(p)
  PROVE  Unspent(p)
<1>1. CASE Driving(p) /\ \E pc \in (PCs \ Outside) \ Launching : Go(p, pc)
  BY <1>1, ContinueUnspent
<1>2. CASE CheckTree(p) \/ Commit(p) \/ RecordCommit(p) \/ Push(p)
  BY <1>1, <1>2, InsidePCs
  DEF CheckTree, Commit, RecordCommit, Push, At, Driving, Launching, Outside
<1>3. CASE FindPullRequest(p) \/ CreatePullRequest(p) \/ RecordPullRequest(p)
  BY <1>1, <1>3, InsidePCs
  DEF FindPullRequest, CreatePullRequest, RecordPullRequest, At, Driving, Launching, Outside
<1>4. CASE FindComment(p) \/ CreateComment(p) \/ RecordComment(p)
  BY <1>1, <1>4, InsidePCs
  DEF FindComment, CreateComment, RecordComment, At, Driving, Launching, Outside
<1> QED BY <1>2, <1>3, <1>4

\* Takeovers and faults leave p outside.
LEMMA OutsideUnspent ==
  ASSUME ProcessOK, NEW p \in Procs,
         RefuseResume(p) \/ ResumeListed(p) \/ MarkFailed(p) \/ Takeover(p) \/ Fault(p)
  PROVE  OthersKept(p) /\ ~Driving(p)'
<1>1. \A d \in AfterThrow(p) : d.pc \in Outside
  <2> SUFFICES ASSUME NEW d \in AfterThrow(p) PROVE d.pc \in Outside
    OBVIOUS
  <2>1. d = Idle \/ d = [Idle EXCEPT !.pc = "markFailed", !.listed = drv[p].listed]
    BY DEF AfterThrow
  <2>2. Idle \in DriverState /\ Idle.pc = "idle"
    BY IdleIsGood DEF GoodDriver, Idle
  <2>3. [Idle EXCEPT !.pc = "markFailed", !.listed = drv[p].listed].pc = "markFailed"
    BY <2>2 DEF DriverState
  <2> QED BY <2>1, <2>2, <2>3 DEF Outside
<1>2. CASE RefuseResume(p)
  BY <1>1, <1>2 DEF RefuseResume, OthersKept, Driving, ProcessOK
<1>3. CASE ResumeListed(p)
  BY ZenonT(40), <1>3 DEF ResumeListed, LoadRun, ResumeTarget, Idle, OthersKept, Driving,
       Outside, ProcessOK
<1>4. CASE MarkFailed(p)
  BY <1>4 DEF MarkFailed, Idle, OthersKept, Driving, Outside, ProcessOK
<1>5. CASE Takeover(p)
  BY ZenonT(40), <1>5 DEF Takeover, Resume, ListNonterminal, LoadRun, ResumeTarget, Idle,
              OthersKept, Driving, Outside, ProcessOK
<1>6. CASE Fault(p)
  <2>1. CASE Throw(p)
    BY <1>1, <2>1 DEF Throw, FailClosed, OthersKept, Driving, ProcessOK
  <2>2. CASE ThrowWhileBusy(p)
    BY <1>1, <2>2 DEF ThrowWhileBusy, OthersKept, Driving, ProcessOK
  <2>3. CASE Crash(p)
    BY <2>3 DEF Crash, Idle, OthersKept, Driving, Outside, ProcessOK
  <2> QED BY <1>6, <2>1, <2>2, <2>3 DEF Fault
<1> QED BY <1>2, <1>3, <1>4, <1>5, <1>6

\* A launch of the implementer: charged before the session starts.
LEMMA LaunchSpends ==
  ASSUME ProcessOK, DataOK, NEW p \in Procs, LaunchImplementer(p)
  PROVE  /\ OthersKept(p) /\ drv[p].pc = "implement" /\ drv'[p].pc = "implementing"
         /\ drv'[p].impl = drv[p].impl + 1 /\ drv'[p].impl0 = drv[p].impl0
         /\ drv'[p].cycles = drv[p].cycles /\ drv'[p].cycles0 = drv[p].cycles0
         /\ drv'[p].seq = drv[p].seq
<1> DEFINE d == [drv[p] EXCEPT !.impl = @ + 1, !.verified = None, !.reviewed = None,
                               !.accepted = None]
<1>1. /\ d \in DriverState /\ d.impl = drv[p].impl + 1 /\ d.impl0 = drv[p].impl0
      /\ d.cycles = drv[p].cycles /\ d.cycles0 = drv[p].cycles0 /\ d.seq = drv[p].seq
  BY DriverFacts, ChangedDrivers DEF DriverState
<1>2. Continue(p, d, "implementing") /\ drv[p].pc = "implement"
  BY DEF LaunchImplementer, At
<1> HIDE DEF d
<1> QED BY <1>1, <1>2, InsidePCs, ContinueFields DEF SameCounters

\* A session returned: its attempt is recorded and the sequence moves on.
Numbered(p) ==
    /\ OthersKept(p) /\ Driving(p) /\ drv'[p].pc \notin Launching
    /\ drv'[p].impl = drv[p].impl /\ drv'[p].impl0 = drv[p].impl0
    /\ drv'[p].cycles = drv[p].cycles /\ drv'[p].cycles0 = drv[p].cycles0
    /\ drv'[p].seq = drv[p].seq + 1
    /\ \E role \in Roles : RecordAttempt(drv[p], role)

LEMMA ReturnNumbers ==
  ASSUME ProcessOK, DataOK, NEW p \in Procs,
         ImplementerReturns(p) \/ ReviewerReturns(p) \/ VerifierReturns(p)
  PROVE  Numbered(p)
<1>1. CASE ImplementerReturns(p)
  <2> DEFINE d == [drv[p] EXCEPT !.seq = @ + 1]
  <2>1. /\ d \in DriverState /\ d.impl = drv[p].impl /\ d.impl0 = drv[p].impl0
        /\ d.cycles = drv[p].cycles /\ d.cycles0 = drv[p].cycles0 /\ d.seq = drv[p].seq + 1
    BY DriverFacts, ChangedDrivers DEF DriverState
  <2>2. Continue(p, d, "implemented") /\ drv[p].pc = "implementing"
    BY <1>1 DEF ImplementerReturns, At
  <2>3. \E role \in Roles : RecordAttempt(drv[p], role)
    BY <1>1 DEF ImplementerReturns, Roles
  <2> HIDE DEF d
  <2> QED
    BY <2>1, <2>2, <2>3, InsidePCs, ContinueFields
    DEF SameCounters, Numbered, Driving, Outside, Launching
<1>2. CASE ReviewerReturns(p)
  <2> DEFINE d == [drv[p] EXCEPT !.seq = @ + 1, !.reviewed = tree]
  <2>1. /\ d \in DriverState /\ d.impl = drv[p].impl /\ d.impl0 = drv[p].impl0
        /\ d.cycles = drv[p].cycles /\ d.cycles0 = drv[p].cycles0 /\ d.seq = drv[p].seq + 1
    BY DriverFacts, ChangedDrivers DEF DriverState
  <2>2. Continue(p, d, "reviewed") /\ drv[p].pc = "reviewing"
    BY <1>2 DEF ReviewerReturns, At
  <2>3. \E role \in Roles : RecordAttempt(drv[p], role)
    BY <1>2 DEF ReviewerReturns, Roles
  <2> HIDE DEF d
  <2> QED
    BY <2>1, <2>2, <2>3, InsidePCs, ContinueFields
    DEF SameCounters, Numbered, Driving, Outside, Launching
<1>3. CASE VerifierReturns(p)
  <2> DEFINE d == [drv[p] EXCEPT !.seq = @ + 1, !.accepted = tree]
  <2>1. /\ d \in DriverState /\ d.impl = drv[p].impl /\ d.impl0 = drv[p].impl0
        /\ d.cycles = drv[p].cycles /\ d.cycles0 = drv[p].cycles0 /\ d.seq = drv[p].seq + 1
    BY DriverFacts, ChangedDrivers DEF DriverState
  <2>2. Continue(p, d, "accepted") /\ drv[p].pc = "accepting"
    BY <1>3 DEF VerifierReturns, At
  <2>3. \E role \in Roles : RecordAttempt(drv[p], role)
    BY <1>3 DEF VerifierReturns, Roles
  <2> HIDE DEF d
  <2> QED
    BY <2>1, <2>2, <2>3, InsidePCs, ContinueFields
    DEF SameCounters, Numbered, Driving, Outside, Launching
<1> QED BY <1>1, <1>2, <1>3

\* Failed verification: another implementer session only while the attempts
\* budget lasts.
Retried(p) ==
    /\ Driving(p) /\ SameCounters(drv'[p], drv[p])
    /\ drv[p].impl < MaxAttempts

LEMMA VerificationSpends ==
  ASSUME ProcessOK, DataOK, NEW p \in Procs, FinishVerification(p)
  PROVE  OthersKept(p) /\ (Unspent(p) \/ Retried(p))
<1> DEFINE d == [drv[p] EXCEPT !.verified = tree]
           fp(f) == <<"VERIFICATION", f>>
           Spent(f) == [d EXCEPT !.seen = @ \cup {fp(f)}]
<1>0. Driving(p)
  BY DEF FinishVerification, At, Driving, Outside
<1>1. /\ d \in DriverState /\ SameCounters(d, drv[p])
      /\ d.impl = drv[p].impl /\ d.seen \in SUBSET Fingerprints
  BY DriverFacts, ChangedDrivers DEF DriverState, SameCounters
<1>2. ASSUME NEW f \in Findings
      PROVE  Spent(f) \in DriverState /\ SameCounters(Spent(f), drv[p])
  <2>1. d.seen \cup {fp(f)} \in SUBSET Fingerprints
    BY <1>1 DEF Fingerprints, AttemptStages
  <2> HIDE DEF d
  <2>2. SameCounters(Spent(f), d)
    BY <1>1 DEF SameCounters, DriverState
  <2> QED BY <1>1, <2>1, <2>2, SeenIsDriver DEF SameCounters
<1>3. \/ Continue(p, d, "review")
      \/ \E f \in Findings : /\ RecordFailure(d.seen, d.impl, d.cycles, fp(f)) = "CONTINUE"
                             /\ Advance(p, Spent(f), "IMPLEMENTATION", "implement")
      \/ Finish(p, "BLOCKED")
  BY DEF FinishVerification
<1> HIDE DEF d, Spent
<1>4. CASE Continue(p, d, "review")
  BY <1>0, <1>1, <1>4, InsidePCs, ContinueFields DEF Unspent, SameCounters, Launching
<1>5. CASE \E f \in Findings : /\ RecordFailure(d.seen, d.impl, d.cycles, fp(f)) = "CONTINUE"
                               /\ Advance(p, Spent(f), "IMPLEMENTATION", "implement")
  <2>1. PICK f \in Findings : /\ RecordFailure(d.seen, d.impl, d.cycles, fp(f)) = "CONTINUE"
                              /\ Advance(p, Spent(f), "IMPLEMENTATION", "implement")
    BY <1>5
  <2>2. SameCounters(drv'[p], drv[p]) /\ OthersKept(p)
    BY <1>2, <2>1, Names, InsidePCs, AdvanceFields DEF SameCounters
  <2>3. ~(d.impl >= MaxAttempts)
    BY <2>1 DEF RecordFailure, AttemptStages
  <2>4. drv[p].impl \in Nat
    BY DriverFacts DEF DriverState
  <2>5. drv[p].impl < MaxAttempts
    BY <1>1, <2>3, <2>4, BudgetAssumption
  <2> QED BY <1>0, <2>2, <2>5 DEF Retried
<1>6. CASE Finish(p, "BLOCKED")
  BY <1>6, FinishFields, FinishUnspent
<1> QED BY <1>3, <1>4, <1>5, <1>6

\* A correction cycle: charged when it is granted.
Corrected(p) ==
    /\ Driving(p) /\ drv[p].cycles < MaxCycles
    /\ drv'[p].cycles = drv[p].cycles + 1 /\ drv'[p].cycles0 = drv[p].cycles0
    /\ drv'[p].impl = drv[p].impl /\ drv'[p].impl0 = drv[p].impl0
    /\ drv'[p].seq = drv[p].seq

LEMMA CorrectionSpends ==
  ASSUME ProcessOK, NEW p \in Procs, NEW at \in CycleStages, RequestCorrection(p, at),
         Driving(p)
  PROVE  OthersKept(p) /\ (Unspent(p) \/ Corrected(p))
<1> DEFINE fp(f) == <<at, f>>
           Spent(f) == [drv[p] EXCEPT !.seen = @ \cup {fp(f)}, !.cycles = @ + 1]
<1>1. PICK f \in Findings :
        \/ /\ RecordFailure(drv[p].seen, drv[p].impl, drv[p].cycles, fp(f)) = "CONTINUE"
           /\ Advance(p, Spent(f), "CORRECTION", "correct")
        \/ Finish(p, "BLOCKED")
  BY DEF RequestCorrection
<1>2. /\ Spent(f) \in DriverState
      /\ Spent(f).cycles = drv[p].cycles + 1 /\ Spent(f).cycles0 = drv[p].cycles0
      /\ Spent(f).impl = drv[p].impl /\ Spent(f).impl0 = drv[p].impl0
      /\ Spent(f).seq = drv[p].seq
  <2>1. drv[p].seen \cup {fp(f)} \in SUBSET Fingerprints /\ drv[p].cycles + 1 \in Nat
    BY DriverFacts DEF DriverState, Fingerprints
  <2>2. /\ Spent(f).cycles = drv[p].cycles + 1 /\ Spent(f).cycles0 = drv[p].cycles0
        /\ Spent(f).impl = drv[p].impl /\ Spent(f).impl0 = drv[p].impl0
        /\ Spent(f).seq = drv[p].seq
    BY DriverFacts DEF DriverState
  <2> QED BY <2>1, <2>2, DriverFacts, SpentIsDriver
<1>3. CASE /\ RecordFailure(drv[p].seen, drv[p].impl, drv[p].cycles, fp(f)) = "CONTINUE"
           /\ Advance(p, Spent(f), "CORRECTION", "correct")
  <2>1. ~(drv[p].cycles >= MaxCycles)
    BY <1>3 DEF RecordFailure, CycleStages
  <2>2. drv[p].cycles \in Nat
    BY DriverFacts DEF DriverState
  <2>3. drv[p].cycles < MaxCycles
    BY <2>1, <2>2, BudgetAssumption
  <2> HIDE DEF Spent
  <2>4. SameCounters(drv'[p], Spent(f)) /\ OthersKept(p)
    BY <1>2, <1>3, Names, InsidePCs, AdvanceFields
  <2> QED BY <1>2, <2>3, <2>4 DEF Corrected, SameCounters
<1>4. CASE Finish(p, "BLOCKED")
  BY <1>4, FinishFields, FinishUnspent
<1> QED BY <1>1, <1>3, <1>4

LEMMA JudgementSpends ==
  ASSUME ProcessOK, NEW p \in Procs, HandleReview(p) \/ HandleAcceptance(p)
  PROVE  OthersKept(p) /\ (Unspent(p) \/ Corrected(p))
<1>0. Driving(p)
  BY DEF HandleReview, HandleAcceptance, At, Driving, Outside
<1>1. CASE Go(p, "accept") \/ Go(p, "publish")
  BY <1>0, <1>1, InsidePCs, DriverFacts, ContinueFields, ContinueUnspent DEF Go, Launching
<1>2. CASE \E at \in CycleStages : RequestCorrection(p, at)
  BY <1>0, <1>2, CorrectionSpends
<1>3. CASE RejectOutright(p)
  BY <1>3, FinishFields, FinishUnspent DEF RejectOutright
<1> QED BY <1>1, <1>2, <1>3 DEF HandleReview, HandleAcceptance, CycleStages

\* A resume: counters and sequence taken from the recorded attempts.
Restarted(p) ==
    /\ drv'[p].impl0 \in Nat /\ drv'[p].cycles0 \in Nat
    /\ drv'[p].impl = drv'[p].impl0 /\ drv'[p].cycles = drv'[p].cycles0
    /\ drv'[p].seq = AttemptRows /\ attempts' = attempts

LEMMA ResumeRestarts ==
  ASSUME ProcessOK, DataOK, NEW p \in Procs, BeginResumed(p)
  PROVE  OthersKept(p) /\ Restarted(p)
<1> DEFINE d == Seeded(drv[p])
<1>1. d \in DriverState
  BY ChangedDrivers
<1>2. d.impl = d.impl0 /\ d.cycles = d.cycles0 /\ d.seq = AttemptRows
  BY DriverFacts DEF Seeded, DriverState
<1>3. d.impl0 \in Nat /\ d.cycles0 \in Nat
  BY <1>1 DEF DriverState
<1>4. \/ Advance(p, d, "IMPLEMENTATION", "implement")
      \/ Advance(p, d, "VERIFICATION", "verify")
  BY DEF BeginResumed
<1>5. attempts' = attempts
  BY DEF BeginResumed, logVars
<1> HIDE DEF d
<1>6. SameCounters(drv'[p], d) /\ OthersKept(p)
  BY <1>1, <1>4, Names, InsidePCs, AdvanceFields
<1> QED BY <1>2, <1>3, <1>5, <1>6 DEF SameCounters, Restarted

\* What the steps of a process do to its counters.
LEMMA WorkSpends ==
  ASSUME ProcessOK, DataOK, NEW p \in Procs, Work(p) \/ Takeover(p) \/ Fault(p)
  PROVE  /\ OthersKept(p)
         /\ \/ Unspent(p) \/ LaunchImplementer(p) \/ Numbered(p) \/ Retried(p)
            \/ Corrected(p) \/ Restarted(p)
<1>1. CASE Takeover(p) \/ Fault(p)
  BY <1>1, OutsideUnspent DEF Unspent
<1>2. CASE RefuseResume(p) \/ ResumeListed(p) \/ MarkFailed(p)
  BY <1>2, OutsideUnspent DEF Unspent
<1>3. CASE LaunchImplementer(p)
  BY <1>3, LaunchSpends
<1>4. CASE ImplementerReturns(p) \/ ReviewerReturns(p) \/ VerifierReturns(p)
  BY <1>4, ReturnNumbers DEF Numbered
<1>5. CASE FinishVerification(p)
  BY <1>5, VerificationSpends
<1>6. CASE HandleReview(p) \/ HandleAcceptance(p)
  BY <1>6, JudgementSpends
<1>7. CASE BeginResumed(p)
  BY <1>7, ResumeRestarts
<1>8. CASE Work(p)
  <2>1. OthersKept(p)
    BY <1>8, WorkMoves DEF Moves
  <2> QED
    BY <1>2, <1>3, <1>4, <1>5, <1>6, <1>7, <1>8, <2>1, PlainUnspent, PublishUnspent DEF Work
<1> QED BY <1>1, <1>8

(***************************************************************************)
(* Attempt numbers. The unique index makes RecordAttempt refuse a number   *)
(* that is taken; the sequence of a process never runs ahead of the rows.  *)
(***************************************************************************)
LEMMA RowsCounted == DataOK => AttemptRows \in Nat
BY DEF DataOK, AttemptRows, Roles

LEMMA RecordedRow ==
  ASSUME DataOK, NEW d, NEW role \in Roles, RecordAttempt(d, role)
  PROVE  AttemptRows' = AttemptRows + 1
<1>1. /\ attempts["implementer"] \in Nat /\ attempts["reviewer"] \in Nat
      /\ attempts["verifier"] \in Nat
  BY DEF DataOK, Roles
<1>2. \A r \in Roles : attempts'[r] = IF r = role THEN attempts[r] + 1 ELSE attempts[r]
  BY DEF RecordAttempt, DataOK
<1>3. /\ attempts'["implementer"] = IF role = "implementer" THEN attempts["implementer"] + 1
                                    ELSE attempts["implementer"]
      /\ attempts'["reviewer"] = IF role = "reviewer" THEN attempts["reviewer"] + 1
                                 ELSE attempts["reviewer"]
      /\ attempts'["verifier"] = IF role = "verifier" THEN attempts["verifier"] + 1
                                 ELSE attempts["verifier"]
  BY <1>2 DEF Roles
<1> QED BY <1>1, <1>3 DEF AttemptRows, Roles

LEMMA WorkKeepsRows ==
  ASSUME NEW p, Work(p)
  PROVE  \/ attempts' = attempts
         \/ \E role \in Roles : RecordAttempt(drv[p], role)
BY DEF Roles, logVars,
       Work, BeginReadiness, FreezeSnapshot, FinishReadiness, CreateWorkspace, FinishSetup,
       LaunchImplementer, ImplementerReturns, HandleImplementerResult,
       RunVerificationCommands, FinishVerification, BeginReview, ReviewerReturns,
       HandleReview, BeginAcceptance, VerifierReturns, HandleAcceptance,
       ReenterImplementation, CheckIssue, CheckTree, Commit, RecordCommit, Push,
       FindPullRequest, CreatePullRequest, RecordPullRequest, FindComment,
       CreateComment, RecordComment, OpenPr, BeginResumed, RefuseResume,
       ResumeListed, MarkFailed

LEMMA OthersKeepLog ==
  ASSUME (\E p \in Procs : Fault(p) \/ Takeover(p)) \/ Environment
  PROVE  UNCHANGED logVars
<1>1. ASSUME NEW p \in Procs, Fault(p) \/ Takeover(p) PROVE UNCHANGED logVars
  BY <1>1 DEF Fault, Throw, ThrowWhileBusy, Crash, Takeover, Resume, ListNonterminal
<1>2. CASE Environment
  BY <1>2 DEF Environment, Abandon, EditWorktree, EditIssue, RivalStarts, RivalEnds
<1> QED BY <1>1, <1>2

LEMMA RowsGrow ==
  ASSUME TypeOK, Next
  PROVE  AttemptRows' \in {AttemptRows, AttemptRows + 1}
<1> USE DEF TypeOK
<1>1. CASE attempts' = attempts
  BY <1>1 DEF AttemptRows
<1>2. ASSUME NEW p \in Procs, Work(p) PROVE AttemptRows' \in {AttemptRows, AttemptRows + 1}
  BY <1>1, <1>2, WorkKeepsRows, RecordedRow
<1>3. CASE (\E p \in Procs : Fault(p) \/ Takeover(p)) \/ Environment
  BY <1>1, <1>3, OthersKeepLog DEF logVars
<1> QED BY <1>2, <1>3 DEF Next

LEMMA EnvironmentKeepsDrivers ==
  ASSUME Environment
  PROVE  drv' = drv
BY DEF Environment, Abandon, EditWorktree, EditIssue, RivalStarts, RivalEnds

LEMMA NoGapNext ==
  ASSUME TypeOK, NoAttemptGap, Next
  PROVE  NoAttemptGap'
<1> USE DEF TypeOK
<1>0. AttemptRows \in Nat /\ AttemptRows' \in Nat /\ AttemptRows' >= AttemptRows
  BY RowsCounted, RowsGrow
<1>1. \A q \in Procs : drv[q].seq \in Nat
  BY DriverFacts DEF DriverState
<1>2. ASSUME NEW q \in Procs, drv'[q] = drv[q], Driving(q)'
      PROVE  drv'[q].seq <= AttemptRows'
  <2>1. drv[q].seq <= AttemptRows
    BY <1>2 DEF NoAttemptGap, Driving
  <2> QED BY <1>0, <1>1, <1>2, <2>1
<1>3. ASSUME NEW p \in Procs, Work(p) \/ Takeover(p) \/ Fault(p), Driving(p)'
      PROVE  drv'[p].seq <= AttemptRows'
  <2>1. Driving(p) => drv[p].seq <= AttemptRows
    BY DEF NoAttemptGap
  <2>2. CASE Unspent(p)
    BY <1>0, <1>1, <1>3, <2>1, <2>2 DEF Unspent, SameCounters
  <2>3. CASE LaunchImplementer(p)
    BY <1>0, <1>1, <2>1, <2>3, LaunchSpends DEF Driving, Outside
  <2>4. CASE Numbered(p)
    <3>1. AttemptRows' = AttemptRows + 1
      BY <2>4, RecordedRow DEF Numbered
    <3>2. drv'[p].seq = drv[p].seq + 1 /\ drv[p].seq <= AttemptRows
      BY <2>1, <2>4 DEF Numbered
    <3> QED BY <1>0, <1>1, <3>1, <3>2
  <2>5. CASE Retried(p) \/ Corrected(p)
    BY <1>0, <1>1, <2>1, <2>5 DEF Retried, Corrected, SameCounters
  <2>6. CASE Restarted(p)
    BY <1>0, <2>6 DEF Restarted
  <2> QED BY <1>3, <2>2, <2>3, <2>4, <2>5, <2>6, WorkSpends
<1>4. ASSUME NEW p \in Procs, Work(p) \/ Takeover(p) \/ Fault(p) PROVE NoAttemptGap'
  <2>1. OthersKept(p)
    BY <1>4, WorkSpends
  <2> QED BY <1>2, <1>3, <1>4, <2>1 DEF NoAttemptGap, OthersKept
<1>5. CASE Environment
  BY <1>2, <1>5, EnvironmentKeepsDrivers DEF NoAttemptGap
<1> QED BY <1>4, <1>5 DEF Next

\* The next attempt number of a live process was never skipped: recordAttempt
\* hands numbers out without gaps, whoever takes the run from whom.
THEOREM NumbersHaveNoGaps == Spec => []NoAttemptGap
<1>1. Init => NoAttemptGap
  <2> SUFFICES ASSUME Init, NEW p \in Procs PROVE drv[p].seq <= AttemptRows
    BY DEF NoAttemptGap
  <2>1. drv[p].seq = 0 /\ AttemptRows = 0
    BY DEF Init, Idle, AttemptRows, Roles
  <2> QED BY <2>1
<1>2. TypeOK /\ NoAttemptGap /\ [Next]_vars => NoAttemptGap'
  <2>1. CASE Next
    BY <2>1, NoGapNext
  <2>2. CASE UNCHANGED vars
    BY <2>2 DEF vars, logVars, NoAttemptGap, AttemptRows, Driving
  <2> QED BY <2>1, <2>2
<1> QED BY <1>1, <1>2, TypeCorrect, PTL DEF Spec

(***************************************************************************)
(* Budgets. SessionsWithinBudget is not inductive: a process that is still *)
(* preparing the workspace has a session before it as well, and the cycles *)
(* never fall below those it was seeded with.                              *)
(***************************************************************************)
Ahead(d) == IF d.pc \in Launching THEN 1 ELSE 0

WithinBudget(d) ==
    /\ d.cycles0 <= d.cycles /\ d.cycles <= Larger(d.cycles0, MaxCycles)
    /\ d.impl + Ahead(d) <= Larger(d.impl0 + 1, MaxAttempts) + (d.cycles - d.cycles0)

BudgetInv == \A p \in Procs : Driving(p) => WithinBudget(drv[p])

LEMMA CounterTypes ==
  ASSUME ProcessOK, NEW p \in Procs
  PROVE  /\ drv[p].impl \in Nat /\ drv[p].impl0 \in Nat
         /\ drv[p].cycles \in Nat /\ drv[p].cycles0 \in Nat
BY DriverFacts DEF DriverState

LEMMA BudgetStep ==
  ASSUME TypeOK, BudgetInv, NEW p \in Procs, Work(p) \/ Takeover(p) \/ Fault(p),
         Driving(p)'
  PROVE  WithinBudget(drv'[p])
<1> USE DEF TypeOK
<1> DEFINE d == drv[p]
           e == drv'[p]
<1> SUFFICES WithinBudget(e)
  OBVIOUS
<1>1. Driving(p) => WithinBudget(d)
  BY DEF BudgetInv
<1>2. d.impl \in Nat /\ d.impl0 \in Nat /\ d.cycles \in Nat /\ d.cycles0 \in Nat
  BY CounterTypes
<1>3. Ahead(d) \in {0, 1} /\ Ahead(e) \in {0, 1}
  BY DEF Ahead
<1>4. Larger(d.impl0 + 1, MaxAttempts) \in Nat /\ Larger(d.cycles0, MaxCycles) \in Nat
  BY <1>2, BudgetAssumption DEF Larger
<1>5. CASE Unspent(p)
  <2>1. /\ e.impl = d.impl /\ e.impl0 = d.impl0 /\ e.cycles = d.cycles
        /\ e.cycles0 = d.cycles0 /\ WithinBudget(d)
    BY <1>1, <1>5 DEF Unspent, SameCounters
  <2>2. Ahead(e) <= Ahead(d)
    BY <1>5 DEF Unspent, Ahead
  <2> HIDE DEF d, e
  <2> QED BY <1>2, <1>3, <1>4, <2>1, <2>2 DEF WithinBudget
<1>6. CASE LaunchImplementer(p)
  <2>1. /\ e.impl = d.impl + 1 /\ e.impl0 = d.impl0 /\ e.cycles = d.cycles
        /\ e.cycles0 = d.cycles0 /\ WithinBudget(d)
    BY <1>1, <1>6, LaunchSpends DEF Driving, Outside
  <2>2. Ahead(d) = 1 /\ Ahead(e) = 0
    BY <1>6, LaunchSpends DEF Ahead, Launching
  <2> HIDE DEF d, e
  <2> QED BY <1>2, <1>4, <2>1, <2>2 DEF WithinBudget
<1>7. CASE Numbered(p)
  <2>1. /\ e.impl = d.impl /\ e.impl0 = d.impl0 /\ e.cycles = d.cycles
        /\ e.cycles0 = d.cycles0 /\ WithinBudget(d) /\ Ahead(e) = 0
    BY <1>1, <1>7 DEF Numbered, Ahead
  <2> HIDE DEF d, e
  <2> QED BY <1>2, <1>3, <1>4, <2>1 DEF WithinBudget
<1>8. CASE Retried(p)
  <2>1. /\ e.impl = d.impl /\ e.impl0 = d.impl0 /\ e.cycles = d.cycles
        /\ e.cycles0 = d.cycles0 /\ WithinBudget(d) /\ d.impl < MaxAttempts
    BY <1>1, <1>8 DEF Retried, SameCounters
  <2> HIDE DEF d, e
  <2> QED BY <1>2, <1>3, <1>4, <2>1, BudgetAssumption DEF WithinBudget, Larger
<1>9. CASE Corrected(p)
  <2>1. /\ e.impl = d.impl /\ e.impl0 = d.impl0 /\ e.cycles = d.cycles + 1
        /\ e.cycles0 = d.cycles0 /\ WithinBudget(d) /\ d.cycles < MaxCycles
    BY <1>1, <1>9 DEF Corrected
  <2> HIDE DEF d, e
  <2> QED BY <1>2, <1>3, <1>4, <2>1, BudgetAssumption DEF WithinBudget, Larger
<1>10. CASE Restarted(p)
  <2>1. /\ e.impl = e.impl0 /\ e.cycles = e.cycles0
        /\ e.impl0 \in Nat /\ e.cycles0 \in Nat
    BY <1>10 DEF Restarted
  <2> HIDE DEF d, e
  <2> QED BY <1>3, <2>1, BudgetAssumption DEF WithinBudget, Larger
<1> QED BY <1>5, <1>6, <1>7, <1>8, <1>9, <1>10, WorkSpends

LEMMA BudgetNext ==
  ASSUME TypeOK, BudgetInv, Next
  PROVE  BudgetInv'
<1> USE DEF TypeOK
<1>1. ASSUME NEW p \in Procs, Work(p) \/ Takeover(p) \/ Fault(p) PROVE BudgetInv'
  BY <1>1, WorkSpends, BudgetStep DEF BudgetInv, OthersKept, Driving
<1>2. CASE Environment
  BY <1>2, EnvironmentKeepsDrivers DEF BudgetInv, Driving
<1> QED BY <1>1, <1>2 DEF Next

LEMMA BudgetInvImplies ==
  ASSUME ProcessOK, BudgetInv
  PROVE  SessionsWithinBudget
<1> SUFFICES ASSUME NEW p \in Procs, Driving(p)
             PROVE  LET d == drv[p]
                        due == IF d.pc \in {"implement", "correct"} THEN 1 ELSE 0
                    IN  /\ d.cycles <= Larger(d.cycles0, MaxCycles)
                        /\ d.impl + due <= Larger(d.impl0 + 1, MaxAttempts)
                                            + (d.cycles - d.cycles0)
  BY DEF SessionsWithinBudget
<1> DEFINE d == drv[p]
           due == IF d.pc \in {"implement", "correct"} THEN 1 ELSE 0
<1>1. WithinBudget(d)
  BY DEF BudgetInv
<1>2. d.impl \in Nat /\ d.impl0 \in Nat /\ d.cycles \in Nat /\ d.cycles0 \in Nat
  BY CounterTypes
<1>3. due <= Ahead(d) /\ due \in {0, 1} /\ Ahead(d) \in {0, 1}
  BY DEF Ahead, Launching
<1>4. Larger(d.impl0 + 1, MaxAttempts) \in Nat
  BY <1>2, BudgetAssumption DEF Larger
<1> HIDE DEF d, due
<1>5. /\ d.cycles <= Larger(d.cycles0, MaxCycles)
      /\ d.impl + due <= Larger(d.impl0 + 1, MaxAttempts) + (d.cycles - d.cycles0)
  BY <1>1, <1>2, <1>3, <1>4 DEF WithinBudget
<1> QED BY <1>5 DEF d, due

\* One execution launches a bounded number of implementer sessions and makes
\* a bounded number of correction cycles, however its counters were seeded.
THEOREM BudgetsKept == Spec => []SessionsWithinBudget
<1>1. Init => BudgetInv
  <2> SUFFICES ASSUME Init, NEW p \in Procs PROVE WithinBudget(drv[p])
    BY DEF BudgetInv
  <2>1. /\ drv[p].impl = 0 /\ drv[p].impl0 = 0
        /\ drv[p].cycles = 0 /\ drv[p].cycles0 = 0
    BY DEF Init, Idle
  <2>2. Ahead(drv[p]) \in {0, 1}
    BY DEF Ahead
  <2> QED BY <2>1, <2>2, BudgetAssumption DEF WithinBudget, Larger
<1>2. TypeOK /\ BudgetInv /\ [Next]_vars => BudgetInv'
  <2>1. CASE Next
    BY <2>1, BudgetNext
  <2>2. CASE UNCHANGED vars
    BY <2>2 DEF vars, BudgetInv, Driving
  <2> QED BY <2>1, <2>2
<1>3. TypeOK /\ BudgetInv => SessionsWithinBudget
  BY BudgetInvImplies DEF TypeOK
<1> QED BY <1>1, <1>2, <1>3, TypeCorrect, PTL DEF Spec

(***************************************************************************)
(* Publication. Where a process stands in Publisher.publish tells what has *)
(* been done and recorded, and nothing of that is ever undone.             *)
(***************************************************************************)
AfterCommit  == {"push", "findPr", "createPr", "recordPr", "findComment", "createComment",
                 "recordComment", "prOpen"}
AfterPush    == AfterCommit \ {"push"}
AfterPr      == {"recordPr", "findComment", "createComment", "recordComment", "prOpen"}
AfterPrRow   == {"findComment", "createComment", "recordComment", "prOpen"}
AfterComment == {"recordComment", "prOpen"}

\* What a process that stands at pc may rely on.
Reached(pc) ==
    /\ pc \in AfterCommit => pub.commit
    /\ pc \in AfterPush => remote # None
    /\ pc \in AfterPr => prs > 0
    /\ pc \in AfterPrRow => pub.pr
    /\ pc \in AfterComment => comments > 0
    /\ pc = "prOpen" => pub.comment

PublishInv == RecordedMeansPublished /\ \A p \in Procs : Reached(drv[p].pc)

\* Nothing that was published or recorded is taken back.
Grows ==
    /\ remote # None => remote' # None
    /\ prs' >= prs /\ comments' >= comments
    /\ pub.commit => pub'.commit
    /\ pub.pr => pub'.pr
    /\ pub.comment => pub'.comment

LEMMA ReachedKept ==
  ASSUME DataOK, DataOK', Grows, NEW q, drv'[q] = drv[q], Reached(drv[q].pc)
  PROVE  Reached(drv[q].pc)'
BY DEF Grows, Reached, DataOK

\* A step outside Publisher.publish.
Elsewhere(p) ==
    /\ drv'[p].pc \notin AfterCommit
    /\ stage' = stage \/ stage' # "PR_OPEN"

LEMMA AdvanceElsewhere ==
  ASSUME ProcessOK, NEW p \in Procs, NEW d \in DriverState, NEW to \in RunStages \ {"PR_OPEN"},
         NEW pc \in PCs \ AfterCommit, Advance(p, d, to, pc)
  PROVE  Elsewhere(p)
BY AdvanceFields DEF Elsewhere, Advance, CompareAndSet

LEMMA ContinueElsewhere ==
  ASSUME ProcessOK, NEW p \in Procs, NEW d \in DriverState,
         NEW pc \in PCs \ AfterCommit, Continue(p, d, pc)
  PROVE  Elsewhere(p)
BY ContinueFields DEF Elsewhere, Continue, rowVars

LEMMA FinishElsewhere ==
  ASSUME ProcessOK, NEW p \in Procs, NEW to, to # "PR_OPEN", Finish(p, to)
  PROVE  Elsewhere(p)
<1>1. drv'[p].pc = "idle"
  BY FinishFields DEF Idle
<1>2. stage' # "PR_OPEN"
  BY DEF Finish, CompareAndSet
<1> QED BY <1>1, <1>2 DEF Elsewhere, AfterCommit

\* The program counters of the steps outside Publisher.publish.
LEMMA ElsewherePCs ==
  PCs \ AfterCommit =
    {"idle", "start", "readiness", "frozen", "workspace", "setup",
     "implement", "implementing", "implemented", "verify", "hash",
     "review", "reviewing", "reviewed", "accept", "accepting", "accepted",
     "correct", "publish", "checkTree", "commit", "recordCommit",
     "listed", "resumeImplement", "resumeVerify", "markFailed"}
BY DEF PCs, AfterCommit

LEMMA RequestCorrectionElsewhere ==
  ASSUME ProcessOK, NEW p \in Procs, NEW at \in CycleStages, RequestCorrection(p, at)
  PROVE  Elsewhere(p)
<1> DEFINE Spent(f) == [drv[p] EXCEPT !.seen = @ \cup {<<at, f>>}, !.cycles = @ + 1]
<1>1. PICK f \in Findings :
        \/ Advance(p, Spent(f), "CORRECTION", "correct")
        \/ Finish(p, "BLOCKED")
  BY DEF RequestCorrection
<1>2. drv[p].seen \cup {<<at, f>>} \in SUBSET Fingerprints /\ drv[p].cycles + 1 \in Nat
  BY DriverFacts DEF DriverState, Fingerprints
<1>3. Spent(f) \in DriverState
  BY <1>2, DriverFacts, SpentIsDriver
<1> HIDE DEF Spent
<1> QED BY <1>1, <1>3, Names, ElsewherePCs, AdvanceElsewhere, FinishElsewhere

LEMMA FinishVerificationElsewhere ==
  ASSUME ProcessOK, DataOK, NEW p \in Procs, FinishVerification(p)
  PROVE  Elsewhere(p)
<1> DEFINE d == [drv[p] EXCEPT !.verified = tree]
           Spent(f) == [d EXCEPT !.seen = @ \cup {<<"VERIFICATION", f>>}]
<1>1. d \in DriverState
  BY ChangedDrivers
<1>2. ASSUME NEW f \in Findings PROVE Spent(f) \in DriverState
  <2>1. d.seen \cup {<<"VERIFICATION", f>>} \in SUBSET Fingerprints
    BY <1>1 DEF DriverState, Fingerprints, AttemptStages
  <2> HIDE DEF d
  <2> QED BY <1>1, <2>1, SeenIsDriver
<1>3. \/ Continue(p, d, "review")
      \/ \E f \in Findings : Advance(p, Spent(f), "IMPLEMENTATION", "implement")
      \/ Finish(p, "BLOCKED")
  BY DEF FinishVerification
<1> HIDE DEF d, Spent
<1>4. CASE \E f \in Findings : Advance(p, Spent(f), "IMPLEMENTATION", "implement")
  BY <1>2, <1>4, Names, ElsewherePCs, AdvanceElsewhere
<1> QED BY <1>1, <1>3, <1>4, ElsewherePCs, ContinueElsewhere, FinishElsewhere

LEMMA PipelineElsewhere ==
  ASSUME ProcessOK, DataOK, NEW p \in Procs,
         \/ BeginReadiness(p) \/ FreezeSnapshot(p) \/ FinishReadiness(p)
         \/ CreateWorkspace(p) \/ FinishSetup(p)
         \/ LaunchImplementer(p) \/ ImplementerReturns(p) \/ HandleImplementerResult(p)
         \/ RunVerificationCommands(p)
         \/ BeginReview(p) \/ ReviewerReturns(p) \/ HandleReview(p)
         \/ BeginAcceptance(p) \/ VerifierReturns(p) \/ HandleAcceptance(p)
         \/ ReenterImplementation(p) \/ CheckIssue(p) \/ CheckTree(p) \/ Commit(p)
         \/ BeginResumed(p)
  PROVE  Elsewhere(p)
<1> USE DriverFacts, Names, ElsewherePCs
<1>1. CASE BeginReadiness(p)
  BY <1>1, AdvanceElsewhere DEF BeginReadiness
<1>2. CASE FreezeSnapshot(p) \/ FinishReadiness(p)
  BY <1>2, AdvanceElsewhere, ContinueElsewhere, FinishElsewhere
  DEF FreezeSnapshot, FinishReadiness, Go
<1>3. CASE FinishSetup(p)
  BY <1>3, AdvanceElsewhere, FinishElsewhere DEF FinishSetup
<1>4. CASE HandleImplementerResult(p)
  BY <1>4, AdvanceElsewhere, FinishElsewhere DEF HandleImplementerResult
<1>5. CASE BeginReview(p) \/ BeginAcceptance(p) \/ ReenterImplementation(p)
  BY <1>5, AdvanceElsewhere DEF BeginReview, BeginAcceptance, ReenterImplementation
<1>6. CASE CreateWorkspace(p) \/ RunVerificationCommands(p) \/ CheckTree(p) \/ Commit(p)
  BY <1>6, ContinueElsewhere DEF CreateWorkspace, RunVerificationCommands, CheckTree, Commit, Go
<1>7. CASE LaunchImplementer(p)
  BY <1>7, ChangedDrivers, ContinueElsewhere DEF LaunchImplementer
<1>8. CASE ImplementerReturns(p) \/ ReviewerReturns(p) \/ VerifierReturns(p)
  BY <1>8, ChangedDrivers, ContinueElsewhere
  DEF ImplementerReturns, ReviewerReturns, VerifierReturns
<1>9. CASE HandleReview(p) \/ HandleAcceptance(p)
  BY <1>9, ContinueElsewhere, RequestCorrectionElsewhere, FinishElsewhere
  DEF HandleReview, HandleAcceptance, RejectOutright, Go, CycleStages
<1>10. CASE CheckIssue(p)
  BY <1>10, AdvanceElsewhere, FinishElsewhere DEF CheckIssue
<1>11. CASE BeginResumed(p)
  BY <1>11, ChangedDrivers, AdvanceElsewhere DEF BeginResumed
<1> QED
  BY <1>1, <1>2, <1>3, <1>4, <1>5, <1>6, <1>7, <1>8, <1>9, <1>10, <1>11

LEMMA TakeoverElsewhere ==
  ASSUME ProcessOK, NEW p \in Procs,
         RefuseResume(p) \/ ResumeListed(p) \/ MarkFailed(p) \/ Takeover(p) \/ Fault(p)
  PROVE  Elsewhere(p)
<1>1. drv'[p].pc \notin AfterCommit
  BY OutsideUnspent DEF Driving, Outside, AfterCommit
<1>2. stage' = stage \/ stage' = "FAILED"
  BY DEF RefuseResume, ResumeListed, MarkFailed, Takeover, Resume, ListNonterminal,
         Fault, Throw, FailClosed, ThrowWhileBusy, Crash, rowVars
<1> QED BY <1>1, <1>2 DEF Elsewhere

LEMMA ElsewhereKeepsPublished ==
  ASSUME NEW p,
         \/ BeginReadiness(p) \/ FreezeSnapshot(p) \/ FinishReadiness(p)
         \/ CreateWorkspace(p) \/ FinishSetup(p)
         \/ LaunchImplementer(p) \/ ImplementerReturns(p) \/ HandleImplementerResult(p)
         \/ RunVerificationCommands(p) \/ FinishVerification(p)
         \/ BeginReview(p) \/ ReviewerReturns(p) \/ HandleReview(p)
         \/ BeginAcceptance(p) \/ VerifierReturns(p) \/ HandleAcceptance(p)
         \/ ReenterImplementation(p) \/ CheckIssue(p) \/ CheckTree(p) \/ Commit(p)
         \/ BeginResumed(p) \/ RefuseResume(p) \/ ResumeListed(p) \/ MarkFailed(p)
         \/ Takeover(p) \/ Fault(p) \/ Environment
  PROVE  UNCHANGED <<pub, remote, prs, comments>>
BY DEF logVars, gitVars, hubVars,
       BeginReadiness, FreezeSnapshot, FinishReadiness, CreateWorkspace, FinishSetup,
       LaunchImplementer, ImplementerReturns, HandleImplementerResult,
       RunVerificationCommands, FinishVerification, BeginReview, ReviewerReturns,
       HandleReview, BeginAcceptance, VerifierReturns, HandleAcceptance,
       ReenterImplementation, CheckIssue, CheckTree, Commit,
       BeginResumed, RefuseResume, ResumeListed, MarkFailed,
       Takeover, Resume, ListNonterminal, Fault, Throw, ThrowWhileBusy, Crash,
       Environment, Abandon, EditWorktree, EditIssue, RivalStarts, RivalEnds

\* The steps of Publisher.publish, from the commit's record on.
Publishing(p) ==
    \/ RecordCommit(p) \/ Push(p) \/ FindPullRequest(p) \/ CreatePullRequest(p)
    \/ RecordPullRequest(p) \/ FindComment(p) \/ CreateComment(p) \/ RecordComment(p)

LEMMA GoFields ==
  ASSUME ProcessOK, NEW p \in Procs, NEW pc \in PCs, Go(p, pc)
  PROVE  drv'[p].pc = pc /\ OthersKept(p) /\ stage' = stage
BY ZenonT(40), DriverFacts, ContinueFields DEF Go, Continue, rowVars

LEMMA PublishingReaches ==
  ASSUME ProcessOK, DataOK, NEW p \in Procs, Publishing(p), Reached(drv[p].pc)
  PROVE  Grows /\ Reached(drv[p].pc)' /\ OthersKept(p) /\ stage' = stage
<1> USE DEF Reached, Grows, AfterCommit, AfterPush, AfterPr, AfterPrRow, AfterComment
<1>0. /\ {"push", "findPr", "createPr", "recordPr", "findComment", "createComment",
          "recordComment", "prOpen"} \subseteq PCs
      /\ prs \in Nat /\ comments \in Nat
      /\ pub \in [commit : BOOLEAN, pr : BOOLEAN, comment : BOOLEAN]
      /\ head # None
  BY NoneIsNoStage DEF PCs, DataOK
<1>1. CASE RecordCommit(p)
  <2>1. drv'[p].pc = "push" /\ OthersKept(p) /\ stage' = stage
    BY <1>0, <1>1, GoFields DEF RecordCommit
  <2>2. pub' = [pub EXCEPT !.commit = TRUE] /\ UNCHANGED <<remote, prs, comments>>
    BY <1>1 DEF RecordCommit, gitVars, hubVars
  <2> QED BY <1>0, <2>1, <2>2
<1>2. CASE Push(p)
  <2>1. drv'[p].pc = "findPr" /\ OthersKept(p) /\ stage' = stage /\ drv[p].pc = "push"
    BY <1>0, <1>2, GoFields DEF Push, At
  <2>2. remote' = head /\ UNCHANGED <<pub, prs, comments>>
    BY <1>2 DEF Push, logVars, hubVars
  <2> QED BY <1>0, <2>1, <2>2
<1>3. CASE FindPullRequest(p)
  <2>1. /\ drv'[p].pc = IF prs > 0 THEN "recordPr" ELSE "createPr"
        /\ OthersKept(p) /\ stage' = stage /\ drv[p].pc = "findPr"
    BY <1>0, <1>3, GoFields DEF FindPullRequest, At
  <2>2. UNCHANGED <<remote, pub, prs, comments>>
    BY <1>3 DEF FindPullRequest, logVars, gitVars, hubVars
  <2> QED BY <1>0, <2>1, <2>2
<1>4. CASE CreatePullRequest(p)
  <2>1. drv'[p].pc = "recordPr" /\ OthersKept(p) /\ stage' = stage /\ drv[p].pc = "createPr"
    BY <1>0, <1>4, GoFields DEF CreatePullRequest, At
  <2>2. prs' = prs + 1 /\ UNCHANGED <<remote, pub, comments>>
    BY <1>4 DEF CreatePullRequest, logVars, gitVars
  <2> QED BY <1>0, <2>1, <2>2
<1>5. CASE RecordPullRequest(p)
  <2>1. drv'[p].pc = "findComment" /\ OthersKept(p) /\ stage' = stage /\ drv[p].pc = "recordPr"
    BY <1>0, <1>5, GoFields DEF RecordPullRequest, At
  <2>2. pub' = [pub EXCEPT !.pr = TRUE] /\ UNCHANGED <<remote, prs, comments>>
    BY <1>5 DEF RecordPullRequest, gitVars, hubVars
  <2> QED BY <1>0, <2>1, <2>2
<1>6. CASE FindComment(p)
  <2>1. /\ drv'[p].pc = IF comments > 0 THEN "recordComment" ELSE "createComment"
        /\ OthersKept(p) /\ stage' = stage /\ drv[p].pc = "findComment"
    BY <1>0, <1>6, GoFields DEF FindComment, At
  <2>2. UNCHANGED <<remote, pub, prs, comments>>
    BY <1>6 DEF FindComment, logVars, gitVars, hubVars
  <2> QED BY <1>0, <2>1, <2>2
<1>7. CASE CreateComment(p)
  <2>1. /\ drv'[p].pc = "recordComment" /\ OthersKept(p) /\ stage' = stage
        /\ drv[p].pc = "createComment"
    BY <1>0, <1>7, GoFields DEF CreateComment, At
  <2>2. comments' = comments + 1 /\ UNCHANGED <<remote, pub, prs>>
    BY <1>7 DEF CreateComment, logVars, gitVars
  <2> QED BY <1>0, <2>1, <2>2
<1>8. CASE RecordComment(p)
  <2>1. /\ drv'[p].pc = "prOpen" /\ OthersKept(p) /\ stage' = stage
        /\ drv[p].pc = "recordComment"
    BY <1>0, <1>8, GoFields DEF RecordComment, At
  <2>2. pub' = [pub EXCEPT !.comment = TRUE] /\ UNCHANGED <<remote, prs, comments>>
    BY <1>8 DEF RecordComment, gitVars, hubVars
  <2> QED BY <1>0, <2>1, <2>2
<1> QED BY <1>1, <1>2, <1>3, <1>4, <1>5, <1>6, <1>7, <1>8 DEF Publishing

LEMMA ElsewhereReaches ==
  ASSUME NEW p \in Procs, Elsewhere(p)
  PROVE  Reached(drv[p].pc)'
BY DEF Elsewhere, Reached, AfterCommit, AfterPush, AfterPr, AfterPrRow, AfterComment

\* What any step does to the publication.
LEMMA PublishStep ==
  ASSUME TypeOK, PublishInv, NEW p \in Procs, Work(p) \/ Takeover(p) \/ Fault(p)
  PROVE  /\ Grows /\ Reached(drv[p].pc)' /\ OthersKept(p)
         /\ stage' = "PR_OPEN" => stage = "PR_OPEN" \/ Reached("prOpen")
         /\ UNCHANGED <<pub, remote, prs, comments>> \/ Publishing(p)
<1> USE DEF TypeOK
<1>0. OthersKept(p)
  BY WorkSpends
<1>1. CASE Publishing(p)
  BY <1>1, PublishingReaches DEF PublishInv
<1>2. CASE OpenPr(p)
  <2>1. UNCHANGED <<pub, remote, prs, comments>>
    BY <1>2 DEF OpenPr, logVars, gitVars, hubVars
  <2>2. drv[p].pc = "prOpen" /\ drv'[p].pc = "idle"
    BY <1>2, FinishFields DEF OpenPr, At, Idle
  <2>3. Reached("prOpen")
    BY <2>2 DEF PublishInv
  <2>4. Reached(drv[p].pc)'
    BY <2>2 DEF Reached, AfterCommit, AfterPush, AfterPr, AfterPrRow, AfterComment
  <2>5. Grows
    BY <2>1 DEF Grows, DataOK
  <2> QED BY <1>0, <2>1, <2>3, <2>4, <2>5
<1>3. CASE ~Publishing(p) /\ ~OpenPr(p)
  <2>1. Elsewhere(p)
    BY <1>3, PipelineElsewhere, FinishVerificationElsewhere, TakeoverElsewhere
    DEF Work, Publishing
  <2>2. UNCHANGED <<pub, remote, prs, comments>>
    BY <1>3, ElsewhereKeepsPublished DEF Work, Publishing
  <2>3. Grows
    BY <2>2 DEF Grows, DataOK
  <2> QED BY <1>0, <2>1, <2>2, <2>3, ElsewhereReaches DEF Elsewhere
<1> QED BY <1>1, <1>2, <1>3

\* A row is recorded only by a process that has published what it records.
LEMMA RecordsHold ==
  ASSUME TypeOK, PublishInv, NEW p \in Procs, Publishing(p)
  PROVE  /\ pub'.pr => pub.pr \/ (prs > 0 /\ remote # None)
         /\ pub'.comment => pub.comment \/ comments > 0
<1>1. Reached(drv[p].pc) /\ pub \in [commit : BOOLEAN, pr : BOOLEAN, comment : BOOLEAN]
  BY DEF PublishInv, TypeOK, DataOK
<1>2. CASE RecordPullRequest(p)
  BY <1>1, <1>2 DEF RecordPullRequest, At, Reached, AfterPr, AfterPush, AfterCommit
<1>3. CASE RecordComment(p)
  BY <1>1, <1>3 DEF RecordComment, At, Reached, AfterComment
<1>4. CASE RecordCommit(p)
  BY <1>1, <1>4 DEF RecordCommit
<1>5. CASE Push(p) \/ FindPullRequest(p) \/ CreatePullRequest(p) \/ FindComment(p) \/ CreateComment(p)
  BY <1>5 DEF Push, FindPullRequest, CreatePullRequest, FindComment, CreateComment, logVars
<1> QED BY <1>2, <1>3, <1>4, <1>5 DEF Publishing

LEMMA PublishNext ==
  ASSUME TypeOK, TypeOK', PublishInv, Next
  PROVE  PublishInv'
<1> USE DEF TypeOK
<1>1. ASSUME NEW p \in Procs, Work(p) \/ Takeover(p) \/ Fault(p) PROVE PublishInv'
  <2>1. /\ Grows /\ Reached(drv[p].pc)' /\ OthersKept(p)
        /\ stage' = "PR_OPEN" => stage = "PR_OPEN" \/ Reached("prOpen")
        /\ UNCHANGED <<pub, remote, prs, comments>> \/ Publishing(p)
    BY <1>1, PublishStep
  <2>2. \A q \in Procs : Reached(drv[q].pc)'
    BY <2>1, ReachedKept DEF PublishInv, OthersKept
  <2>3. /\ pub'.pr => pub.pr \/ (prs > 0 /\ remote # None)
        /\ pub'.comment => pub.comment \/ comments > 0
    BY <2>1, RecordsHold
  <2>4. /\ pub'.pr => prs' > 0 /\ remote' # None
        /\ pub'.comment => comments' > 0
    BY <2>1, <2>3 DEF Grows, PublishInv, RecordedMeansPublished, DataOK
  <2>5. stage' = "PR_OPEN" => pub.commit /\ pub.pr /\ pub.comment
    BY <2>1 DEF PublishInv, RecordedMeansPublished, AllRecorded, Reached,
                AfterCommit, AfterPrRow
  <2>6. stage' = "PR_OPEN" => pub' = AllRecorded
    BY <2>1, <2>5 DEF Grows, AllRecorded, DataOK
  <2> QED BY <2>2, <2>4, <2>6 DEF PublishInv, RecordedMeansPublished
<1>2. CASE Environment
  <2>1. UNCHANGED <<pub, remote, prs, comments, drv>>
    BY <1>2, ElsewhereKeepsPublished, EnvironmentKeepsDrivers
  <2>2. stage' = stage \/ stage' = "CANCELLED"
    BY <1>2 DEF Environment, Abandon, EditWorktree, EditIssue, RivalStarts, RivalEnds, rowVars
  <2> QED BY <2>1, <2>2 DEF PublishInv, RecordedMeansPublished, Reached
<1> QED BY <1>1, <1>2 DEF Next

\* The publications row never claims more than origin and GitHub have, and
\* a run in PR_OPEN has a pushed branch, a pull request and a comment, all
\* recorded: with crashes, lost answers and any number of processes.
THEOREM PublicationIsTrue == Spec => []RecordedMeansPublished
<1>1. Init => PublishInv
  <2> SUFFICES ASSUME Init PROVE PublishInv
    OBVIOUS
  <2>1. RecordedMeansPublished
    BY DEF Init, RecordedMeansPublished, NothingRecorded
  <2>2. ASSUME NEW p \in Procs PROVE drv[p].pc \notin AfterCommit
    BY DEF Init, Idle, AfterCommit
  <2> QED
    BY <2>1, <2>2
    DEF PublishInv, Reached, AfterCommit, AfterPush, AfterPr, AfterPrRow, AfterComment
<1>2. TypeOK /\ TypeOK' /\ PublishInv /\ [Next]_vars => PublishInv'
  <2>1. CASE Next
    BY <2>1, PublishNext
  <2>2. CASE UNCHANGED vars
    BY <2>2 DEF vars, rowVars, logVars, gitVars, hubVars, PublishInv,
                RecordedMeansPublished, Reached
  <2> QED BY <2>1, <2>2
<1>3. PublishInv => RecordedMeansPublished
  BY DEF PublishInv
<1> QED BY <1>1, <1>2, <1>3, TypeCorrect, PTL DEF Spec

(***************************************************************************)
(* One process at a time, killed and followed by another: the publication  *)
(* is not repeated, and an open pull request shows what was committed.     *)
(* With two, both may look before either creates.                          *)
(***************************************************************************)
OneProcess == \A p, q \in Procs : p = q

\* A process about to create something has found nothing, and what it pushed
\* is not changed before the row is in PR_OPEN, which it then leaves alone.
Solo(p) ==
    /\ drv[p].pc = "createPr" => prs = 0
    /\ drv[p].pc = "createComment" => comments = 0
    /\ drv[p].pc \in AfterPush => remote = head
    /\ stage = "PR_OPEN" => ~Driving(p)

SoloInv ==
    /\ PublishedAtMostOnce
    /\ OpenPrShowsHead
    /\ \A p \in Procs : Solo(p)

LEMMA PublishingAlone ==
  ASSUME ProcessOK, DataOK, NEW p \in Procs, PublishedAtMostOnce, Solo(p), Publishing(p)
  PROVE  PublishedAtMostOnce' /\ OpenPrShowsHead' /\ Solo(p)'
<1>0. /\ {"push", "findPr", "createPr", "recordPr", "findComment", "createComment",
          "recordComment", "prOpen"} \subseteq PCs
      /\ prs \in Nat /\ comments \in Nat
  BY DEF PCs, DataOK
<1>1. drv[p].pc \notin Outside
  BY DEF Publishing, RecordCommit, Push, FindPullRequest, CreatePullRequest, RecordPullRequest,
         FindComment, CreateComment, RecordComment, At, Outside
<1>2. stage # "PR_OPEN"
  BY <1>1 DEF Solo, Driving
<1>3. CASE RecordCommit(p)
  <2>1. drv'[p].pc = "push" /\ stage' = stage
    BY <1>0, <1>3, GoFields DEF RecordCommit
  <2>2. UNCHANGED <<prs, comments>>
    BY <1>3 DEF RecordCommit, hubVars
  <2> QED BY <1>2, <2>1, <2>2 DEF Solo, PublishedAtMostOnce, OpenPrShowsHead, AfterPush, AfterCommit
<1>4. CASE Push(p)
  <2>1. drv'[p].pc = "findPr" /\ stage' = stage
    BY <1>0, <1>4, GoFields DEF Push
  <2>2. remote' = head /\ UNCHANGED <<head, prs, comments>>
    BY <1>4 DEF Push, hubVars
  <2> QED BY <1>2, <2>1, <2>2 DEF Solo, PublishedAtMostOnce, OpenPrShowsHead
<1>5. CASE FindPullRequest(p) \/ FindComment(p)
  <2>1. /\ drv'[p].pc = "createPr" => prs = 0
        /\ drv'[p].pc = "createComment" => comments = 0
        /\ drv[p].pc \in AfterPush /\ stage' = stage
    <3>1. CASE FindPullRequest(p)
      <4>1. drv'[p].pc = (IF prs > 0 THEN "recordPr" ELSE "createPr") /\ stage' = stage
        BY <1>0, <3>1, GoFields DEF FindPullRequest
      <4>2. drv[p].pc = "findPr"
        BY <3>1 DEF FindPullRequest, At
      <4> QED BY <1>0, <4>1, <4>2 DEF AfterPush, AfterCommit
    <3>2. CASE FindComment(p)
      <4>1. drv'[p].pc = (IF comments > 0 THEN "recordComment" ELSE "createComment") /\ stage' = stage
        BY <1>0, <3>2, GoFields DEF FindComment
      <4>2. drv[p].pc = "findComment"
        BY <3>2 DEF FindComment, At
      <4> QED BY <1>0, <4>1, <4>2 DEF AfterPush, AfterCommit
    <3> QED BY <1>5, <3>1, <3>2
  <2>2. UNCHANGED <<remote, head, prs, comments>>
    BY <1>5 DEF FindPullRequest, FindComment, gitVars, hubVars
  <2> QED BY <1>2, <2>1, <2>2 DEF Solo, PublishedAtMostOnce, OpenPrShowsHead
<1>6. CASE CreatePullRequest(p)
  <2>1. drv'[p].pc = "recordPr" /\ stage' = stage /\ drv[p].pc = "createPr"
    BY <1>0, <1>6, GoFields DEF CreatePullRequest, At
  <2>2. prs' = prs + 1 /\ UNCHANGED <<remote, head, comments>>
    BY <1>6 DEF CreatePullRequest, gitVars
  <2> QED BY <1>0, <1>2, <2>1, <2>2 DEF Solo, PublishedAtMostOnce, OpenPrShowsHead, AfterPush, AfterCommit
<1>7. CASE CreateComment(p)
  <2>1. drv'[p].pc = "recordComment" /\ stage' = stage /\ drv[p].pc = "createComment"
    BY <1>0, <1>7, GoFields DEF CreateComment, At
  <2>2. comments' = comments + 1 /\ UNCHANGED <<remote, head, prs>>
    BY <1>7 DEF CreateComment, gitVars
  <2> QED BY <1>0, <1>2, <2>1, <2>2 DEF Solo, PublishedAtMostOnce, OpenPrShowsHead, AfterPush, AfterCommit
<1>8. CASE RecordPullRequest(p) \/ RecordComment(p)
  <2>1. /\ drv'[p].pc \in {"findComment", "prOpen"} /\ stage' = stage
        /\ drv[p].pc \in AfterPush
    BY <1>0, <1>8, GoFields DEF RecordPullRequest, RecordComment, At, AfterPush, AfterCommit
  <2>2. UNCHANGED <<remote, head, prs, comments>>
    BY <1>8 DEF RecordPullRequest, RecordComment, gitVars, hubVars
  <2> QED BY <1>2, <2>1, <2>2 DEF Solo, PublishedAtMostOnce, OpenPrShowsHead
<1> QED BY <1>3, <1>4, <1>5, <1>6, <1>7, <1>8 DEF Publishing

\* PR_OPEN is nowhere a process resumes from.
LEMMA OpenStaysAlone ==
  ASSUME ProcessOK, NEW p \in Procs, Solo(p), stage = "PR_OPEN",
         Work(p) \/ Takeover(p) \/ Fault(p)
  PROVE  ~Driving(p)' /\ UNCHANGED head
<1>1. drv[p].pc \in Outside /\ drv[p] \in GoodDriver
  BY DEF Solo, Driving, ProcessOK
<1>2. ~BeginResumed(p)
  <2>1. Seeded(drv[p]).stage = drv[p].stage
    BY <1>1 DEF Seeded, GoodDriver, DriverState
  <2> SUFFICES ASSUME BeginResumed(p) PROVE FALSE
    OBVIOUS
  <2>2. drv[p].stage = "PR_OPEN" /\ drv[p].pc \in {"resumeImplement", "resumeVerify"}
    BY <2>1 DEF BeginResumed, Advance, CompareAndSet, At
  <2>3. drv[p].stage \in ResumableStages
    BY <1>1, <2>2 DEF GoodDriver, Believes
  <2> QED BY <2>2, <2>3 DEF ResumableStages
<1>3. RefuseResume(p) \/ ResumeListed(p) \/ MarkFailed(p) \/ Takeover(p) \/ Fault(p)
  BY <1>1, <1>2 DEF Work, At, Outside, BeginReadiness, FreezeSnapshot, FinishReadiness,
       CreateWorkspace, FinishSetup,
       LaunchImplementer, ImplementerReturns, HandleImplementerResult,
       RunVerificationCommands, FinishVerification, BeginReview, ReviewerReturns,
       HandleReview, BeginAcceptance, VerifierReturns, HandleAcceptance,
       ReenterImplementation, CheckIssue, CheckTree, Commit, RecordCommit, Push, FindPullRequest,
       CreatePullRequest, RecordPullRequest, FindComment, CreateComment, RecordComment, OpenPr
<1>4. UNCHANGED head
  BY <1>3 DEF RefuseResume, ResumeListed, MarkFailed, Takeover, Resume, ListNonterminal,
       Fault, Throw, ThrowWhileBusy, Crash, gitVars
<1> QED BY <1>3, <1>4, OutsideUnspent

LEMMA ElsewhereAlone ==
  ASSUME ProcessOK, DataOK, NEW p \in Procs, PublishedAtMostOnce, OpenPrShowsHead, Solo(p),
         Work(p) \/ Takeover(p) \/ Fault(p), ~Publishing(p), ~OpenPr(p)
  PROVE  PublishedAtMostOnce' /\ OpenPrShowsHead' /\ Solo(p)'
<1>1. Elsewhere(p)
  <2>1. CASE RefuseResume(p) \/ ResumeListed(p) \/ MarkFailed(p) \/ Takeover(p) \/ Fault(p)
    BY <2>1, TakeoverElsewhere
  <2>2. CASE FinishVerification(p)
    BY <2>2, FinishVerificationElsewhere
  <2> QED BY <2>1, <2>2, PipelineElsewhere DEF Work, Publishing
<1>2. UNCHANGED <<remote, prs, comments>>
  BY ElsewhereKeepsPublished DEF Work, Publishing
<1>3. stage' = "PR_OPEN" => stage = "PR_OPEN"
  BY <1>1 DEF Elsewhere
<1>4. stage = "PR_OPEN" => ~Driving(p)' /\ UNCHANGED head
  BY OpenStaysAlone
<1> QED BY <1>1, <1>2, <1>3, <1>4 DEF Elsewhere, Solo, PublishedAtMostOnce, OpenPrShowsHead, AfterPush, AfterCommit

LEMMA SoloNext ==
  ASSUME OneProcess, TypeOK, SoloInv, [Next]_vars
  PROVE  SoloInv'
<1> USE DEF TypeOK
<1>1. ASSUME NEW p \in Procs, Work(p) \/ Takeover(p) \/ Fault(p)
      PROVE  PublishedAtMostOnce' /\ OpenPrShowsHead' /\ Solo(p)'
  <2>1. PublishedAtMostOnce /\ OpenPrShowsHead /\ Solo(p)
    BY DEF SoloInv
  <2>2. CASE Publishing(p)
    BY <2>1, <2>2, PublishingAlone
  <2>3. CASE OpenPr(p)
    <3>1. drv[p].pc = "prOpen" /\ drv'[p].pc = "idle"
      BY <2>3, FinishFields DEF OpenPr, At, Idle
    <3>2. UNCHANGED <<remote, head, prs, comments>>
      BY <2>3 DEF OpenPr, gitVars, hubVars
    <3> QED BY <2>1, <3>1, <3>2
            DEF Solo, PublishedAtMostOnce, OpenPrShowsHead, AfterPush, AfterCommit, Driving, Outside
  <2>4. CASE ~Publishing(p) /\ ~OpenPr(p)
    BY <1>1, <2>1, <2>4, ElsewhereAlone
  <2> QED BY <2>2, <2>3, <2>4
<1>2. CASE Environment
  <2>1. UNCHANGED <<remote, prs, comments, drv>>
    BY <1>2, ElsewhereKeepsPublished, EnvironmentKeepsDrivers
  <2>2. UNCHANGED head /\ (stage' = stage \/ stage' = "CANCELLED")
    BY <1>2 DEF Environment, Abandon, EditWorktree, EditIssue, RivalStarts, RivalEnds, rowVars, gitVars
  <2> QED BY <2>1, <2>2 DEF SoloInv, Solo, PublishedAtMostOnce, OpenPrShowsHead, Driving
<1>3. CASE UNCHANGED vars
  BY <1>3 DEF vars, rowVars, gitVars, hubVars, SoloInv, Solo, PublishedAtMostOnce, OpenPrShowsHead, Driving
<1>4. ASSUME NEW p \in Procs, PublishedAtMostOnce' /\ OpenPrShowsHead' /\ Solo(p)'
      PROVE  SoloInv'
  BY <1>4, OneProcess DEF OneProcess, SoloInv
<1> QED BY <1>1, <1>2, <1>3, <1>4 DEF Next

LEMMA SoloInvariant == OneProcess => (Spec => []SoloInv)
<1> SUFFICES ASSUME OneProcess PROVE Spec => []SoloInv
  OBVIOUS
<1>1. Init => SoloInv
  <2> SUFFICES ASSUME Init PROVE SoloInv
    OBVIOUS
  <2>1. ASSUME NEW p \in Procs PROVE drv[p].pc \in {"start", "idle"}
    BY DEF Init, Idle
  <2> QED BY <2>1 DEF Init, SoloInv, Solo, PublishedAtMostOnce, OpenPrShowsHead, AfterPush, AfterCommit
<1>2. TypeOK /\ SoloInv /\ [Next]_vars => SoloInv'
  BY SoloNext
<1> QED BY <1>1, <1>2, TypeCorrect, PTL DEF Spec

\* Where one process drives the run at a time, however often it is killed or
\* fails between a request and its record: Publisher.publish creates one pull
\* request and one comment at most.
THEOREM PublishedOnce == OneProcess => (Spec => []PublishedAtMostOnce)
<1>1. SoloInv => PublishedAtMostOnce
  BY DEF SoloInv
<1> QED BY <1>1, SoloInvariant, PTL

\* And the branch on origin holds the commit of the worktree once the row says
\* PR_OPEN: nothing is committed after the last push.
THEOREM OpenPrIsHead == OneProcess => (Spec => []OpenPrShowsHead)
<1>1. SoloInv => OpenPrShowsHead
  BY DEF SoloInv
<1> QED BY <1>1, SoloInvariant, PTL

(***************************************************************************)
(* The TRANSITIONS table, which nobody who moves the row consults: what a  *)
(* process believes fits its program, and the compare-and-set lets it move *)
(* the row only if that is where the row is.                               *)
(***************************************************************************)
Follows(from, to) ==
    \/ to \in Transitions[from]
    \/ from = "WORKSPACE_CREATION" /\ to = "BLOCKED"

LEMMA Table ==
  /\ \A s \in WorkingStages : Follows(s, "FAILED") /\ Follows(s, "CANCELLED")
  /\ Follows("PREFLIGHT", "READINESS_CHECK")
  /\ Follows("READINESS_CHECK", "WORKSPACE_CREATION")
  /\ Follows("READINESS_CHECK", "NEEDS_REFINEMENT")
  /\ Follows("WORKSPACE_CREATION", "IMPLEMENTATION")
  /\ Follows("WORKSPACE_CREATION", "BLOCKED")
  /\ \A to \in {"VERIFICATION", "BLOCKED", "NEEDS_REFINEMENT", "FAILED"} :
       Follows("IMPLEMENTATION", to)
  /\ \A to \in {"INDEPENDENT_REVIEW", "IMPLEMENTATION", "BLOCKED"} : Follows("VERIFICATION", to)
  /\ \A to \in {"ACCEPTANCE_VERIFICATION", "CORRECTION", "NEEDS_REFINEMENT", "BLOCKED", "FAILED"} :
       Follows("INDEPENDENT_REVIEW", to)
  /\ \A to \in {"PUBLICATION", "CORRECTION", "NEEDS_REFINEMENT", "BLOCKED", "FAILED"} :
       Follows("ACCEPTANCE_VERIFICATION", to)
  /\ Follows("CORRECTION", "IMPLEMENTATION")
  /\ Follows("PUBLICATION", "PR_OPEN")
BY DEF Follows, Transitions, Abort, WorkingStages

\* A process that is at work believes what its program counter says.
LEMMA BelievedStage ==
  ASSUME ProcessOK, NEW p \in Procs
  PROVE  /\ drv[p].pc = "start" => drv[p].stage = "PREFLIGHT"
         /\ drv[p].pc \in {"readiness", "frozen"} => drv[p].stage = "READINESS_CHECK"
         /\ drv[p].pc = "setup" => drv[p].stage = "WORKSPACE_CREATION"
         /\ drv[p].pc = "implemented" => drv[p].stage = "IMPLEMENTATION"
         /\ drv[p].pc \in {"hash", "review"} => drv[p].stage = "VERIFICATION"
         /\ drv[p].pc \in {"reviewed", "accept"} => drv[p].stage = "INDEPENDENT_REVIEW"
         /\ drv[p].pc \in {"accepted", "publish"} => drv[p].stage = "ACCEPTANCE_VERIFICATION"
         /\ drv[p].pc = "correct" => drv[p].stage = "CORRECTION"
         /\ drv[p].pc = "prOpen" => drv[p].stage = "PUBLICATION"
         /\ drv[p].pc \in {"resumeImplement", "resumeVerify"} => drv[p].stage \in ResumableStages
BY DriverFacts DEF Believes

LEMMA CorrectionFollows ==
  ASSUME ProcessOK, NEW p \in Procs, NEW at \in CycleStages, RequestCorrection(p, at)
  PROVE  stage = drv[p].stage /\ stage' \in {"CORRECTION", "BLOCKED"}
<1> DEFINE Spent(f) == [drv[p] EXCEPT !.seen = @ \cup {<<at, f>>}, !.cycles = @ + 1]
<1>1. PICK f \in Findings :
        \/ Advance(p, Spent(f), "CORRECTION", "correct")
        \/ Finish(p, "BLOCKED")
  BY DEF RequestCorrection
<1>2. Spent(f).stage = drv[p].stage
  BY DriverFacts DEF DriverState
<1> HIDE DEF Spent
<1> QED BY <1>1, <1>2 DEF Advance, Finish, CompareAndSet

LEMMA VerificationFollows ==
  ASSUME ProcessOK, NEW p \in Procs, FinishVerification(p)
  PROVE  \/ stage' = stage
         \/ stage = drv[p].stage /\ stage' \in {"IMPLEMENTATION", "BLOCKED"}
<1> DEFINE d == [drv[p] EXCEPT !.verified = tree]
           Spent(f) == [d EXCEPT !.seen = @ \cup {<<"VERIFICATION", f>>}]
<1>1. \/ Continue(p, d, "review")
      \/ \E f \in Findings : Advance(p, Spent(f), "IMPLEMENTATION", "implement")
      \/ Finish(p, "BLOCKED")
  BY DEF FinishVerification
<1>2. \A f \in Findings : Spent(f).stage = drv[p].stage
  BY DriverFacts DEF DriverState
<1> HIDE DEF d, Spent
<1>3. CASE Continue(p, d, "review")
  BY <1>3 DEF Continue, rowVars
<1>4. ASSUME NEW f \in Findings, Advance(p, Spent(f), "IMPLEMENTATION", "implement")
      PROVE  stage = drv[p].stage /\ stage' = "IMPLEMENTATION"
  <2>1. stage = Spent(f).stage /\ stage' = "IMPLEMENTATION"
    BY <1>4 DEF Advance, CompareAndSet
  <2> QED BY <1>2, <2>1
<1>5. CASE Finish(p, "BLOCKED")
  BY <1>5 DEF Finish, CompareAndSet
<1> QED BY <1>1, <1>3, <1>4, <1>5

LEMMA WorkFollows ==
  ASSUME ProcessOK, NEW p \in Procs, Work(p), stage' # stage, stage \in WorkingStages
  PROVE  Follows(stage, stage')
<1> USE Table, BelievedStage DEF At
<1>1. CASE BeginReadiness(p) \/ FreezeSnapshot(p) \/ FinishReadiness(p) \/ FinishSetup(p)
  BY <1>1 DEF BeginReadiness, FreezeSnapshot, FinishReadiness, FinishSetup, Advance, Go, Continue,
              Finish, CompareAndSet, rowVars
<1>2. CASE HandleImplementerResult(p) \/ BeginReview(p) \/ BeginAcceptance(p)
           \/ ReenterImplementation(p) \/ CheckIssue(p) \/ OpenPr(p)
  BY <1>2 DEF HandleImplementerResult, BeginReview, BeginAcceptance, ReenterImplementation,
              CheckIssue, OpenPr, Advance, Finish, CompareAndSet
<1>3. CASE FinishVerification(p)
  BY <1>3, VerificationFollows DEF FinishVerification
<1>4. CASE HandleReview(p)
  <2>1. "INDEPENDENT_REVIEW" \in CycleStages
    BY DEF CycleStages
  <2> QED BY <1>4, <2>1, CorrectionFollows
          DEF HandleReview, RejectOutright, Go, Continue, Finish, CompareAndSet, rowVars
<1>5. CASE HandleAcceptance(p)
  <2>1. "ACCEPTANCE_VERIFICATION" \in CycleStages
    BY DEF CycleStages
  <2> QED BY <1>5, <2>1, CorrectionFollows
          DEF HandleAcceptance, RejectOutright, Go, Continue, Finish, CompareAndSet, rowVars
<1>6. CASE BeginResumed(p)
  <2>1. Seeded(drv[p]).stage = drv[p].stage
    BY DriverFacts DEF Seeded, DriverState
  <2>2. stage = drv[p].stage /\ drv[p].stage \in ResumableStages
    BY <1>6, <2>1 DEF BeginResumed, Advance, CompareAndSet
  <2> QED BY <2>2 DEF ResumableStages, WorkingStages
<1>7. CASE MarkFailed(p)
  BY <1>7 DEF MarkFailed
<1>8. CASE \/ CreateWorkspace(p) \/ LaunchImplementer(p) \/ ImplementerReturns(p)
           \/ RunVerificationCommands(p) \/ ReviewerReturns(p) \/ VerifierReturns(p)
           \/ CheckTree(p) \/ Commit(p) \/ RecordCommit(p) \/ Push(p)
           \/ FindPullRequest(p) \/ CreatePullRequest(p) \/ RecordPullRequest(p)
           \/ FindComment(p) \/ CreateComment(p) \/ RecordComment(p)
           \/ RefuseResume(p) \/ ResumeListed(p)
  BY <1>8 DEF CreateWorkspace, LaunchImplementer, ImplementerReturns,
           RunVerificationCommands, ReviewerReturns, VerifierReturns,
           CheckTree, Commit, RecordCommit, Push, FindPullRequest, CreatePullRequest,
           RecordPullRequest, FindComment, CreateComment, RecordComment,
           RefuseResume, ResumeListed, Go, Continue, rowVars
<1> QED BY <1>1, <1>2, <1>3, <1>4, <1>5, <1>6, <1>7, <1>8 DEF Work

LEMMA NextFollows ==
  ASSUME ProcessOK, Next, stage' # stage, stage \in WorkingStages
  PROVE  Follows(stage, stage')
<1>1. CASE \E p \in Procs : Work(p)
  BY <1>1, WorkFollows
<1>2. CASE \E p \in Procs : Fault(p) \/ Takeover(p)
  BY <1>2, Table DEF Fault, Throw, FailClosed, ThrowWhileBusy, Crash,
                     Takeover, Resume, ListNonterminal, rowVars
<1>3. CASE Environment
  BY <1>3, Table DEF Environment, Abandon, EditWorktree, EditIssue, RivalStarts, RivalEnds, rowVars
<1> QED BY <1>1, <1>2, <1>3 DEF Next

\* RunStore.transition takes any target: still every move of a run that is
\* being worked on, by whichever process, is one the table has, or a setup
\* that ends BLOCKED.
THEOREM TableIsFollowed == Spec => StagesFollowTable
<1>1. TypeOK /\ [Next]_vars =>
        [stage' # stage /\ stage \in WorkingStages =>
           \/ stage' \in Transitions[stage]
           \/ stage = "WORKSPACE_CREATION" /\ stage' = "BLOCKED"]_vars
  BY NextFollows DEF Follows, TypeOK
<1> QED BY <1>1, TypeCorrect, PTL DEF Spec, StagesFollowTable

(***************************************************************************)
(* The committed tree. Between the hash of the verification evidence and   *)
(* the commit no step of the process writes to the worktree; somebody who  *)
(* edits it makes it differ from the hash, and does not edit it back.      *)
(***************************************************************************)
Hashed    == {"review", "reviewing"}
Examined  == {"reviewed", "accept", "accepting"}
Confirmed == {"accepted", "publish", "checkTree", "commit"}
Looking   == Hashed \cup Examined \cup Confirmed

\* While the worktree is as it was hashed, it is also what the reviewer and
\* the verifier worked on; without an edit it is as it was hashed.
Looked(p) ==
    LET d == drv[p]
    IN  /\ d.pc \in Looking /\ edits = 0 => d.verified = tree
        /\ d.pc \in Examined /\ d.verified = tree => d.reviewed = tree
        /\ d.pc \in Confirmed /\ d.verified = tree => d.reviewed = tree /\ d.accepted = tree

\* What a process has seen does not change with where it goes.
SameTrees(d, e) ==
    d.verified = e.verified /\ d.reviewed = e.reviewed /\ d.accepted = e.accepted

LEMMA AdvanceTrees ==
  ASSUME ProcessOK, NEW p \in Procs, NEW d \in DriverState, NEW to \in RunStages,
         NEW pc \in PCs, Advance(p, d, to, pc)
  PROVE  drv'[p].pc = pc /\ SameTrees(drv'[p], d)
<1>1. drv'[p] = [d EXCEPT !.stage = to, !.pc = pc]
  BY DEF ProcessOK, Advance
<1>2. DEFINE e == [d EXCEPT !.stage = to, !.pc = pc]
<1>3. e.pc = pc /\ SameTrees(e, d)
  BY DEF SameTrees, DriverState
<1> QED BY <1>1, <1>3

LEMMA ContinueTrees ==
  ASSUME ProcessOK, NEW p \in Procs, NEW d \in DriverState, NEW pc \in PCs,
         Continue(p, d, pc)
  PROVE  drv'[p].pc = pc /\ SameTrees(drv'[p], d)
<1>1. drv'[p] = [d EXCEPT !.pc = pc]
  BY DEF ProcessOK, Continue
<1>2. DEFINE e == [d EXCEPT !.pc = pc]
<1>3. e.pc = pc /\ SameTrees(e, d)
  BY DEF SameTrees, DriverState
<1> QED BY <1>1, <1>3

\* The program counters of the steps from the hash to the commit.
LEMMA LookingPCs ==
  /\ {"idle", "start", "readiness", "frozen", "workspace", "setup", "implement", "implementing",
      "implemented", "verify", "hash", "correct", "recordCommit", "push", "findPr",
      "createPr", "recordPr", "findComment", "createComment", "recordComment", "prOpen"}
       \subseteq PCs \ Looking
  /\ Looking \subseteq PCs
  /\ Outside \cap Looking = {}
BY DEF PCs, Looking, Hashed, Examined, Confirmed, Outside

LEMMA FinishLooksAway ==
  ASSUME ProcessOK, NEW p \in Procs, NEW to, Finish(p, to)
  PROVE  drv'[p].pc \notin Looking
BY FinishFields, LookingPCs DEF Idle

LEMMA CorrectionLooksAway ==
  ASSUME ProcessOK, NEW p \in Procs, NEW at \in CycleStages, RequestCorrection(p, at)
  PROVE  drv'[p].pc \notin Looking
<1> DEFINE Spent(f) == [drv[p] EXCEPT !.seen = @ \cup {<<at, f>>}, !.cycles = @ + 1]
<1>1. PICK f \in Findings :
        \/ Advance(p, Spent(f), "CORRECTION", "correct")
        \/ Finish(p, "BLOCKED")
  BY DEF RequestCorrection
<1>2. drv[p].seen \cup {<<at, f>>} \in SUBSET Fingerprints /\ drv[p].cycles + 1 \in Nat
  BY DriverFacts DEF DriverState, Fingerprints
<1>3. Spent(f) \in DriverState
  BY <1>2, DriverFacts, SpentIsDriver
<1> HIDE DEF Spent
<1> QED BY <1>1, <1>3, Names, LookingPCs, AdvanceTrees, FinishLooksAway

\* A reviewer and a verifier look at the tree as it is.
LEMMA ReviewerLooks ==
  ASSUME ProcessOK, DataOK, NEW p \in Procs, ReviewerReturns(p)
  PROVE  /\ drv'[p].pc = "reviewed" /\ drv'[p].verified = drv[p].verified
         /\ drv'[p].reviewed = tree
<1> DEFINE d == [drv[p] EXCEPT !.seq = @ + 1, !.reviewed = tree]
<1>1. d \in DriverState /\ Continue(p, d, "reviewed")
  BY ChangedDrivers DEF ReviewerReturns
<1>2. d.verified = drv[p].verified /\ d.reviewed = tree
  BY DriverFacts DEF DriverState
<1> HIDE DEF d
<1> QED BY <1>1, <1>2, ContinueTrees DEF SameTrees, PCs

LEMMA VerifierLooks ==
  ASSUME ProcessOK, DataOK, NEW p \in Procs, VerifierReturns(p)
  PROVE  /\ drv'[p].pc = "accepted" /\ drv'[p].verified = drv[p].verified
         /\ drv'[p].reviewed = drv[p].reviewed /\ drv'[p].accepted = tree
<1> DEFINE d == [drv[p] EXCEPT !.seq = @ + 1, !.accepted = tree]
<1>1. d \in DriverState /\ Continue(p, d, "accepted")
  BY ChangedDrivers DEF VerifierReturns
<1>2. d.verified = drv[p].verified /\ d.reviewed = drv[p].reviewed /\ d.accepted = tree
  BY DriverFacts DEF DriverState
<1> HIDE DEF d
<1> QED BY <1>1, <1>2, ContinueTrees DEF SameTrees, PCs

LEMMA VerificationLooks ==
  ASSUME ProcessOK, DataOK, NEW p \in Procs, FinishVerification(p)
  PROVE  \/ drv'[p].pc = "review" /\ drv'[p].verified = tree
         \/ drv'[p].pc \notin Looking
<1> DEFINE d == [drv[p] EXCEPT !.verified = tree]
           Spent(f) == [d EXCEPT !.seen = @ \cup {<<"VERIFICATION", f>>}]
<1>1. d \in DriverState /\ d.verified = tree
  BY ChangedDrivers, DriverFacts DEF DriverState
<1>2. ASSUME NEW f \in Findings PROVE Spent(f) \in DriverState
  <2>1. d.seen \cup {<<"VERIFICATION", f>>} \in SUBSET Fingerprints
    BY <1>1 DEF DriverState, Fingerprints, AttemptStages
  <2> HIDE DEF d
  <2> QED BY <1>1, <2>1, SeenIsDriver
<1>3. \/ Continue(p, d, "review")
      \/ \E f \in Findings : Advance(p, Spent(f), "IMPLEMENTATION", "implement")
      \/ Finish(p, "BLOCKED")
  BY DEF FinishVerification
<1> HIDE DEF d, Spent
<1>4. CASE Continue(p, d, "review")
  BY <1>1, <1>4, ContinueTrees DEF SameTrees, PCs
<1>5. CASE \E f \in Findings : Advance(p, Spent(f), "IMPLEMENTATION", "implement")
  BY <1>2, <1>5, Names, LookingPCs, AdvanceTrees
<1>6. CASE Finish(p, "BLOCKED")
  BY <1>6, FinishLooksAway
<1> QED BY <1>3, <1>4, <1>5, <1>6

\* The steps that go on with what they know, or away.
LEMMA WorkLooks ==
  ASSUME ProcessOK, DataOK, NEW p \in Procs, Work(p)
  PROVE  \/ drv'[p].pc \notin Looking
         \/ FinishVerification(p) \/ ReviewerReturns(p) \/ VerifierReturns(p)
         \/ /\ UNCHANGED <<tree, edits>> /\ SameTrees(drv'[p], drv[p])
            /\ \/ drv[p].pc \in Hashed /\ drv'[p].pc \in Hashed
               \/ drv[p].pc \in Examined /\ drv'[p].pc \in Examined
               \/ drv[p].pc \in Confirmed /\ drv'[p].pc \in Confirmed
<1> USE DriverFacts, Names, LookingPCs
<1>1. CASE BeginReadiness(p) \/ FinishReadiness(p) \/ FinishSetup(p)
           \/ HandleImplementerResult(p) \/ ReenterImplementation(p)
  BY <1>1, AdvanceTrees, FinishLooksAway
  DEF BeginReadiness, FreezeSnapshot, FinishReadiness, FinishSetup, HandleImplementerResult,
      ReenterImplementation
<1>2. CASE FreezeSnapshot(p) \/ CreateWorkspace(p) \/ RunVerificationCommands(p) \/ Commit(p)
  BY <1>2, ContinueTrees DEF FreezeSnapshot, CreateWorkspace, RunVerificationCommands, Commit, Go
<1>3. CASE LaunchImplementer(p) \/ ImplementerReturns(p)
  BY <1>3, ChangedDrivers, ContinueTrees DEF LaunchImplementer, ImplementerReturns
<1>4. CASE RecordCommit(p) \/ Push(p) \/ FindPullRequest(p) \/ CreatePullRequest(p)
           \/ RecordPullRequest(p) \/ FindComment(p) \/ CreateComment(p) \/ RecordComment(p)
  BY <1>4, ContinueTrees
  DEF RecordCommit, Push, FindPullRequest, CreatePullRequest, RecordPullRequest,
      FindComment, CreateComment, RecordComment, Go
<1>5. CASE OpenPr(p)
  BY <1>5, FinishLooksAway DEF OpenPr
<1>6. CASE BeginResumed(p)
  BY <1>6, ChangedDrivers, AdvanceTrees DEF BeginResumed
<1>7. CASE RefuseResume(p) \/ ResumeListed(p) \/ MarkFailed(p)
  BY <1>7, OutsideUnspent DEF Driving
<1>8. CASE BeginReview(p)
  BY <1>8, AdvanceTrees DEF BeginReview, At, Hashed, Looking, gitVars, faultVars
<1>9. CASE BeginAcceptance(p)
  BY <1>9, AdvanceTrees DEF BeginAcceptance, At, Examined, Looking, gitVars, faultVars
<1>10. CASE HandleReview(p)
  <2>1. CASE Go(p, "accept")
    BY <1>10, <2>1, ContinueTrees
    DEF HandleReview, Go, At, Examined, Looking, gitVars, faultVars
  <2> QED BY <1>10, <2>1, CorrectionLooksAway, FinishLooksAway
          DEF HandleReview, RejectOutright, CycleStages
<1>11. CASE HandleAcceptance(p)
  <2>1. CASE Go(p, "publish")
    BY <1>11, <2>1, ContinueTrees
    DEF HandleAcceptance, Go, At, Confirmed, Looking, gitVars, faultVars
  <2> QED BY <1>11, <2>1, CorrectionLooksAway, FinishLooksAway
          DEF HandleAcceptance, RejectOutright, CycleStages
<1>12. CASE CheckIssue(p)
  BY <1>12, AdvanceTrees, FinishLooksAway
  DEF CheckIssue, At, Confirmed, Looking, gitVars, faultVars
<1>13. CASE CheckTree(p)
  BY <1>13, ContinueTrees DEF CheckTree, Go, At, Confirmed, Looking, gitVars, faultVars
<1> QED BY <1>1, <1>2, <1>3, <1>4, <1>5, <1>6, <1>7, <1>8, <1>9, <1>10, <1>11, <1>12, <1>13
        DEF Work

LEMMA LookedKept ==
  ASSUME ProcessOK, DataOK, NEW p \in Procs, Looked(p), Work(p) \/ Takeover(p) \/ Fault(p)
  PROVE  Looked(p)'
<1>1. CASE drv'[p].pc \notin Looking
  BY <1>1 DEF Looked, Looking
<1>2. CASE Takeover(p) \/ Fault(p)
  BY <1>1, <1>2, OutsideUnspent, LookingPCs DEF Driving
<1>3. CASE FinishVerification(p)
  <2>1. UNCHANGED <<tree, edits>>
    BY <1>3 DEF FinishVerification, gitVars, faultVars
  <2> QED BY <1>1, <1>3, <2>1, VerificationLooks
          DEF Looked, Looking, Hashed, Examined, Confirmed
<1>4. CASE ReviewerReturns(p)
  <2>1. UNCHANGED <<tree, edits>> /\ drv[p].pc = "reviewing"
    BY <1>4 DEF ReviewerReturns, At, gitVars, faultVars
  <2> QED BY <1>4, <2>1, ReviewerLooks DEF Looked, Looking, Hashed, Examined, Confirmed
<1>5. CASE VerifierReturns(p)
  <2>1. UNCHANGED <<tree, edits>> /\ drv[p].pc = "accepting"
    BY <1>5 DEF VerifierReturns, At, gitVars, faultVars
  <2> QED BY <1>5, <2>1, VerifierLooks DEF Looked, Looking, Hashed, Examined, Confirmed
<1>6. CASE /\ UNCHANGED <<tree, edits>> /\ SameTrees(drv'[p], drv[p])
           /\ \/ drv[p].pc \in Hashed /\ drv'[p].pc \in Hashed
              \/ drv[p].pc \in Examined /\ drv'[p].pc \in Examined
              \/ drv[p].pc \in Confirmed /\ drv'[p].pc \in Confirmed
  BY <1>6 DEF Looked, SameTrees, Looking, Hashed, Examined, Confirmed
<1> QED BY <1>1, <1>2, <1>3, <1>4, <1>5, <1>6, WorkLooks

\* One edit by hand, at most, in the life of the run.
EditedOnce == MaxEdits <= 1

TreeInv == \A p \in Procs : Looked(p)

LEMMA TreeNext ==
  ASSUME OneProcess, EditedOnce, TypeOK, TreeInv, [Next]_vars
  PROVE  TreeInv'
<1> USE DEF TypeOK
<1>1. ASSUME NEW p \in Procs, Work(p) \/ Takeover(p) \/ Fault(p) PROVE TreeInv'
  <2>1. Looked(p)'
    BY <1>1, LookedKept DEF TreeInv
  <2> QED BY <2>1, OneProcess DEF OneProcess, TreeInv
<1>2. CASE EditWorktree
  <2>1. edits = 0 /\ edits' = 1
    BY <1>2, RunAssumption DEF EditWorktree, EditedOnce, DataOK
  <2>2. drv' = drv /\ tree' # tree
    BY <1>2 DEF EditWorktree
  <2> QED BY <2>1, <2>2 DEF TreeInv, Looked, Looking, Hashed, Examined, Confirmed
<1>3. CASE Environment /\ ~EditWorktree
  <2>1. UNCHANGED <<drv, tree>> /\ (edits' = 0 => edits = 0)
    BY <1>3 DEF Environment, Abandon, EditIssue, RivalStarts, RivalEnds, gitVars, faultVars, DataOK
  <2> QED BY <2>1 DEF TreeInv, Looked
<1>4. CASE UNCHANGED vars
  BY <1>4 DEF vars, gitVars, faultVars, TreeInv, Looked
<1> QED BY <1>1, <1>2, <1>3, <1>4 DEF Next, Environment

LEMMA OnlyCommitMovesHead ==
  ASSUME Next, head' # head, ws
  PROVE  \E p \in Procs : Commit(p)
<1>1. ASSUME NEW p \in Procs, Work(p), ~Commit(p) PROVE FALSE
  BY <1>1
  DEF Work, gitVars, BeginReadiness, FreezeSnapshot, FinishReadiness, CreateWorkspace, FinishSetup,
      LaunchImplementer, ImplementerReturns, HandleImplementerResult,
      RunVerificationCommands, FinishVerification, BeginReview, ReviewerReturns,
      HandleReview, BeginAcceptance, VerifierReturns, HandleAcceptance,
      ReenterImplementation, CheckIssue, CheckTree, RecordCommit, Push, FindPullRequest,
      CreatePullRequest, RecordPullRequest, FindComment, CreateComment, RecordComment, OpenPr,
      BeginResumed, RefuseResume, ResumeListed, MarkFailed
<1>2. ASSUME NEW p \in Procs, Fault(p) \/ Takeover(p) PROVE FALSE
  BY <1>2 DEF Fault, Throw, ThrowWhileBusy, Crash, Takeover, Resume, ListNonterminal, gitVars
<1>3. CASE Environment
  BY <1>3 DEF Environment, Abandon, EditWorktree, EditIssue, RivalStarts, RivalEnds, gitVars
<1> QED BY <1>1, <1>2, <1>3 DEF Next

\* The commit holds the tree that was hashed after the last verification and
\* that the reviewer and the verifier both worked on, provided that one
\* process at a time drives the run and that an edit of the worktree is not
\* undone between two looks at it.
THEOREM ReviewedIsCommitted ==
  OneProcess /\ EditedOnce => (Spec => OnlyReviewedTreeCommitted)
<1> SUFFICES ASSUME OneProcess, EditedOnce PROVE Spec => OnlyReviewedTreeCommitted
  OBVIOUS
<1>1. Init => TreeInv
  <2> SUFFICES ASSUME Init PROVE TreeInv
    OBVIOUS
  <2>1. ASSUME NEW p \in Procs PROVE drv[p].pc \in {"start", "idle"}
    BY DEF Init, Idle
  <2> QED BY <2>1 DEF TreeInv, Looked, Looking, Hashed, Examined, Confirmed
<1>2. TypeOK /\ TreeInv /\ [Next]_vars => TreeInv'
  BY TreeNext
<1>3. TypeOK /\ TreeInv /\ [Next]_vars =>
        [head' # head /\ ws =>
           \E p \in Procs :
             /\ At(p, "commit")
             /\ {drv[p].verified, drv[p].reviewed, drv[p].accepted} = {head'}]_vars
  <2> SUFFICES ASSUME TreeInv, Next, head' # head, ws
               PROVE  \E p \in Procs :
                        /\ At(p, "commit")
                        /\ {drv[p].verified, drv[p].reviewed, drv[p].accepted} = {head'}
    BY DEF vars, gitVars
  <2>1. PICK p \in Procs : Commit(p)
    BY OnlyCommitMovesHead
  <2>2. At(p, "commit") /\ drv[p].verified = tree /\ head' = tree
    BY <2>1 DEF Commit
  <2>3. drv[p].reviewed = tree /\ drv[p].accepted = tree
    BY <2>2 DEF TreeInv, Looked, At, Confirmed
  <2> QED BY <2>2, <2>3
<1> QED BY <1>1, <1>2, <1>3, TypeCorrect, PTL DEF Spec, OnlyReviewedTreeCommitted
=================================================================================
