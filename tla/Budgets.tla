--------------------------------- MODULE Budgets --------------------------------
(***************************************************************************)
(* The budget decision of src/workflow/budgets.ts. A failure is reduced to *)
(* its fingerprint: the stage it happened in and its normalised findings.  *)
(* Two failures with the same stage and finding are the same failure.      *)
(***************************************************************************)
EXTENDS Naturals

CONSTANTS
    Findings,       \* normalised findings a failure can have
    MaxAttempts,    \* budgets.implementation.maxAttempts
    MaxCycles       \* budgets.review.maxCorrectionCycles

ASSUME BudgetAssumption == MaxAttempts \in Nat \ {0} /\ MaxCycles \in Nat

\* Stages whose failure is charged to the implementation attempts, and
\* stages whose failure is charged to the correction cycles.
AttemptStages == {"IMPLEMENTATION", "VERIFICATION"}
CycleStages   == {"CORRECTION", "INDEPENDENT_REVIEW", "ACCEPTANCE_VERIFICATION"}

Fingerprints == (AttemptStages \cup CycleStages) \X Findings

\* Variant, wrong: one failure too many is forgiven.
RecordFailureLate(seen, attempts, cycles, fp) ==
    IF fp \in seen
      THEN "BLOCK_REPEATED_FAILURE"
      ELSE IF \/ fp[1] \in AttemptStages /\ attempts > MaxAttempts
              \/ fp[1] \in CycleStages /\ cycles > MaxCycles
        THEN "BLOCK_BUDGET_EXHAUSTED"
        ELSE "CONTINUE"

\* BudgetTracker.recordFailure: `seen` are the fingerprints this process has
\* recorded since it took the run, `attempts` and `cycles` the counters.
RecordFailure(seen, attempts, cycles, fp) ==
    IF fp \in seen
      THEN "BLOCK_REPEATED_FAILURE"
      ELSE IF \/ fp[1] \in AttemptStages /\ attempts >= MaxAttempts
              \/ fp[1] \in CycleStages /\ cycles >= MaxCycles
        THEN "BLOCK_BUDGET_EXHAUSTED"
        ELSE "CONTINUE"

=================================================================================
