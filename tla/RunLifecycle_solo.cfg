\* One process at a time, killed and resumed; two correction budgets.
SPECIFICATION Spec
CHECK_DEADLOCK FALSE
SYMMETRY Symmetry
CONSTANTS
    p1 = p1 p2 = p2 t0 = t0 t1 = t1 t2 = t2 f1 = f1 f2 = f2
    None = None
    BaseTree = t0
    Procs <- OneProc
    Trees <- TwoTrees
    Findings <- OneFinding
    MaxAttempts = 2
    MaxCycles = 1
    MaxResumes = 2
    MaxCrashes = 1
    MaxBusy = 1
    MaxEdits = 1
INVARIANTS
    TypeOK SessionsWithinBudget NoAttemptGap RecordedMeansPublished
    PublishedAtMostOnce OpenPrShowsHead
PROPERTIES
    OnlyReviewedTreeCommitted
