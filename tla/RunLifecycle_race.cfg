\* Two processes taking the run from one another.
SPECIFICATION Spec
CHECK_DEADLOCK FALSE
SYMMETRY Symmetry
CONSTANTS
    p1 = p1 p2 = p2 t0 = t0 t1 = t1 t2 = t2 f1 = f1 f2 = f2
    None = None
    BaseTree = t0
    Procs <- TwoProcs
    Trees <- TwoTrees
    Findings <- OneFinding
    MaxAttempts = 1
    MaxCycles = 0
    MaxResumes = 2
    MaxCrashes = 0
    MaxBusy = 0
    MaxEdits = 0
INVARIANTS
    NoOrphanedRun
PROPERTIES
    FinalStagesAreFinal StagesFollowTable
