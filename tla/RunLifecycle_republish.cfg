\* A publication interrupted after its commit cannot be finished.
SPECIFICATION Spec
CHECK_DEADLOCK FALSE
SYMMETRY Symmetry
CONSTANTS
    p1 = p1 p2 = p2 t0 = t0 t1 = t1 t2 = t2 f1 = f1 f2 = f2
    None = None
    BaseTree = t0
    Procs <- OneProc
    Trees <- TwoTrees
    Findings <- OneFinding
    MaxAttempts = 1
    MaxCycles = 1
    MaxResumes = 1
    MaxCrashes = 0
    MaxBusy = 0
    MaxEdits = 0
INVARIANT
    CommittedWorkCanBePublished
