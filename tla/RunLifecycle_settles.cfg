\* Every working run settles, under fairness of the processes.
SPECIFICATION FairSpec
CHECK_DEADLOCK FALSE
CONSTANTS
    p1 = p1 p2 = p2 t0 = t0 t1 = t1 t2 = t2 f1 = f1 f2 = f2
    None = None
    BaseTree = t0
    Procs <- OneProc
    Trees <- TwoTrees
    Findings <- TwoFindings
    MaxAttempts = 2
    MaxCycles = 1
    MaxResumes = 1
    MaxCrashes = 1
    MaxBusy = 1
    MaxEdits = 1
PROPERTY
    RunSettles
