\* Dependencies inside and outside the queue, issues added meanwhile, one idle
\* wait, a stop, one failing request.
SPECIFICATION Spec
CHECK_DEADLOCK FALSE
CONSTANTS
    i1 = i1 i2 = i2 i3 = i3 ext = ext
    None = None
    Issues <- ThreeIssues
    External <- OneExternal
    DependsOn <- Chain
    ScopesConflict <- Disjoint
    InitialQueue <- Q12
    MaxConcurrentRuns = 2
    MaxStartedRuns = None
    MaxFailedRuns = None
    HasDeadline = FALSE
    Idles = TRUE
    MayStop = TRUE
    Closable <- OneExternal
    MaxAdds = 2
    MaxFaults = 1
INVARIANTS
    EntriesMatchRuns LabelsMatchOutcome NoIssueLost WorkConserving NothingLeftBehind
PROPERTY
    ImplementsPool
