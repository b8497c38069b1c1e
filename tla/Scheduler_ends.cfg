\* Two issues in conflict, one that waits, a budget of failures: the queue as a
\* pool of work, which every daemon ends some day, also one that idles, has a
\* deadline or is stopped.
SPECIFICATION FairSpec
CHECK_DEADLOCK FALSE
CONSTANTS
    i1 = i1 i2 = i2 i3 = i3 ext = ext
    None = None
    Issues <- ThreeIssues
    External <- NoExternal
    DependsOn <- Chain
    ScopesConflict <- Clash12
    InitialQueue <- Q12
    MaxConcurrentRuns = 2
    MaxStartedRuns = None
    MaxFailedRuns = 1
    HasDeadline = TRUE
    Idles = TRUE
    MayStop = TRUE
    Closable <- TwoIssues
    MaxAdds = 1
    MaxFaults = 1
PROPERTY
    DaemonEnds
INVARIANTS
    NoOverlap WithinBudget
