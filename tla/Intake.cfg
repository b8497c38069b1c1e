\* Backlogs of two issues, and every graph over three issues or sparse one over four.
SPECIFICATION Spec
CHECK_DEADLOCK FALSE
CONSTANTS
    Issues <- FourIssues
    Outside <- OneOutside
    Worlds <- AllWorlds
    None = None
    MaxChanges = 2
    MaxFaults = 1
INVARIANTS
    CyclesAreExact OfferedIsExecutable LabelsFollowReport PlanIsSound
PROPERTIES
    DiscoverLeavesAlone
