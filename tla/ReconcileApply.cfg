CONSTANTS
    t1 = t1  t2 = t2  t3 = t3  t4 = t4  T3 = T3  goal = goal
    Ambiguous = Ambiguous
    Nothing = Nothing
    IssueNumbers = {1, 2, 3, 4, 5, 6}
    IssueTitles = {"epic", t1, t2, t3, t4}
    Epic = 1
    Backlog <- SmallBacklog
    BacklogTitles <- SmallTitles
    Normalized <- Lowered
    Proposals <- SomeProposals
    MaxReports = 2
    MaxApplies = 2
    MaxFaults = 1
    MaxCrashes = 1
    MaxEdits = 1
SPECIFICATION Spec
INVARIANTS
    NothingIsRepeated
    ReportsAreTrue
    AppliedIsSettled
    SteeredByLastApply
PROPERTIES
    WritesAreApproved
CHECK_DEADLOCK FALSE
