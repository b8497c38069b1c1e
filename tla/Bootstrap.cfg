\* Two questions, one failed prompt or write; two attempts that stop, one move of people.
SPECIFICATION FairSpec
CONSTANTS
    q1 = q1 q2 = q2
    E1 = E1 E2 = E2 K1 = K1 K2 = K2 K3 = K3
    None = None
    Nothing = Nothing
    Calls = {q1, q2}
    MaxFailures = 1
    IssueNumbers = {1, 2, 3, 4, 5, 6}
    IssueTitles = {E1, E2, K1, K2, K3}
    EpicTitles <- MCEpics
    KidTitles <- MCKids
    EpicOf <- MCEpicOf
    HasConfig = TRUE
    Earlier <- MCEarlier
    EarlierParent <- MCEarlierParent
    MaxStops = 2
    MaxMoves = 1
INVARIANTS
    RepliesGoHome NothingTwice AppliedIsComplete
PROPERTIES
    CallsAreHeard PlanIsApplied
\* Both commands end.
CHECK_DEADLOCK FALSE
