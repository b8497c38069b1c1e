CONSTANTS
    d1 = d1  d2 = d2  p1 = p1  p2 = p2
    start1 = start1  start2 = start2  add1 = add1  stop1 = stop1
    Daemons = {d1, d2}
    Pids = {p1, p2}
    Starters = {start1, start2}
    Adders = {add1}
    Stoppers = {stop1}
    Given <- IssuesGiven
    None = None
    MaxDeaths = 1
    MaxReuses = 1
    MaxRuns = 2
SPECIFICATION Spec
SYMMETRY Alike
INVARIANTS
    OneDaemon
    AcceptedIsKept
CHECK_DEADLOCK FALSE
