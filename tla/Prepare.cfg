\* Two commands about one issue, one edit, one change of its state or labels.
SPECIFICATION Spec
CONSTANTS
    c1 = c1
    c2 = c2
    Nothing = Nothing
    Commands = {c1, c2}
    Results <- MCResults
    MaxQuestions = 1
    MaxEdits = 1
    MaxMeddling = 1
    MaxClock = 1
SYMMETRY Permuted
INVARIANTS
    PointerIsReady
PROPERTIES
    NothingIsOverridden
    ContractIsOfThisBody
\* The commands are given once: the system stops.
CHECK_DEADLOCK FALSE
