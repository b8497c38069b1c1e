\* Patterns of one or two names.
SPECIFICATION Spec
CHECK_DEADLOCK FALSE
CONSTANTS
    Names <- PatternNames
    FileNames <- PathNames
    MaxDepth = 2
INVARIANT
    OverlapIsConflict
