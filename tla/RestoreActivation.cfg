CONSTANTS
    Space = {s, t}
    Stage = {st}
    Apply = {a}
    MaxSequence = 2
    MaxPoints = 2
SPECIFICATION Spec
INVARIANTS RestoreCommits
CHECK_DEADLOCK FALSE
