SPECIFICATION Spec
CONSTANTS
    Emitters = {e1, e2}
    Limits = {0, 1}
    MaxLines = 3
    MaxUpsets = 1
INVARIANTS
    LossIsKnown
    FilesAreBounded
PROPERTY
    LogKept
SYMMETRY EmitterSymmetry
CHECK_DEADLOCK FALSE
