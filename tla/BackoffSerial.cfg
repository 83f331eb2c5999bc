CONSTANTS
    Callers = {p, q}
    Min = 0
    Max = 11
    DefaultMin = 2
SPECIFICATION Spec
SYMMETRY Symmetric
INVARIANT SerialDelayInBounds
CONSTRAINT UntilOverlap
