CONSTANTS
    Calls = {c1}
    Reporters <- ErrorReporting
SPECIFICATION Spec
INVARIANT PanicsReported
CHECK_DEADLOCK FALSE
