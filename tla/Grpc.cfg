CONSTANTS
    Calls = {c1, c2}
    Reporters <- ErrorReporting
SPECIFICATION FairSpec
INVARIANTS PanicsContained AnswersFit ObserversAgree
PROPERTIES StopsGracefully CallsAnswered TasksEnd StopCompletes
CHECK_DEADLOCK FALSE
