CONSTANTS
    Calls = {c1, c2}
SPECIFICATION FairSpec
INVARIANTS StopAwaitsServer AnswersFit ObserversAgree
PROPERTIES OnStopReturns ServerStops CallsAnswered
CHECK_DEADLOCK FALSE
