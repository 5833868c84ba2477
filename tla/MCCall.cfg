SPECIFICATION FairSpec
CONSTANTS
    g1 = g1
    g2 = g2
    Goroutines = {g1, g2}
    Threads = {th1, th2, th3}
    NoThread = none
    Calls <- MCCalls
    MaxPins = 1
    MaxEvals = 1
    MaxStops = 1
    ConcurrentErrors = FALSE
    LateErrors = FALSE
INVARIANT RightInjection
INVARIANT FncallsMatchTarget
INVARIANT CalleeIsComplete
INVARIANT NoInternalError
PROPERTY EvaluationEnds
