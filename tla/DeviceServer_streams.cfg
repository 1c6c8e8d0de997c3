SPECIFICATION MCSpec
CONSTANTS
    s1 = s1  s2 = s2
    Threads = {s1, s2, "e1"}
    Streams = {s1, s2}
    Emitters = {"e1"}
    Operators = {"o1", "o2"}
    QueueSize = 1
    MaxStarts = 2
    Nil = Nil
CHECK_DEADLOCK FALSE
INVARIANTS TypeOK
PROPERTIES NothingRunsAfterStop ListIsStable GoroutinesReturnUnlessHeld StartIsAnswered OrderlyStopReturnsUnlessHeld
