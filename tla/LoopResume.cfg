SPECIFICATION Spec
SYMMETRY Symmetry
CONSTANTS
    i1 = i1  i2 = i2  i3 = i3
    None = None
    Invocation = {i1, i2, i3}
    MaxIterations = 1
    TrustScore = {95}
    AtsScore = {85}
    MinTrust = 90
    MinAts = 85
    Durable = TRUE
    MaxPending = 2
    MaxRunning = 2
    Fault = {"agent", "crash"}
CHECK_DEADLOCK FALSE
INVARIANT HistoryOfOneRun
PROPERTY EveryStepCounts
