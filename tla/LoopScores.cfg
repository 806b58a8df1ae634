SPECIFICATION FairSpec
CONSTANTS
    i1 = i1  i2 = i2  i3 = i3
    None = None
    Invocation = {i1, i2}
    MaxIterations = 3
    TrustScore = {80, 95}
    AtsScore = {70, 90}
    MinTrust = 90
    MinAts = 85
    Durable = TRUE
    MaxPending = 1
    MaxRunning = 1
    Fault = {"agent", "crash"}
CHECK_DEADLOCK FALSE
INVARIANT TypeOK
INVARIANT BestDraftShipped
PROPERTY ImplementsDurableRun
PROPERTY PaidWorkKept
PROPERTY Terminates
