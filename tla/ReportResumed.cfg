SPECIFICATION Spec
CONSTANTS
    MaxIterations = 2
    Attempts = 2
    MaxResumes = 1
    Fault = {"error", "parse"}
    Digit = {"0", "1", "2", "3", "4", "5", "6", "7", "8", "9"}
    Separator = {"-", ".", "_"}
    Row <- MCRow
    ModelId <- MCModelId
    Generation <- MCGeneration
    Setup <- MCSetup
CHECK_DEADLOCK FALSE
INVARIANT TypeOK
INVARIANT IterationOfDraft
INVARIANT StepsAttributed
INVARIANT StepsAddUp
INVARIANT CostExplained
INVARIANT PricedByVersion
