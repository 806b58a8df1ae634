SPECIFICATION Spec
CONSTANTS
    MaxIterations = 1
    Attempts = 2
    MaxResumes = 0
    Fault = {"parse"}
    Digit = {"0", "1", "2", "3", "4", "5", "6", "7", "8", "9"}
    Separator = {"-", ".", "_"}
    Row <- MCRow
    ModelId <- MCModelId
    Generation <- MCGeneration
    Setup <- MCOneSetup
CHECK_DEADLOCK FALSE
INVARIANT StepOfIteration
