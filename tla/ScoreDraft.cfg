SPECIFICATION EvalSpec
CONSTANTS
    MaxClaims = 6
    MaxKeywords = 13
    Gate <- MCGate
    MaxCases = 3
    Provider = {"test", "bedrock"}
CHECK_DEADLOCK FALSE
INVARIANT EvalTypeOK
INVARIANT GateIsExact
INVARIANT MissesTold
INVARIANT MacroExposesSkew
PROPERTY VerdictAgreesWithScore
