SPECIFICATION EvalSpec
SYMMETRY Symmetry
CONSTANTS
    k1 = k1  k2 = k2  k3 = k3  k4 = k4
    a = a  b = b  t = t  u = u
    Chunk = {k1, k2, k3, k4}
    K = 2
    Candidates = 3
    Limit = 2
    DocId = {a, b}
    Text = {t, u}
    CorpusSize = 2
    MaxCases = 2
    MaxLabels = 2
CHECK_DEADLOCK FALSE
INVARIANT EvalTypeOK
INVARIANT BothBeatOne
INVARIANT FusionFaithful
INVARIANT EveryLabelReachable
INVARIANT MeansExplained
