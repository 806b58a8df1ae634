------------------------------- MODULE TrustEval -------------------------------
(***************************************************************************)
(* The trust suite of the evaluation harness (evals/trust_eval.py) beside   *)
(* the product's own use of a Trust Report (Scoring): the Trust Harness is  *)
(* run on a draft of one labeled claim, its report is collapsed to one      *)
(* verdict, and the verdicts are scored as a classification                 *)
(* (evals/metrics.py).  The Trust Score of the same report is computed by   *)
(* ScoreTrust and the suite does not read it.                               *)
(***************************************************************************)
EXTENDS Scoring, SequencesExt

CONSTANTS
    MaxCases,     \* labeled claims of the suite
    Provider      \* configured LLM providers, "test" or another

ASSUME TrustEvalAssumption == MaxCases \in Nat

VARIABLES
    caller,   \* who runs the Trust Harness: "workflow", "suite" or "skipped"
    cases     \* TrustCaseResults: [expected, predicted]

allVars == <<vars, caller, cases>>

\* ClaimStatus
Status == {"unsupported", "partially_supported", "supported"}

\* _SEVERITY.index
Severity(status) ==
    CASE status = "unsupported" -> 0
      [] status = "partially_supported" -> 1
      [] status = "supported" -> 2

\* A suite has no gate: the run's gate is drawn but nothing reads it.
EvalInit ==
    /\ Init
    /\ \/ caller = "workflow"
       \/ \E provider \in Provider : caller = IF provider = "test" THEN "skipped" ELSE "suite"
    /\ cases = <<>>

StatusesOf(c) ==
    (IF c["supported"] > 0 THEN {"supported"} ELSE {})
    \cup (IF c["partial"] > 0 THEN {"partially_supported"} ELSE {})
    \cup (IF c["hallucination"] + c["unsupported_other"] > 0 THEN {"unsupported"} ELSE {})

\* (Mutant of DominantStatus: a report without claims has nothing against it.)
DominantStatusLenient(c) ==
    IF Count(c) = 0 THEN "supported"
    ELSE CHOOSE s \in StatusesOf(c) : \A r \in StatusesOf(c) : Severity(s) <= Severity(r)

\* _dominant_status: the worst claim; a report without claims is unsupported.
DominantStatus(c) ==
    IF Count(c) = 0 THEN "unsupported"
    ELSE CHOOSE s \in StatusesOf(c) : \A r \in StatusesOf(c) : Severity(s) <= Severity(r)

RunCase ==
    /\ caller = "suite"
    /\ Len(cases) < MaxCases
    /\ ScoreTrust
    /\ UNCHANGED <<caller, cases>>

RecordCase ==
    /\ caller = "suite"
    /\ stage = "ats"
    /\ \E expected \in Status :
          cases' = Append(cases, [expected |-> expected, predicted |-> DominantStatus(claims)])
    /\ claims' = [v \in Verdict |-> 0]
    /\ trust' = 0
    /\ stage' = "trust"
    /\ UNCHANGED <<gate, keywords, ats, feedback, reason, caller>>

EvalNext ==
    \/ caller = "workflow" /\ Next /\ UNCHANGED <<caller, cases>>
    \/ RunCase
    \/ RecordCase

EvalSpec == EvalInit /\ [][EvalNext]_allVars

-----------------------------------------------------------------------------
(* evals/metrics.py, in exact fractions <<n, d>>.                          *)

Plus(x, y) == <<x[1] * y[2] + y[1] * x[2], x[2] * y[2]>>
Times(x, y) == <<x[1] * y[1], x[2] * y[2]>>
AtMost(x, y) == x[1] * y[2] <= y[1] * x[2]

IsDangerousError(case) == Severity(case.predicted) > Severity(case.expected)

\* confusion[expected][predicted]
Confusion(suite, e, p) ==
    Cardinality({i \in DOMAIN suite : suite[i].expected = e /\ suite[i].predicted = p})

Labels(suite) == {suite[i].expected : i \in DOMAIN suite} \cup {suite[i].predicted : i \in DOMAIN suite}

\* (Mutant of Support: expected and predicted swapped.)
SupportSwapped(suite, label) == Cardinality({i \in DOMAIN suite : suite[i].predicted = label})
Support(suite, label) == Cardinality({i \in DOMAIN suite : suite[i].expected = label})

PredictedCount(suite, label) == Cardinality({i \in DOMAIN suite : suite[i].predicted = label})

\* _f1: 0 if both are 0.
F1(precision, recall) ==
    LET sum == Plus(precision, recall)
    IN  IF sum[1] = 0 THEN <<0, 1>>
        ELSE Times(<<2 * sum[2], sum[1]>>, Times(precision, recall))

LabelF1(suite, label) ==
    LET truePositive == Confusion(suite, label, label)
        Of(count) == IF count = 0 THEN <<0, 1>> ELSE <<truePositive, count>>
    IN  F1(Of(PredictedCount(suite, label)), Of(Support(suite, label)))

Accuracy(suite) ==
    <<Cardinality({i \in DOMAIN suite : suite[i].expected = suite[i].predicted}), Len(suite)>>

\* The labels that occur in the ground truth, averaged.
MacroF1(suite) ==
    LET scored == {label \in Labels(suite) : Support(suite, label) > 0}
        Sum == FoldFunction(Plus, <<0, 1>>, [label \in scored |-> LabelF1(suite, label)])
    IN  IF scored = {} THEN <<0, 1>> ELSE Times(Sum, <<1, Cardinality(scored)>>)

-----------------------------------------------------------------------------
(* Properties.                                                             *)

EvalTypeOK ==
    /\ TypeOK
    /\ caller \in {"workflow", "suite", "skipped"}
    /\ cases \in BoundedSeq([expected : Status, predicted : Status], MaxCases)
    /\ cases # <<>> => caller = "suite"

\* The verdict of a labeled claim and the Trust Score of the same report never
\* tell two stories.  "Supported" is said exactly of the reports that score 100;
\* a fabrication is let through ("the ones that ship a fabrication") only by a
\* report that scores at least 50, and by none that found no claim.
VerdictAgreesWithScore ==
    [][cases' # cases =>
          LET case == Last(cases')
          IN  /\ case.predicted = "supported" <=> trust = Full
              /\ case.predicted = "partially_supported" => 2 * trust \in Full..(2 * Full - 1)
              /\ (case.expected = "unsupported" /\ IsDangerousError(case)) =>
                    2 * trust >= Full /\ Count(claims) > 0]_allVars

\* "A model that never predicts UNSUPPORTED can look ~80% accurate": macro-F1
\* exposes it.  A label of the ground truth that is never met takes its whole
\* share from macro-F1, whatever the accuracy; macro-F1 is full exactly when the
\* accuracy is; and the lenient errors and the accuracy account for no more cases
\* than there are, a suite without either kind of error being fully accurate.
MacroExposesSkew ==
    (stage = "trust" /\ cases # <<>>) =>
        LET truth == {cases[i].expected : i \in DOMAIN cases}
            missed == {label \in truth : Confusion(cases, label, label) = 0}
            dangerous == {i \in DOMAIN cases : IsDangerousError(cases[i])}
            strict == {i \in DOMAIN cases :
                         Severity(cases[i].predicted) < Severity(cases[i].expected)}
        IN  /\ AtMost(MacroF1(cases),
                      <<Cardinality(truth) - Cardinality(missed), Cardinality(truth)>>)
            /\ AtMost(<<1, 1>>, MacroF1(cases)) <=> AtMost(<<1, 1>>, Accuracy(cases))
            /\ Accuracy(cases)[1] + Cardinality(dangerous) + Cardinality(strict) = Len(cases)
================================================================================
