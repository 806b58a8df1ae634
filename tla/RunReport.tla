------------------------------- MODULE RunReport -------------------------------
(***************************************************************************)
(* What a run reports about itself: UsageTracker (telemetry.py), the       *)
(* callback that sees every model call of one invocation of the graph, the *)
(* timings the graph state carries across invocations, and                 *)
(* _steps_with_iteration (export/artifacts.py), which joins the two lists  *)
(* into the steps of metrics.json.                                         *)
(*                                                                         *)
(* A model call is a number, its run_id; its tokens follow it wherever it  *)
(* is counted.  Its price is the one of the model that its answer names    *)
(* (Pricing); of a cost the model keeps whether it is known.  The history  *)
(* variable madeBy knows which execution of which node made a call.        *)
(***************************************************************************)
EXTENDS Pricing, Functions

CONSTANTS
    MaxIterations,  \* gate.max_iterations
    Attempts,       \* stop_after_attempt of with_structured_retry
    MaxResumes,     \* how often a failed run is resumed
    Fault,          \* "error": a call gets no answer; "parse": an unusable one
    Row,            \* rows a pricing file may have
    ModelId,        \* ids that providers report
    Generation,     \* ModelId -> the name of the model without its decoration
    Setup           \* [pricing : rows loaded, model : role -> id reported]

ASSUME RunReportAssumption ==
    /\ MaxIterations \in Nat
    /\ Attempts \in Nat \ {0}
    /\ MaxResumes \in Nat
    /\ \A s \in Setup, role \in {"extraction", "writer", "verifier"} : s.model[role] \in ModelId

VARIABLES
    setup,       \* the pricing file and the models the roles are configured with
    timings,     \* state["timings"]: the nodes that completed
    node,        \* the node that executes now, or "end"
    attempt,     \* model calls this execution has made
    calling,     \* is one of them under way
    nodeByRun,   \* _node_by_run_id, as a set of <<call, node>>
    nodeCalls,   \* _node_calls
    byModel,     \* _by_model: model id -> calls counted
    status,      \* how the invocation stands
    resumed,     \* resumes so far
    madeBy,      \* history: call -> the position in timings of its execution
    unusable     \* history: some answer did not parse

tracker == <<nodeByRun, nodeCalls, byModel>>
vars == <<setup, timings, node, attempt, calling, tracker, status, resumed, madeBy, unusable>>

Node == {"analyze_job", "load_candidate_profile", "retrieve_evidence",
         "write_resume", "score_trust", "score_ats", "prepare_rewrite"}

\* Nodes that call a model; the first two do not when the job was given or the
\* candidate profile was cached.
Always == {"write_resume", "score_trust"}
Sometimes == {"analyze_job", "load_candidate_profile"}

\* build_default_app: which role's model an agent gets.
Role(n) ==
    CASE n \in Sometimes -> "extraction"
      [] n = "write_resume" -> "writer"
      [] n = "score_trust" -> "verifier"

Rewrites(t) == Cardinality({p \in 1..Len(t) : t[p] = "prepare_rewrite"})

\* The edges of the graph, taken with t completed.
NextNode(n, t) ==
    CASE n = "analyze_job" -> "load_candidate_profile"
      [] n = "load_candidate_profile" -> "retrieve_evidence"
      [] n = "retrieve_evidence" -> "write_resume"
      [] n = "write_resume" -> "score_trust"
      [] n = "score_trust" -> "score_ats"
      [] n = "score_ats" -> IF Rewrites(t) >= MaxIterations THEN "end" ELSE "prepare_rewrite"
      [] n = "prepare_rewrite" -> "write_resume"

Init ==
    /\ setup \in Setup
    /\ timings = <<>>
    /\ node = "analyze_job"
    /\ attempt = 0
    /\ calling = FALSE
    /\ nodeByRun = {}
    /\ nodeCalls = <<>>
    /\ byModel = <<>>
    /\ status = "running"
    /\ resumed = 0
    /\ madeBy = <<>>
    /\ unusable = FALSE

-----------------------------------------------------------------------------
\* The call under way, or the latest one.
Call == Len(madeBy)

\* on_chat_model_start: which node makes the call.
OnChatModelStart ==
    /\ status = "running"
    /\ node \in Always \cup Sometimes
    /\ ~calling
    /\ calling' = TRUE
    /\ attempt' = attempt + 1
    /\ madeBy' = Append(madeBy, Len(timings) + 1)
    /\ nodeByRun' = nodeByRun \cup {<<Len(madeBy'), node>>}
    /\ UNCHANGED <<setup, timings, node, nodeCalls, byModel, status, resumed, unusable>>

\* on_llm_end: the answer is counted under the model it names and attributed to
\* its node, whatever its text is worth.
OnLlmEnd ==
    LET mine == {e \in nodeByRun : e[1] = Call}
        model == setup.model[Role(node)]
        counted == IF model \in DOMAIN byModel THEN byModel[model] ELSE 0
    IN  /\ byModel' = [m \in DOMAIN byModel \cup {model} |->
                         IF m = model THEN counted + 1 ELSE byModel[m]]
        /\ nodeCalls' = IF mine = {} THEN nodeCalls
                        ELSE Append(nodeCalls,
                                    [node |-> (CHOOSE e \in mine : TRUE)[2],
                                     call |-> Call,
                                     priced |-> PriceFor(model, setup.pricing) # None])
        /\ nodeByRun' = nodeByRun \ mine

\* run_timed: the node returns, its timing joins the state.
Complete ==
    /\ timings' = Append(timings, node)
    /\ node' = NextNode(node, timings')
    /\ attempt' = 0

Answered ==
    /\ calling
    /\ calling' = FALSE
    /\ OnLlmEnd
    /\ Complete
    /\ UNCHANGED <<setup, status, resumed, madeBy, unusable>>

\* with_structured_retry: the attempt raised; the last one fails the run.
Retry ==
    /\ calling' = FALSE
    /\ status' = IF attempt = Attempts THEN "failed" ELSE "running"
    /\ UNCHANGED <<setup, timings, node, attempt, resumed, madeBy>>

\* The model answered something that does not parse into the schema.
Unparsable ==
    /\ "parse" \in Fault
    /\ calling
    /\ OnLlmEnd
    /\ unusable' = TRUE
    /\ Retry

\* No answer: on_llm_error, which the tracker does not handle.
NoAnswer ==
    /\ "error" \in Fault
    /\ calling
    /\ UNCHANGED <<tracker, unusable>>
    /\ Retry

\* A node that calls no model, at least not this time.
RunNode ==
    /\ status = "running"
    /\ node \in Node \ Always
    /\ attempt = 0
    /\ Complete
    /\ UNCHANGED <<setup, calling, tracker, status, resumed, madeBy, unusable>>

\* finalize, and metrics.json is written.
Finalize ==
    /\ status = "running"
    /\ node = "end"
    /\ status' = "reported"
    /\ UNCHANGED <<setup, timings, node, attempt, calling, tracker, resumed, madeBy, unusable>>

\* (Mutant of Resume: the attempts of the failed execution are not forgotten.)
ResumeAttempt ==
    /\ status = "failed"
    /\ resumed < MaxResumes
    /\ status' = "running"
    /\ nodeByRun' = {}
    /\ nodeCalls' = <<>>
    /\ byModel' = <<>>
    /\ resumed' = resumed + 1
    /\ UNCHANGED <<setup, timings, node, attempt, calling, madeBy, unusable>>

\* Orchestrator.resume: the timings come from the checkpoint, the tracker is new.
Resume ==
    /\ status = "failed"
    /\ resumed < MaxResumes
    /\ status' = "running"
    /\ attempt' = 0
    /\ nodeByRun' = {}
    /\ nodeCalls' = <<>>
    /\ byModel' = <<>>
    /\ resumed' = resumed + 1
    /\ UNCHANGED <<setup, timings, node, calling, madeBy, unusable>>

Next ==
    OnChatModelStart \/ Answered \/ Unparsable \/ NoAnswer \/ RunNode \/ Finalize \/ Resume

Spec == Init /\ [][Next]_vars

-----------------------------------------------------------------------------
(* metrics.json                                                            *)

\* (Mutant of Nth: the head of the queue is read and not popped.)
NeverPopped(p) == 1

\* _steps_with_iteration: each node takes its calls from a queue of its own; its
\* n-th execution pops the n-th of them.
Nth(p) == Cardinality({q \in 1..p : timings[q] = timings[p]})

\* calls_by_node, as positions in node_calls; and the place of a call in its queue.
Queue(n) == {i \in DOMAIN nodeCalls : nodeCalls[i].node = n}
Place(i) == Cardinality({j \in 1..i : nodeCalls[j].node = nodeCalls[i].node})

\* (Mutants of Step: pop() for pop(0); the iteration is counted too early.)
StepLIFO(p) ==
    LET pending == Queue(timings[p])
        popped == {i \in pending : Place(i) = Cardinality(pending) + 1 - Nth(p)}
    IN  [step |-> timings[p],
         iteration |-> Rewrites(SubSeq(timings, 1, p - 1)),
         call |-> IF popped = {} THEN 0 ELSE nodeCalls[CHOOSE i \in popped : TRUE].call]

StepEarly(p) ==
    LET popped == {i \in Queue(timings[p]) : Place(i) = Nth(p)}
    IN  [step |-> timings[p],
         iteration |-> Rewrites(SubSeq(timings, 1, p)),
         call |-> IF popped = {} THEN 0 ELSE nodeCalls[CHOOSE i \in popped : TRUE].call]

Step(p) ==
    LET popped == {i \in Queue(timings[p]) : Place(i) = Nth(p)}
    IN  [step |-> timings[p],
         iteration |-> Rewrites(SubSeq(timings, 1, p - 1)),
         call |-> IF popped = {} THEN 0 ELSE nodeCalls[CHOOSE i \in popped : TRUE].call]

Steps == [p \in 1..Len(timings) |-> Step(p)]

\* The step's cost_usd is a number: the price of the call it shows.
StepPriced(p) == \E i \in DOMAIN nodeCalls : nodeCalls[i].call = Steps[p].call /\ nodeCalls[i].priced

\* RunUsage.cost_usd is a number.
TotalKnown == CostKnown(DOMAIN byModel, setup.pricing)

\* RunUsage.llm_calls
LlmCalls == FoldFunction(+, 0, byModel)

-----------------------------------------------------------------------------
(* Properties.                                                             *)

TypeOK ==
    /\ timings \in Seq(Node)
    /\ node \in Node \cup {"end"}
    /\ attempt \in 0..Attempts
    /\ calling \in BOOLEAN
    /\ nodeByRun \subseteq (Nat \X Node)
    /\ nodeCalls \in Seq([node : Node, call : Nat, priced : BOOLEAN])
    /\ setup \in Setup
    /\ DOMAIN byModel \subseteq ModelId /\ \A m \in DOMAIN byModel : byModel[m] \in Nat
    /\ status \in {"running", "failed", "reported"}
    /\ resumed \in 0..MaxResumes
    /\ madeBy \in Seq(Nat \ {0})
    /\ unusable \in BOOLEAN

\* The iteration of a step is the one of the draft it wrote or graded: counting
\* prepare_rewrite in the timings is right whatever failed and was resumed.
IterationOfDraft ==
    status = "reported" =>
        \A p \in 1..Len(timings) :
            timings[p] \in {"write_resume", "score_trust", "score_ats", "prepare_rewrite"} =>
                Steps[p].iteration + 1 =
                    Cardinality({q \in 1..p : timings[q] = "write_resume"})

\* The report of an invocation that was neither a resume nor had an unusable
\* answer, whatever calls failed and were retried.
Plain == status = "reported" /\ resumed = 0 /\ ~unusable

\* A plain report shows with a step the model call its own execution made, and
\* never none for a node that cannot do without one.
StepsAttributed ==
    Plain =>
        \A p \in 1..Len(timings) :
            IF Steps[p].call = 0 THEN timings[p] \notin Always
                                 ELSE madeBy[Steps[p].call] = p

\* The steps of a plain report add up to the totals next to them: every call
\* the report counts is shown by exactly one step.
StepsAddUp ==
    Plain =>
        /\ Cardinality({p \in 1..Len(timings) : Steps[p].call # 0}) = LlmCalls
        /\ \A p, q \in 1..Len(timings) :
              p # q /\ Steps[p].call # 0 => Steps[p].call # Steps[q].call

\* "A partial total that quietly omits whichever model isn't in the price table":
\* no report puts a total next to a step whose call nobody could price, after
\* whatever retries and resumes; and in a plain report an unknown total is
\* explained by such a step.
CostExplained ==
    status = "reported" =>
        LET shown == {p \in DOMAIN Steps : Steps[p].call # 0}
        IN  /\ TotalKnown => \A p \in shown : StepPriced(p)
            /\ Plain /\ ~TotalKnown => shown = {} \/ \E p \in shown : ~StepPriced(p)

\* The beginnings of a name that end with a whole version number: gpt-4 of gpt-4o,
\* claude-opus-4-7 and not claude-opus-4 of claude-opus-4-7.
Versions(name) ==
    {SubSeq(name, 1, k) : k \in {k \in DOMAIN name :
                                   name[k] \in Digit /\ ~NumberFollows(name, k)}}

\* Whatever rows the pricing file has, a row whose name ends with a version prices no
\* later version: it is a beginning of the generation's name, up to a whole version
\* number.  (A variant does inherit the price, gpt-4o that of gpt-4: only a number
\* after the row counts.)  And a generation that has a row of its own is priced by that
\* row, whatever prefix or suffix the provider adds and whatever shorter rows there
\* are, but where a number follows the name, a date after a version.
PricedByVersion ==
    timings = <<>> =>
        \A table \in SUBSET Row : \A m \in ModelId :
            LET row == PriceFor(m, table)
                own == Generation[m]
            IN  /\ row # None /\ row[Len(row)] \in Digit => row \in Versions(own)
                /\ own \in table => row = own \/ IsVersionExtension(m, own, FindAt(m, own))

\* The names for which that is so: a model's id has the name of its generation in
\* it, and a row that is in the id begins where that name begins (no row is opus) and
\* is not longer (no row is a dated id).
NamesTell ==
    /\ ModelId \cup Row \subseteq Seq(STRING) \ {<<>>}
    /\ \A m \in ModelId :
          LET own == Generation[m]
          IN  /\ own \in Seq(STRING) \ {<<>>}
              /\ Occurrences(m, own) # {}
              /\ \A row \in Row : Occurrences(m, row) # {} =>
                    /\ FindAt(m, row) = FindAt(m, own)
                    /\ Len(row) <= Len(own)

-----------------------------------------------------------------------------
(* What the code says without an exception, and TLC refutes.               *)

\* metrics.json "answers which step of which iteration": also after retries and
\* resumes, a step shows a call that its own execution made.
StepOfIteration ==
    status = "reported" =>
        \A p \in 1..Len(timings) : Steps[p].call # 0 => madeBy[Steps[p].call] = p
================================================================================
