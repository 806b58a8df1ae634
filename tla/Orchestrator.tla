----------------------------- MODULE Orchestrator -----------------------------
(***************************************************************************)
(* One generation run: the LangGraph state machine of                      *)
(* orchestration/orchestrator.py with its quality loop, its per-node        *)
(* checkpoints (ADR-0015) and Orchestrator.resume.                         *)
(*                                                                         *)
(* A run has one run_id, hence one checkpoint thread on disk.  It is       *)
(* executed by invocations: the one of run(), and one for every resume().  *)
(* An invocation works on its own copy of the graph state; a checkpoint of *)
(* it is queued after every node and reaches the disk later, in order.     *)
(* Nothing stops an operator from resuming a run that is still running.    *)
(***************************************************************************)
EXTENDS Naturals, Sequences, FiniteSets

CONSTANTS
    Invocation,      \* run() and resume() calls made for this run_id
    MaxIterations,   \* gate.max_iterations
    TrustScore,      \* the Trust scores a draft may get
    AtsScore,        \* the ATS scores a draft may get
    MinTrust,        \* gate.min_trust_score
    MinAts,          \* gate.min_ats_score
    Durable,         \* was the orchestrator given a checkpoint_path
    MaxPending,      \* checkpoints queued but not written yet
    MaxRunning,      \* invocations that run at once
    Fault,           \* "agent": a node raises; "crash": the process dies
    None

ASSUME OrchestratorAssumption ==
    /\ MaxIterations \in Nat
    /\ TrustScore \subseteq Nat /\ AtsScore \subseteq Nat
    /\ MinTrust \in Nat /\ MinAts \in Nat
    /\ Durable \in BOOLEAN
    /\ MaxPending \in Nat \ {0}

VARIABLES
    graph,    \* graph[i]: the _GraphState invocation i works on
    status,   \* how invocation i stands
    steps,    \* supersteps invocation i has executed
    queue,    \* checkpoints of invocation i on their way to the disk
    disk      \* the latest checkpoint of the thread, or None

vars == <<graph, status, steps, queue, disk>>

-----------------------------------------------------------------------------
(* The graph state.  A draft is what the gate sees of it: the iteration     *)
(* stamped on it and the feedback it was written with, which is named by    *)
(* the iterations of the two reports it was built from.                     *)

Node == {"analyze_job", "load_candidate_profile", "retrieve_evidence",
         "write_resume", "score_trust", "score_ats", "prepare_rewrite"}

Feedback == {None} \cup (Nat \X Nat)
Draft == [iteration: Nat, feedback: Feedback]
TrustReport == [iteration: Nat, score: TrustScore]
ATSReport == [iteration: Nat, score: AtsScore]

GraphState ==
    [next: Node \cup {"end"},
     job: BOOLEAN, candidateProfile: BOOLEAN, evidence: BOOLEAN,
     drafts: Seq(Draft),
     trustReports: Seq(TrustReport),
     atsReports: Seq(ATSReport),
     timings: Seq(Node),
     iteration: Nat,
     feedback: Feedback]

\* None is no state of the graph and no list of scores.
ASSUME NoneAssumption ==
    None \notin GraphState /\ None \notin Seq(TrustScore \X AtsScore)

\* run(job=...) starts with the job filled in, run(job_posting=...) without.
Initial(job) ==
    [next |-> "analyze_job",
     job |-> job, candidateProfile |-> FALSE, evidence |-> FALSE,
     drafts |-> <<>>, trustReports |-> <<>>, atsReports |-> <<>>, timings |-> <<>>,
     iteration |-> 0, feedback |-> None]

Last(s) == s[Len(s)]

\* QualityGate.passes
Passes(trust, ats) == trust.score >= MinTrust /\ ats.score >= MinAts

\* (Mutant of RecursionLimit: it does not scale with the cap.)
FixedLimit == 6 + 10

\* _recursion_limit
RecursionLimit == 6 + 4 * MaxIterations + 10

\* (Mutant of Route: one rewrite more than the cap.)
RouteOnceMore(g) == IF g.iteration > MaxIterations THEN "end" ELSE "prepare_rewrite"

\* _route: the gate does not take part in the decision.
Route(g) == IF g.iteration >= MaxIterations THEN "end" ELSE "prepare_rewrite"

-----------------------------------------------------------------------------
(* What each node returns, merged into the state (lists are appended to).   *)

AnalyzeJobUpdate(g) ==
    [g EXCEPT !.job = TRUE, !.next = "load_candidate_profile"]

LoadCandidateProfileUpdate(g) ==
    [g EXCEPT !.candidateProfile = TRUE, !.next = "retrieve_evidence"]

RetrieveEvidenceUpdate(g) ==
    [g EXCEPT !.evidence = TRUE, !.next = "write_resume"]

WriteResumeUpdate(g) ==
    [g EXCEPT !.drafts = Append(@, [iteration |-> g.iteration, feedback |-> g.feedback]),
              !.next = "score_trust"]

ScoreTrustUpdate(g, score) ==
    [g EXCEPT !.trustReports =
                 Append(@, [iteration |-> Last(g.drafts).iteration, score |-> score]),
              !.next = "score_ats"]

ScoreAtsUpdate(g, score) ==
    [g EXCEPT !.atsReports =
                 Append(@, [iteration |-> Last(g.drafts).iteration, score |-> score]),
              !.next = Route(g)]

\* (Mutant of PrepareRewriteUpdate: feedback on trust alone.)
FeedbackOnTrust(g) ==
    [g EXCEPT !.feedback = <<Last(g.trustReports).iteration>>,
              !.iteration = g.iteration + 1,
              !.next = "write_resume"]

PrepareRewriteUpdate(g) ==
    [g EXCEPT !.feedback = <<Last(g.trustReports).iteration, Last(g.atsReports).iteration>>,
              !.iteration = g.iteration + 1,
              !.next = "write_resume"]

-----------------------------------------------------------------------------
Running == {i \in Invocation : status[i] = "running"}

Init ==
    /\ \E job \in BOOLEAN : graph = [i \in Invocation |-> Initial(job)]
    /\ status = [i \in Invocation |-> "idle"]
    /\ steps = [i \in Invocation |-> 0]
    /\ queue = [i \in Invocation |-> <<>>]
    /\ disk = None

\* run(): the run_id is fresh, so this is the thread's first invocation.  The
\* input is checkpointed before the first node.
Run(i) ==
    /\ \A j \in Invocation : status[j] = "idle"
    /\ status' = [status EXCEPT ![i] = "running"]
    /\ queue' = [queue EXCEPT ![i] = IF Durable THEN <<graph[i]>> ELSE <<>>]
    /\ UNCHANGED <<graph, steps, disk>>

\* (Mutant of Resume: the input is seeded from scratch.)
ResumeFromScratch(i) ==
    /\ Durable
    /\ status[i] = "idle"
    /\ \E j \in Invocation : status[j] # "idle"
    /\ Cardinality(Running) < MaxRunning
    /\ disk # None
    /\ status' = [status EXCEPT ![i] = "running"]
    /\ queue' = [queue EXCEPT ![i] = <<Initial(TRUE)>>]
    /\ graph' = [graph EXCEPT ![i] = Initial(TRUE)]
    /\ UNCHANGED <<steps, disk>>

\* resume(): continue from the checkpoint; without one there is nothing to do.
Resume(i) ==
    /\ Durable
    /\ status[i] = "idle"
    /\ \E j \in Invocation : status[j] # "idle"
    /\ Cardinality(Running) < MaxRunning
    /\ \/ /\ disk = None
          /\ status' = [status EXCEPT ![i] = "not_found"]
          /\ UNCHANGED graph
       \/ /\ disk # None
          /\ status' = [status EXCEPT ![i] = "running"]
          /\ graph' = [graph EXCEPT ![i] = disk]
    /\ UNCHANGED <<steps, queue, disk>>

\* (Mutant of Complete: the checkpoint names the node that ran as the next one.)
CheckpointBehind(i, n, update) ==
    /\ status[i] = "running"
    /\ graph[i].next = n
    /\ steps[i] < RecursionLimit
    /\ Len(queue[i]) < MaxPending
    /\ LET after == [update EXCEPT !.timings = Append(@, n)]
       IN  /\ graph' = [graph EXCEPT ![i] = after]
           /\ queue' = IF Durable
                       THEN [queue EXCEPT ![i] = Append(@, [after EXCEPT !.next = n])]
                       ELSE queue
    /\ steps' = [steps EXCEPT ![i] = steps[i] + 1]
    /\ UNCHANGED <<status, disk>>

\* The timed node n ran to its end: its update and its timing are applied and
\* the new state is checkpointed.
Complete(i, n, update) ==
    /\ status[i] = "running"
    /\ graph[i].next = n
    /\ steps[i] < RecursionLimit
    /\ Len(queue[i]) < MaxPending
    /\ LET after == [update EXCEPT !.timings = Append(@, n)]
       IN  /\ graph' = [graph EXCEPT ![i] = after]
           /\ queue' = IF Durable THEN [queue EXCEPT ![i] = Append(@, after)] ELSE queue
    /\ steps' = [steps EXCEPT ![i] = steps[i] + 1]
    /\ UNCHANGED <<status, disk>>

AnalyzeJob(i) == Complete(i, "analyze_job", AnalyzeJobUpdate(graph[i]))

LoadCandidateProfile(i) ==
    Complete(i, "load_candidate_profile", LoadCandidateProfileUpdate(graph[i]))

RetrieveEvidence(i) ==
    Complete(i, "retrieve_evidence", RetrieveEvidenceUpdate(graph[i]))

WriteResume(i) == Complete(i, "write_resume", WriteResumeUpdate(graph[i]))

ScoreTrust(i) ==
    \E score \in TrustScore :
        Complete(i, "score_trust", ScoreTrustUpdate(graph[i], score))

ScoreAts(i) ==
    \E score \in AtsScore : Complete(i, "score_ats", ScoreAtsUpdate(graph[i], score))

PrepareRewrite(i) == Complete(i, "prepare_rewrite", PrepareRewriteUpdate(graph[i]))

\* (Mutant of Persist: the writer waits for two checkpoints to write at once.)
PersistInPairs(i) ==
    /\ Len(queue[i]) >= 2
    /\ disk' = queue[i][2]
    /\ queue' = [queue EXCEPT ![i] = Tail(Tail(@))]
    /\ UNCHANGED <<graph, status, steps>>

\* A queued checkpoint is written.
Persist(i) ==
    /\ queue[i] # <<>>
    /\ disk' = Head(queue[i])
    /\ queue' = [queue EXCEPT ![i] = Tail(@)]
    /\ UNCHANGED <<graph, status, steps>>

\* Leaving ainvoke, normally or with an exception, waits for the queue.
Flushed(i) == IF queue[i] = <<>> THEN disk ELSE Last(queue[i])

Leave(i, how) ==
    /\ disk' = Flushed(i)
    /\ queue' = [queue EXCEPT ![i] = <<>>]
    /\ status' = [status EXCEPT ![i] = how]
    /\ UNCHANGED <<graph, steps>>

\* The graph reached END and the WorkflowState is returned, or LangGraph raises
\* GraphRecursionError because the supersteps are used up before.
Finish(i) ==
    /\ status[i] = "running"
    /\ graph[i].next # "end" => steps[i] >= RecursionLimit
    /\ Leave(i, IF graph[i].next = "end" THEN "ended" ELSE "recursion_error")

\* A node whose work can raise: a model call after its three attempts, or a
\* store.  analyze_job calls no model when the job was given.
NodeFails(i) ==
    /\ "agent" \in Fault
    /\ status[i] = "running"
    /\ \/ graph[i].next \in {"load_candidate_profile", "retrieve_evidence",
                              "write_resume", "score_trust"}
       \/ graph[i].next = "analyze_job" /\ ~graph[i].job
    /\ steps[i] < RecursionLimit
    /\ Leave(i, "failed")

\* The process dies with everything in it; the checkpoint file stays.
Crash ==
    /\ "crash" \in Fault
    /\ Running # {}
    /\ status' = [i \in Invocation |-> IF i \in Running THEN "lost" ELSE status[i]]
    /\ queue' = [i \in Invocation |-> <<>>]
    /\ UNCHANGED <<graph, steps, disk>>

ExecuteNode(i) ==
    \/ AnalyzeJob(i) \/ LoadCandidateProfile(i) \/ RetrieveEvidence(i)
    \/ WriteResume(i) \/ ScoreTrust(i) \/ ScoreAts(i) \/ PrepareRewrite(i)

Proceed(i) ==
    ExecuteNode(i) \/ Persist(i) \/ Finish(i) \/ NodeFails(i)

Next ==
    \/ \E i \in Invocation : Run(i) \/ Resume(i) \/ Proceed(i)
    \/ Crash

Spec == Init /\ [][Next]_vars

\* asyncio.run drives an invocation until it returns: as long as the process
\* lives, an invocation that can proceed does.  Nothing makes anyone call resume.
FairSpec == Spec /\ \A i \in Invocation : WF_vars(Proceed(i))

-----------------------------------------------------------------------------
(* WorkflowState, computed from the state a finished invocation returns.   *)

Scored(g) == {k \in 1..Len(g.drafts) : k <= Len(g.trustReports) /\ k <= Len(g.atsReports)}

PassesAt(g, k) == Passes(g.trustReports[k], g.atsReports[k])

\* (Mutant of RankedBelow: the gate is left out of the key.)
RankedByAts(g, j, k) ==
    \/ g.atsReports[j].score < g.atsReports[k].score
    \/ g.atsReports[j].score = g.atsReports[k].score /\ j < k

\* The order of the key tuple (passes, ats.score, index), False before True.
RankedBelow(g, j, k) ==
    \/ ~PassesAt(g, j) /\ PassesAt(g, k)
    \/ /\ PassesAt(g, j) = PassesAt(g, k)
       /\ \/ g.atsReports[j].score < g.atsReports[k].score
          \/ g.atsReports[j].score = g.atsReports[k].score /\ j < k

FinalIndex(g) == CHOOSE k \in Scored(g) : \A j \in Scored(g) \ {k} : RankedBelow(g, j, k)

-----------------------------------------------------------------------------
(* Properties.                                                             *)

TypeOK ==
    /\ graph \in [Invocation -> GraphState]
    /\ status \in [Invocation -> {"idle", "running", "ended", "failed", "lost",
                                  "not_found", "recursion_error"}]
    /\ steps \in [Invocation -> Nat]
    /\ queue \in [Invocation -> Seq(GraphState)]
    /\ disk \in GraphState \cup {None}

\* The node that runs in superstep p of a run that is never interrupted.
NodeAt(p) ==
    CASE p = 1 -> "analyze_job"
      [] p = 2 -> "load_candidate_profile"
      [] p = 3 -> "retrieve_evidence"
      [] p > 3 /\ p % 4 = 0 -> "write_resume"
      [] p > 3 /\ p % 4 = 1 -> "score_trust"
      [] p > 3 /\ p % 4 = 2 -> "score_ats"
      [] p > 3 /\ p % 4 = 3 -> "prepare_rewrite"

\* "Resume from the last completed node": the timings a finished run reports
\* list every node of the flow exactly once and in order, whatever crashes,
\* failures, resumes and overlapping invocations the run went through.
EveryNodeOnce ==
    \A i \in Invocation : status[i] = "ended" =>
        /\ Len(graph[i].timings) = 6 + 4 * MaxIterations
        /\ \A p \in 1..Len(graph[i].timings) : graph[i].timings[p] = NodeAt(p)

\* "Exactly max_iterations + 1 drafts, always": a finished run has that many
\* drafts, draft k was written from the reports on draft k - 1 and both its own
\* reports grade it and no other draft.
WholeHistory ==
    \A i \in Invocation : status[i] = "ended" =>
        LET g == graph[i]
        IN  /\ Len(g.drafts) = MaxIterations + 1
            /\ Len(g.trustReports) = Len(g.drafts)
            /\ Len(g.atsReports) = Len(g.drafts)
            /\ \A k \in 1..Len(g.drafts) :
                  /\ g.drafts[k].iteration = k - 1
                  /\ g.drafts[k].feedback = IF k = 1 THEN None ELSE <<k - 2, k - 2>>
                  /\ g.trustReports[k].iteration = k - 1
                  /\ g.atsReports[k].iteration = k - 1

\* The nodes assert that their inputs are there (job, evidence, a draft, both
\* its reports): also after a resume, they are.
InputsPresent ==
    \A i \in Running :
        LET g == graph[i]
        IN  /\ g.next \notin {"analyze_job", "load_candidate_profile"} => g.job
            /\ g.next \in {"write_resume", "score_trust"} => g.evidence
            /\ g.next \in {"score_trust", "score_ats"} =>
                  Len(g.drafts) = g.iteration + 1
            /\ g.next = "prepare_rewrite" =>
                  /\ Len(g.trustReports) = g.iteration + 1
                  /\ Len(g.atsReports) = g.iteration + 1

\* However often it was resumed, from however old a checkpoint, and while another
\* invocation of it writes to the same thread, a run has the history of one run:
\* what it reports at its end is whole, and on the way no node lacks its inputs.
HistoryOfOneRun == EveryNodeOnce /\ WholeHistory /\ InputsPresent

\* final_index ships what its three rules say: a passing draft if there is one,
\* no draft of the same side with a higher ATS score, and of equals the latest.
BestDraftShipped ==
    \A i \in Invocation : status[i] = "ended" =>
        LET g == graph[i]
            best == FinalIndex(g)
            sameSide == {k \in Scored(g) : PassesAt(g, k) = PassesAt(g, best)}
        IN  /\ best \in Scored(g)
            /\ (\E k \in Scored(g) : PassesAt(g, k)) => PassesAt(g, best)
            /\ \A k \in sameSide : g.atsReports[k].score <= g.atsReports[best].score
            /\ \A k \in sameSide :
                  k > best => g.atsReports[k].score < g.atsReports[best].score

\* The scores of the drafts that both reports grade.
ScoredDrafts(g) ==
    [k \in 1..Len(g.atsReports) |-> <<g.trustReports[k].score, g.atsReports[k].score>>]

DurableRunOf == INSTANCE DurableRun WITH
    MaxDrafts <- MaxIterations + 1,
    Score <- TrustScore \X AtsScore,
    drafts <- [i \in Invocation |-> ScoredDrafts(graph[i])],
    outcome <- status,
    saved <- IF disk = None THEN None ELSE ScoredDrafts(disk)

\* The graph, its nodes and its checkpoint queue implement DurableRun: no node runs
\* into the recursion limit, which DurableRun does not know, and a run ends with
\* max_iterations + 1 scored drafts or fails; a resume goes on with drafts that
\* were saved, and what is saved is all that an invocation had when it returned or
\* raised, and a beginning of it at any other time.
ImplementsDurableRun == DurableRunOf!Spec

IsPrefixOf(s, t) == Len(s) <= Len(t) /\ \A k \in 1..Len(s) : s[k] = t[k]

\* "Every completed, already paid-for node" is kept: with one invocation at a
\* time, what the checkpoint on disk holds is never given up again.
PaidWorkKept ==
    [][disk # None =>
        /\ disk' # None
        /\ IsPrefixOf(disk.drafts, disk'.drafts)
        /\ IsPrefixOf(disk.trustReports, disk'.trustReports)
        /\ IsPrefixOf(disk.atsReports, disk'.atsReports)
        /\ IsPrefixOf(disk.timings, disk'.timings)]_disk

\* What invocation i can still do before it must have returned: a node not run yet is
\* a step and the checkpoint it leaves, and a checkpoint in the queue is one to write.
StepsLeft(i) ==
    IF status[i] = "running"
    THEN 1 + 2 * ((6 + 4 * MaxIterations) - Len(graph[i].timings)) + Len(queue[i])
    ELSE 0

\* No call pays for a node beyond the 6 + 4 * max_iterations of the flow, whatever it
\* was resumed from and whatever other invocations write meanwhile: every step of a
\* running invocation brings it nearer to its return, and none takes it back.
EveryStepCounts ==
    [][\A i \in Invocation : status[i] = "running" =>
          /\ Len(graph[i].timings) <= 6 + 4 * MaxIterations
          /\ <<graph[i], queue[i], status[i]>>' # <<graph[i], queue[i], status[i]>> =>
                StepsLeft(i)' < StepsLeft(i)]_vars

\* The loop comes to an end by itself: an invocation that runs ends with all its
\* drafts, unless a node raises or the process dies.
Terminates ==
    \A i \in Invocation :
        status[i] = "running" ~> status[i] \in {"ended", "failed", "lost"}
===============================================================================
