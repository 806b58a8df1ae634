------------------------------- MODULE DurableRun ------------------------------
(***************************************************************************)
(* What Orchestrator.run and resume promise to their callers (ADR-0015,     *)
(* ADR-0016), without graph, nodes, supersteps or checkpoint queue: a run   *)
(* is a list of scored drafts that grows to max_iterations + 1; whoever     *)
(* resumes it goes on with scored drafts that were saved; what is saved is  *)
(* the list of the invocation that drives the run, or a beginning of it;    *)
(* and the list is left unfinished only by a failure.  Invocations follow   *)
(* each other: a promise about overlapping ones the code does not make.     *)
(***************************************************************************)
EXTENDS Naturals, Sequences

CONSTANTS
    Invocation,   \* run() and the resume() calls of one run_id
    MaxDrafts,    \* drafts of a finished run
    Score,        \* what a draft may score
    Durable,      \* was a checkpoint file configured
    None

VARIABLES
    drafts,    \* drafts[i]: the scores of the drafts invocation i works with
    outcome,   \* "idle", "running", "ended", "failed", "lost" or "not_found"
    saved      \* the scores in the checkpoint file, or None

runVars == <<drafts, outcome, saved>>

Beginnings(s) == {SubSeq(s, 1, n) : n \in 0..Len(s)}

Init ==
    /\ drafts = [i \in Invocation |-> <<>>]
    /\ outcome = [i \in Invocation |-> "idle"]
    /\ saved = None

Begin(i) ==
    /\ \A j \in Invocation : outcome[j] = "idle"
    /\ outcome' = [outcome EXCEPT ![i] = "running"]
    /\ UNCHANGED <<drafts, saved>>

Continue(i) ==
    /\ outcome[i] = "idle"
    /\ IF saved = None
       THEN /\ outcome' = [outcome EXCEPT ![i] = "not_found"]
            /\ UNCHANGED drafts
       ELSE /\ outcome' = [outcome EXCEPT ![i] = "running"]
            /\ drafts' = [drafts EXCEPT ![i] = saved]
    /\ UNCHANGED saved

AddDraft(i) ==
    /\ outcome[i] = "running"
    /\ Len(drafts[i]) < MaxDrafts
    /\ \E score \in Score : drafts' = [drafts EXCEPT ![i] = Append(@, score)]
    /\ UNCHANGED <<outcome, saved>>

Save(i) ==
    /\ Durable
    /\ outcome[i] = "running"
    /\ saved' \in Beginnings(drafts[i])
    /\ UNCHANGED <<drafts, outcome>>

\* An invocation that returns or raises has saved all it had.
Leave(i) ==
    /\ outcome[i] = "running"
    /\ \/ Len(drafts[i]) = MaxDrafts /\ outcome' = [outcome EXCEPT ![i] = "ended"]
       \/ outcome' = [outcome EXCEPT ![i] = "failed"]
    /\ saved' = IF Durable THEN drafts[i] ELSE saved
    /\ UNCHANGED drafts

Crash ==
    /\ \E i \in Invocation : outcome[i] = "running"
    /\ outcome' = [i \in Invocation |->
                     IF outcome[i] = "running" THEN "lost" ELSE outcome[i]]
    /\ UNCHANGED <<drafts, saved>>

Next ==
    \/ \E i \in Invocation : Begin(i) \/ Continue(i) \/ AddDraft(i) \/ Save(i) \/ Leave(i)
    \/ Crash

Spec == Init /\ [][Next]_runVars
================================================================================
