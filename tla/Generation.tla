------------------------------ MODULE Generation ------------------------------
(***************************************************************************)
(* TrustResumeApp (api/app_service.py): jobs, the documents linked to      *)
(* them, and generations that read both, spend minutes in model calls and  *)
(* then record what they made.  One user's data; a second user appears     *)
(* only as a caller of resume_run.                                         *)
(*                                                                         *)
(* A step is one committed statement, as in Ingestion.  An ingestion and   *)
(* an orchestrator run, modelled in Ingestion and Orchestrator, are here   *)
(* what the app sees of them: a document row appears, and disappears again *)
(* if the rest of the ingestion fails; a run reads its evidence, ends, and *)
(* leaves a checkpoint after each of these.                                *)
(***************************************************************************)
EXTENDS Naturals, FiniteSets

CONSTANTS
    Request,      \* calls the server may receive, each at most once; a call
                  \* names the job, the run and the resume row it creates
    Document,     \* document ids; no id is given out twice
    Posting,      \* job posting texts (and what is extracted from them)
    Operation,    \* the operations clients use
    Durable,      \* is there a checkpoint_path
    Fault,        \* "agent": a model call raises; "ingest": an ingestion does;
                  \* "persist": a statement of _persist does; "disk": a file
                  \* cannot be written; "crash": the process dies
    MaxActive,    \* calls in progress at once
    None

Operations == {"create_job", "update_job", "delete_job", "upload", "link_document",
               "delete_document", "generate", "generate_for_job", "resume_run"}

ASSUME GenerationAssumption ==
    /\ Operation \subseteq Operations
    /\ Durable \in BOOLEAN
    /\ None \notin Request \cup Posting

VARIABLES
    user,         \* is the user's row in table users
    jobs,         \* table jobs: id -> posting, or None
    documents,    \* ids in table documents
    links,        \* table job_documents
    resumes,      \* table generated_resumes
    evaluations,  \* resume ids in table evaluations
    artifacts,    \* resume ids whose directory of run artifacts is complete
    threads,      \* checkpoint file: run id -> latest graph state, or None
    call,         \* the local state of each call
    overlapped    \* history: runs that two calls drove at the same time

tables == <<jobs, documents, links, resumes, evaluations, artifacts>>
vars == <<user, tables, threads, call, overlapped>>

-----------------------------------------------------------------------------
\* job_id and document_ids as _GraphState carries them.  A run that is not
\* restricted to documents (document_ids=None) has every document as scope.
Run == [job: Request \cup {None}, posting: Posting,
        scope: SUBSET Document, evidence: SUBSET Document,
        next: {"retrieve", "draft", "end"}]

Resume == [id: Request, run: Request, job: Request \cup {None},
           title: Posting, evidence: SUBSET Document]

\* None is neither the state of a run nor the name of an operation.
ASSUME NoneAssumption == None \notin Run /\ None \notin Operations

PC == {"idle", "newUser", "extract", "get", "drop", "ingest", "index", "link",
       "eligible", "run", "persist", "evaluate", "artifacts", "done", "failed", "lost"}

Call == [pc: PC, op: Operations \cup {None},
         job: Request \cup {None}, posting: Posting \cup {None},
         doc: Document \cup {None}, created: BOOLEAN,
         run: Request \cup {None}, owner: BOOLEAN, state: Run \cup {None},
         result: BOOLEAN, fault: BOOLEAN]

\* created: has this upload created the document's row.  result: did the call answer
\* with a value (FALSE: None, hence a 404).  fault: did one of Fault make it fail.
NoCall == [pc |-> "idle", op |-> None, job |-> None, posting |-> None,
           doc |-> None, created |-> FALSE, run |-> None, owner |-> TRUE,
           state |-> None, result |-> FALSE, fault |-> FALSE]

EndPC == {"done", "failed", "lost"}
Active == {r \in Request : call[r].pc \notin {"idle"} \cup EndPC}

JobExists(j) == jobs[j] # None

\* list_eligible_document_ids: the generic pool and the documents of job j.
Linked(d) == \E j \in Request : <<j, d>> \in links
Eligible(j) == {d \in documents : ~Linked(d) \/ <<j, d>> \in links}

Init ==
    /\ user = FALSE
    /\ jobs = [j \in Request |-> None]
    /\ documents = {}
    /\ links = {}
    /\ resumes = {}
    /\ evaluations = {}
    /\ artifacts = {}
    /\ threads = [r \in Request |-> None]
    /\ call = [r \in Request |-> NoCall]
    /\ overlapped = {}

MayStart(r, op) ==
    /\ op \in Operation
    /\ user
    /\ call[r].pc = "idle"
    /\ Cardinality(Active) < MaxActive

Start(r, op, pc, job, posting) ==
    call' = [call EXCEPT ![r] = [NoCall EXCEPT
                !.op = op, !.pc = pc, !.job = job, !.posting = posting]]

\* Nothing is there that the call asks for: 404.
NotFound(r, op) == call' = [call EXCEPT ![r] = [NoCall EXCEPT !.op = op, !.pc = "done"]]

Goto(r, pc) == call' = [call EXCEPT ![r].pc = pc]

\* The call returns a value, or None, or raises, of itself or by a fault.
Return(r) == call' = [call EXCEPT ![r].pc = "done", ![r].result = TRUE]
ReturnNone(r) == call' = [call EXCEPT ![r].pc = "done"]
Raise(r) == call' = [call EXCEPT ![r].pc = "failed"]
Fail(r) == call' = [call EXCEPT ![r].pc = "failed", ![r].fault = TRUE]

-----------------------------------------------------------------------------
(* resolve_user, before every operation: an unknown user is created.       *)

\* ensure_user: the existence check, in a request that finds no row.
ResolveUser(r) ==
    /\ ~user
    /\ call[r].pc = "idle"
    /\ Cardinality(Active) < MaxActive
    /\ Goto(r, "newUser")
    /\ UNCHANGED <<user, tables, threads>>

\* INSERT INTO users.  The IntegrityError of a request that comes second is
\* suppressed; either way the request goes on to its operation.
EnsureUser(r) ==
    /\ call[r].pc = "newUser"
    /\ user' = TRUE
    /\ Goto(r, "idle")
    /\ UNCHANGED <<tables, threads>>

-----------------------------------------------------------------------------
(* Jobs.                                                                   *)

CreateJob(r, p) ==
    /\ MayStart(r, "create_job")
    /\ Start(r, "create_job", "extract", r, p)
    /\ UNCHANGED <<tables, threads>>

\* Checked before the extraction is paid for.
UpdateJob(r, j, p) ==
    /\ MayStart(r, "update_job")
    /\ IF JobExists(j) THEN Start(r, "update_job", "extract", j, p)
                       ELSE NotFound(r, "update_job")
    /\ UNCHANGED <<tables, threads>>

\* The extraction answers; INSERT, or UPDATE of a row that may be gone by now.
SaveJob(r) ==
    /\ call[r].pc = "extract"
    /\ jobs' = IF call[r].op = "create_job" \/ JobExists(call[r].job)
               THEN [jobs EXCEPT ![call[r].job] = call[r].posting]
               ELSE jobs
    /\ Goto(r, "get")
    /\ UNCHANGED <<documents, links, resumes, evaluations, artifacts, threads>>

ExtractionFails(r) ==
    /\ "agent" \in Fault
    /\ call[r].pc = "extract"
    /\ Fail(r)
    /\ UNCHANGED <<tables, threads>>

\* The row is read back; create_job asserts that it is there.
ReadBackJob(r) ==
    /\ call[r].pc = "get"
    /\ \/ JobExists(call[r].job) /\ Return(r)
       \/ ~JobExists(call[r].job) /\ call[r].op = "update_job" /\ ReturnNone(r)
       \/ ~JobExists(call[r].job) /\ call[r].op = "create_job" /\ Raise(r)
    /\ UNCHANGED <<tables, threads>>

DeleteJob(r, j) ==
    /\ MayStart(r, "delete_job")
    /\ IF JobExists(j) THEN Start(r, "delete_job", "drop", j, None)
                       ELSE NotFound(r, "delete_job")
    /\ UNCHANGED <<tables, threads>>

\* (Mutants of DropJob: links are left behind; resumes cascade.)
DropJobOnly(r) ==
    /\ call[r].pc = "drop"
    /\ call[r].op = "delete_job"
    /\ jobs' = [jobs EXCEPT ![call[r].job] = None]
    /\ Return(r)
    /\ UNCHANGED <<documents, links, resumes, evaluations, artifacts, threads>>

DropJobAndResumes(r) ==
    /\ call[r].pc = "drop"
    /\ call[r].op = "delete_job"
    /\ LET j == call[r].job
       IN  /\ jobs' = [jobs EXCEPT ![j] = None]
           /\ links' = {l \in links : l[1] # j}
           /\ resumes' = {row \in resumes : row.job # j}
    /\ Return(r)
    /\ UNCHANGED <<documents, evaluations, artifacts, threads>>

\* DELETE FROM jobs: links cascade, job_id of resumes is set NULL.
DropJob(r) ==
    /\ call[r].pc = "drop"
    /\ call[r].op = "delete_job"
    /\ LET j == call[r].job
       IN  /\ jobs' = [jobs EXCEPT ![j] = None]
           /\ links' = {l \in links : l[1] # j}
           /\ resumes' = {IF row.job = j THEN [row EXCEPT !.job = None] ELSE row :
                              row \in resumes}
    /\ Return(r)
    /\ UNCHANGED <<documents, evaluations, artifacts, threads>>

-----------------------------------------------------------------------------
(* Documents.                                                              *)

\* add_document_bytes (job None) and upload_document_for_job, which first
\* checks the job.
UploadDocument(r, j) ==
    /\ MayStart(r, "upload")
    /\ IF j = None \/ JobExists(j) THEN Start(r, "upload", "ingest", j, None)
                                   ELSE NotFound(r, "upload")
    /\ UNCHANGED <<tables, threads>>

\* A file that cannot be read or parsed; nothing was written.
ParseFails(r) ==
    /\ "ingest" \in Fault
    /\ call[r].pc = "ingest"
    /\ Fail(r)
    /\ UNCHANGED <<tables, threads>>

Fresh(d) == \A q \in Request : ~(call[q].created /\ call[q].doc = d)

\* A new document: its row is committed, and seen by every other call, before its
\* chunks are written and embedded.
CreateDocument(r, d) ==
    /\ call[r].pc = "ingest"
    /\ Fresh(d)
    /\ documents' = documents \cup {d}
    /\ call' = [call EXCEPT ![r].pc = "index", ![r].doc = d, ![r].created = TRUE]
    /\ UNCHANGED <<jobs, links, resumes, evaluations, artifacts, threads>>

\* The file name, or the content, is that of a document: it is indexed again in
\* place, or has nothing left to do, whoever is still at work on it.
FindDocument(r, d) ==
    /\ call[r].pc = "ingest"
    /\ d \in documents
    /\ call' = [call EXCEPT ![r].pc = "index", ![r].doc = d]
    /\ UNCHANGED <<tables, threads>>

\* The document is indexed; its id is the answer, or is linked to the job first.
IndexDocument(r) ==
    /\ call[r].pc = "index"
    /\ IF call[r].job = None THEN Return(r) ELSE Goto(r, "link")
    /\ UNCHANGED <<tables, threads>>

\* (Mutant of IndexFails: the rollback leaves the document's row.)
IndexFailsKept(r) ==
    /\ "ingest" \in Fault
    /\ call[r].pc = "index"
    /\ Fail(r)
    /\ UNCHANGED <<tables, threads>>

\* Indexing fails: the upload that created the row deletes it, its links cascade.
IndexFails(r) ==
    /\ "ingest" \in Fault
    /\ call[r].pc = "index"
    /\ documents' = IF call[r].created THEN documents \ {call[r].doc} ELSE documents
    /\ links' = {l \in links : ~call[r].created \/ l[2] # call[r].doc}
    /\ Fail(r)
    /\ UNCHANGED <<jobs, resumes, evaluations, artifacts, threads>>

\* The row is gone: the foreign key of chunks refuses the first one, or the insert that
\* was refused for it finds none to answer with.
IndexRefused(r) ==
    /\ call[r].pc = "index"
    /\ call[r].doc \notin documents
    /\ Raise(r)
    /\ UNCHANGED <<tables, threads>>

\* link_document_to_job: both sides are checked, then linked; or False.
LinkDocument(r, j, d) ==
    /\ MayStart(r, "link_document")
    /\ IF JobExists(j) /\ d \in documents
       THEN call' = [call EXCEPT ![r] = [NoCall EXCEPT
                        !.op = "link_document", !.job = j, !.doc = d, !.pc = "link"]]
       ELSE NotFound(r, "link_document")
    /\ UNCHANGED <<tables, threads>>

\* (Mutant of LinkJob: the two ids are swapped.)
LinkSwapped(r) ==
    /\ call[r].pc = "link"
    /\ links' = links \cup {<<call[r].doc, call[r].job>>}
    /\ Return(r)
    /\ UNCHANGED <<jobs, documents, resumes, evaluations, artifacts, threads>>

\* INSERT OR IGNORE INTO job_documents; both foreign keys are enforced.
LinkJob(r) ==
    /\ call[r].pc = "link"
    /\ IF JobExists(call[r].job) /\ call[r].doc \in documents
       THEN links' = links \cup {<<call[r].job, call[r].doc>>} /\ Return(r)
       ELSE UNCHANGED links /\ Raise(r)
    /\ UNCHANGED <<jobs, documents, resumes, evaluations, artifacts, threads>>

DeleteDocument(r, d) ==
    /\ MayStart(r, "delete_document")
    /\ IF d \in documents
       THEN call' = [call EXCEPT ![r] = [NoCall EXCEPT
                        !.op = "delete_document", !.doc = d, !.pc = "drop"]]
       ELSE NotFound(r, "delete_document")
    /\ UNCHANGED <<tables, threads>>

\* DELETE FROM documents: its links cascade.
DropDocument(r) ==
    /\ call[r].pc = "drop"
    /\ call[r].op = "delete_document"
    /\ documents' = documents \ {call[r].doc}
    /\ links' = {l \in links : l[2] # call[r].doc}
    /\ Return(r)
    /\ UNCHANGED <<jobs, resumes, evaluations, artifacts, threads>>

-----------------------------------------------------------------------------
(* Generations.                                                            *)

NewRun(job, posting, scope) ==
    [job |-> job, posting |-> posting, scope |-> scope, evidence |-> {},
     next |-> "retrieve"]

\* generate: a raw posting, any document of the user.
Generate(r, p) ==
    /\ MayStart(r, "generate")
    /\ call' = [call EXCEPT ![r] = [NoCall EXCEPT
                  !.op = "generate", !.posting = p, !.run = r,
                  !.pc = IF documents = {} THEN "failed" ELSE "run",
                  !.state = NewRun(None, p, Document)]]
    /\ UNCHANGED <<tables, threads>>

\* generate_for_job: the job row, with its extraction, or None.
GenerateForJob(r, j) ==
    /\ MayStart(r, "generate_for_job")
    /\ IF JobExists(j) THEN Start(r, "generate_for_job", "eligible", j, jobs[j])
                       ELSE NotFound(r, "generate_for_job")
    /\ UNCHANGED <<tables, threads>>

\* The documents it may use are resolved here, once; NoEvidenceError if none.
ResolveEligible(r) ==
    /\ call[r].pc = "eligible"
    /\ LET ids == Eligible(call[r].job)
       IN  IF ids = {}
           THEN Raise(r)
           ELSE call' = [call EXCEPT ![r].pc = "run", ![r].run = r,
                            ![r].state = NewRun(call[r].job, call[r].posting, ids)]
    /\ UNCHANGED <<tables, threads>>

\* (Mutant of ResumeRun: the run starts over.)
RestartRun(r, run, owner) ==
    /\ MayStart(r, "resume_run")
    /\ Durable /\ threads[run] # None
    /\ call' = [call EXCEPT ![r] = [NoCall EXCEPT
                  !.op = "resume_run", !.run = run, !.owner = owner, !.pc = "run",
                  !.state = [threads[run] EXCEPT !.next = "retrieve"]]]
    /\ UNCHANGED <<tables, threads>>

\* resume_run: None without durable execution or without a checkpoint, else
\* the run goes on from it.  owner: is the caller the user of that run.
ResumeRun(r, run, owner) ==
    /\ MayStart(r, "resume_run")
    /\ IF Durable /\ threads[run] # None
       THEN call' = [call EXCEPT ![r] = [NoCall EXCEPT
                        !.op = "resume_run", !.run = run, !.owner = owner, !.pc = "run",
                        !.state = threads[run]]]
       ELSE NotFound(r, "resume_run")
    /\ UNCHANGED <<tables, threads>>

\* A checkpoint reaches the disk with a delay (see Orchestrator): this one has,
\* or a later one will.
Checkpoint(run, state) ==
    \/ Durable /\ threads' = [threads EXCEPT ![run] = state]
    \/ UNCHANGED threads

Superstep(r, after) ==
    /\ call' = [call EXCEPT ![r].state = after]
    /\ Checkpoint(call[r].run, after)
    /\ UNCHANGED tables

\* retrieve_evidence: some chunks of documents in scope that are there now.
Retrieve(r) ==
    /\ call[r].pc = "run"
    /\ call[r].state.next = "retrieve"
    /\ \E found \in SUBSET (call[r].state.scope \cap documents) :
          Superstep(r, [call[r].state EXCEPT !.evidence = found, !.next = "draft"])

\* The quality loop, as a whole.
Draft(r) ==
    /\ call[r].pc = "run"
    /\ call[r].state.next = "draft"
    /\ Superstep(r, [call[r].state EXCEPT !.next = "end"])

\* Leaving the graph, by an exception or at its end, writes what is pending.
Flush(r) ==
    threads' = IF Durable THEN [threads EXCEPT ![call[r].run] = call[r].state] ELSE threads

AgentFails(r) ==
    /\ "agent" \in Fault
    /\ call[r].pc = "run"
    /\ call[r].state.next # "end"
    /\ Fail(r)
    /\ Flush(r)
    /\ UNCHANGED tables

\* (Mutant of EndRun: the owner is not compared.)
EndAnyRun(r) ==
    /\ call[r].pc = "run"
    /\ call[r].state.next = "end"
    /\ Goto(r, "persist")
    /\ Flush(r)
    /\ UNCHANGED tables

\* The orchestrator returns.  resume_run compares the owner only now.
EndRun(r) ==
    /\ call[r].pc = "run"
    /\ call[r].state.next = "end"
    /\ IF call[r].owner THEN Goto(r, "persist") ELSE ReturnNone(r)
    /\ Flush(r)
    /\ UNCHANGED tables

\* _persist: INSERT INTO generated_resumes, rejected by the foreign key when
\* the job row is gone.
PersistResume(r) ==
    /\ call[r].pc = "persist"
    /\ LET state == call[r].state
       IN  IF state.job = None \/ JobExists(state.job)
           THEN /\ resumes' = resumes \cup
                       {[id |-> r, run |-> call[r].run, job |-> state.job,
                         title |-> state.posting, evidence |-> state.evidence]}
                /\ Goto(r, "evaluate")
           ELSE /\ Raise(r)
                /\ UNCHANGED resumes
    /\ UNCHANGED <<jobs, documents, links, evaluations, artifacts, threads>>

\* The reports, in a transaction of their own.
PersistEvaluation(r) ==
    /\ call[r].pc = "evaluate"
    /\ evaluations' = evaluations \cup {r}
    /\ Goto(r, "artifacts")
    /\ UNCHANGED <<jobs, documents, links, resumes, artifacts, threads>>

\* Either statement fails; what the first one committed stays, and the call raises.
PersistFails(r) ==
    /\ "persist" \in Fault
    /\ call[r].pc \in {"persist", "evaluate"}
    /\ Fail(r)
    /\ UNCHANGED <<tables, threads>>

\* The files of the run, in a directory named after the resume.
WriteArtifacts(r) ==
    /\ call[r].pc = "artifacts"
    /\ artifacts' = artifacts \cup {r}
    /\ Return(r)
    /\ UNCHANGED <<jobs, documents, links, resumes, evaluations, threads>>

\* An OSError is logged, whatever was written by then.
WriteArtifactsFails(r) ==
    /\ "disk" \in Fault
    /\ call[r].pc = "artifacts"
    /\ Return(r)
    /\ UNCHANGED <<tables, threads>>

\* The process dies.
Crash ==
    /\ "crash" \in Fault
    /\ Active # {}
    /\ call' = [r \in Request |-> IF r \in Active THEN [call[r] EXCEPT !.pc = "lost"] ELSE call[r]]
    /\ UNCHANGED <<tables, threads>>

-----------------------------------------------------------------------------
JobStep(r) ==
    \/ \E p \in Posting : CreateJob(r, p)
    \/ \E j \in Request, p \in Posting : UpdateJob(r, j, p)
    \/ \E j \in Request : DeleteJob(r, j)
    \/ SaveJob(r) \/ ExtractionFails(r) \/ ReadBackJob(r) \/ DropJob(r)

DocumentStep(r) ==
    \/ \E j \in Request \cup {None} : UploadDocument(r, j)
    \/ \E d \in Document : CreateDocument(r, d) \/ FindDocument(r, d)
    \/ \E j \in Request, d \in Document : LinkDocument(r, j, d)
    \/ \E d \in Document : DeleteDocument(r, d)
    \/ ParseFails(r) \/ IndexDocument(r) \/ IndexFails(r) \/ IndexRefused(r)
    \/ LinkJob(r) \/ DropDocument(r)

GenerationStep(r) ==
    \/ \E p \in Posting : Generate(r, p)
    \/ \E j \in Request : GenerateForJob(r, j)
    \/ \E run \in Request, owner \in BOOLEAN : ResumeRun(r, run, owner)
    \/ ResolveEligible(r) \/ Retrieve(r) \/ Draft(r) \/ AgentFails(r) \/ EndRun(r)
    \/ PersistResume(r) \/ PersistEvaluation(r) \/ PersistFails(r)
    \/ WriteArtifacts(r) \/ WriteArtifactsFails(r)

UserStep(r) == ResolveUser(r) \/ EnsureUser(r)

\* Nothing keeps two calls from driving one run: a resume of a run that is not
\* over, or two resumes of it.
NoteOverlaps ==
    overlapped' = overlapped \cup
        {run \in Request : \E r, q \in Active' : r # q /\ call'[r].run = run /\ call'[q].run = run}

\* Only EnsureUser writes the user's row.
Next ==
    /\ \/ \E r \in Request : UserStep(r)
       \/ /\ \/ \E r \in Request : JobStep(r) \/ DocumentStep(r) \/ GenerationStep(r)
             \/ Crash
          /\ UNCHANGED user
    /\ NoteOverlaps

Spec == Init /\ [][Next]_vars

-----------------------------------------------------------------------------
(* Properties.                                                             *)

TypeOK ==
    /\ user \in BOOLEAN
    /\ jobs \in [Request -> Posting \cup {None}]
    /\ documents \subseteq Document
    /\ links \subseteq Request \X Document
    /\ resumes \subseteq Resume
    /\ evaluations \subseteq Request
    /\ artifacts \subseteq Request
    /\ threads \in [Request -> Run \cup {None}]
    /\ call \in [Request -> Call]
    /\ overlapped \subseteq Request

\* Whatever deletions overlap with uploads and generations: every link names a
\* job and a document that exist, a resume names an existing job or none, and
\* an evaluation belongs to a resume.  Every row belongs to a user who exists,
\* and no request fails because another one created the user first.
ReferentialIntegrity ==
    /\ user \/ (documents = {} /\ resumes = {} /\ \A j \in Request : ~JobExists(j))
    /\ \A r \in Request : call[r].pc = "failed" => call[r].op # None
    /\ \A l \in links : JobExists(l[1]) /\ l[2] \in documents
    /\ \A row \in resumes : row.job = None \/ JobExists(row.job)
    /\ \A e \in evaluations : \E row \in resumes : row.id = e

\* Deleting a job "must not destroy the historical record of resumes generated
\* against it": a stored resume is never removed or changed by any operation,
\* except that its job_id becomes NULL when that job is deleted.
HistoryKept ==
    [][\A row \in resumes :
          \/ row \in resumes'
          \/ /\ row.job # None
             /\ jobs'[row.job] = None
             /\ [row EXCEPT !.job = None] \in resumes']_vars

\* A generation, new or resumed, that answers with a result has stored it: the
\* resume it made from the evidence it retrieved, under the posting it read,
\* and the evaluation of it; a resumed run of someone else stores nothing.
\* The directory of artifacts mirrors what the database has, and no failure to
\* write it turns a completed generation into an error.
AnsweredIsStored ==
    \A r \in Request :
        /\ /\ call[r].op \in {"generate", "generate_for_job", "resume_run"}
           /\ call[r].pc = "done"
           /\ call[r].result
           => /\ \E row \in resumes :
                    /\ row.id = r
                    /\ row.run = call[r].run
                    /\ row.job \in {call[r].state.job, None}
                    /\ row.title = call[r].state.posting
                    /\ row.evidence = call[r].state.evidence
              /\ r \in evaluations
        /\ ~call[r].owner => \A row \in resumes : row.id # r
        /\ r \in artifacts => r \in evaluations
        /\ r \in evaluations => call[r].pc # "failed"

\* A deletion of job j, or of document d, has ended; or the upload that created d
\* failed and has taken it back.
JobDeleted(j) ==
    \E q \in Request : call[q].op = "delete_job" /\ call[q].job = j /\ call[q].result
DocumentDeleted(d) ==
    \/ \E q \in Request :
          call[q].op = "delete_document" /\ call[q].doc = d /\ call[q].result
    \/ \E q \in Request : call[q].created /\ call[q].doc = d /\ call[q].fault

\* An error answer means what a client takes it for.  create_job that raised has left
\* no job (500 after the row was committed would invite a second one); an upload that
\* raised has left no document of its own, unless its job was deleted under it; and a
\* generation that raised has left no resume, or one whose evaluation could not be
\* stored.  Where nothing failed by itself, a deletion explains the error: of the job,
\* for a completed run that could not be recorded; of the job or the document, for an
\* upload or a link that was refused after both were seen; and of a document also by
\* the upload that created it and failed.
ErrorsExplained ==
    \A r \in Request : call[r].pc = "failed" =>
        /\ call[r].op = "create_job" => ~JobExists(r)
        /\ call[r].created /\ call[r].doc \in documents => JobDeleted(call[r].job)
        /\ \A row \in resumes : row.id = r => call[r].fault /\ r \notin evaluations
        /\ call[r].state # None /\ call[r].state.next = "end" /\ ~call[r].fault =>
              JobDeleted(call[r].state.job)
        /\ call[r].op \in {"upload", "link_document"} /\ ~call[r].fault =>
              JobDeleted(call[r].job) \/ DocumentDeleted(call[r].doc)

\* Resuming continues a run, it does not make another one: all resumes stored for
\* one run are of the same posting and the same evidence, whatever was uploaded,
\* deleted or updated between the attempts, and whatever other calls were doing,
\* unless two calls drove that very run at the same time.
OneResultPerRun ==
    \A row, other \in resumes :
        row.run = other.run /\ row.run \notin overlapped =>
            row.title = other.title /\ row.evidence = other.evidence

-----------------------------------------------------------------------------
(* What the code says without an exception, and TLC refutes.               *)

\* Deleting a job does not lose the resumes generated against it: a run that
\* completed is recorded.
CompletedIsRecorded ==
    \A r \in Request :
        /\ call[r].pc = "failed"
        /\ call[r].state # None
        => call[r].state.next # "end"
=============================================================================
