# TrustResume: TLA+ models, checks and proofs

TrustResume writes resumes that are grounded in a candidate's documents.
Documents are uploaded, cut into chunks and kept in SQLite and in Chroma; a
generation is a LangGraph graph of model agents that analyses a job posting,
summarises the candidate, retrieves evidence, writes a draft, has it verified
and scored, and rewrites it a fixed number of times; the best draft is stored.

This directory holds TLA+ models of the parts where order, failure and overlap
matter, configurations that check them with TLC, and proofs checked by TLAPS.
All paths below are relative to `src/src/trustresume/` unless they begin with
`src/`.

    cd tla
    tlasany Ingestion.tla                                # parse
    tlc -workers 2 -config IngestionRaces.cfg MCIngestion.tla
    tlapm IngestionProofs.tla
    tlapm SessionsProofs.tla

`PROJECT.json` lists, for tools, the runs with their properties, for every
property a plausible bug it catches (a *mutant*, defined next to the operator it
replaces), which lines each definition stands for, the hazards, and the theorems.

## 1. Inventory

### The system and how its parts interact

One uvicorn process serves `api/server.py`. The routes that are plain `def`
(documents, jobs, generate, resume) run on FastAPI's thread pool and overlap;
the two upload routes are `async def` and ingest on the event loop, alongside the
threads. All of them call one `TrustResumeApp`, which owns **one** SQLite
connection (`check_same_thread=False`) and one Chroma client. Every repository
method is one statement followed by its commit, so the unit of interleaving is
the statement. A generation is driven by `asyncio.run` in its thread, spends
minutes in awaited model calls, and writes checkpoints to a file of its own when
a `checkpoint_path` is configured.

| Part | State it keeps | Operations | Talks to |
|---|---|---|---|
| Ingestion (`ingestion/service.py`) | none of its own | `ingest_text` (new, duplicate, re-index in place), `delete_document` | SQLite, Chroma, profile flag |
| Candidate Profile cache (`orchestration/candidate_profile_service.py`) | one row per user with a stale flag | `get_or_refresh` | SQLite, an agent |
| SQLite (`storage/`) | users, documents, chunks, profiles, jobs, links, resumes, evaluations | one statement each; cascades, SET NULL, two unique indexes | everybody |
| Chroma (`retrieval/vector_store.py`) | a vector per chunk | upsert, delete, search | Ingestion, retrieval |
| Hybrid retrieval (`retrieval/hybrid.py`) | none | fuse two rankings | SQLite FTS, Chroma |
| Orchestrator (`orchestration/orchestrator.py`) | graph state, checkpoint thread | `run`, `resume`, seven nodes, `_route` | agents, checkpointer |
| Workflow state (`models/workflow.py`) | drafts and reports of a run | `final_index` and what follows from it | Orchestrator, facade |
| Scoring (`models/trust.py`, `evaluation/scorer.py`) | none | Trust Score, ATS Score, gate | agents |
| Feedback, rejection reason (`orchestration/`) | none | text for the next draft, text for the user | Orchestrator, facade |
| Facade (`api/app_service.py`) | none of its own | users, jobs, links, uploads, generations, `_persist` | all of the above |
| Telemetry and report (`telemetry.py`, `export/artifacts.py`) | a tracker per invocation | callbacks per model call, the join in `metrics.json` | Orchestrator |
| Agents (`agents/`) | none | one model call with up to three attempts | a model provider |
| HTTP API (`api/server.py`, `api/schemas.py`) | the process: one facade, and the configuration it booted from | routes, `resolve_user`, `to_gate` | facade |
| Model factory (`api/model_factory.py`) | none; environment, local file, file | provider, roles, default gate, read at boot | agents, facade |
| User interface (`ui/`) | the cached clients, what a page shows | one script run per interaction, one request after the other | HTTP API |
| Evaluation harness (`evals/`) | none | validate a labeled set, run it, metrics | ingestion, retrieval, Trust Harness |
| Parser, chunker, query construction, embedder, export, prompts | none | text in, text out | the others |

### What is hard here, and what makes each part correct

- **Two stores without a common transaction.** An upload writes a document row,
  its chunk rows one by one, then Chroma; a re-index deletes first. Every call
  may fail or die between any two of these, and other calls run in between.
  Correct: a document nobody is changing has the same, complete chunks in both
  stores, and a deleted one has none.
- **A cache refreshed across an await.** The chunks are read, an agent is awaited
  for seconds, then the row is replaced with its flag cleared. Correct: a profile
  served from the cache is about the chunks there are.
- **Duplicate detection by check, insert and unique index.** Correct: the answer
  to an upload names a row.
- **A loop with history in three parallel lists**, that is checkpointed late,
  fails anywhere, dies, and is resumed, perhaps while it still runs. Correct: the
  history is that of one uninterrupted run, what was paid for is kept, the loop
  ends, and the draft shipped is the best.
- **Generations that take minutes over rows that others delete.** Correct:
  references hold, an answered result is stored, history is not destroyed, and an
  error is answered only for what is not there.
- **Accounting by callbacks**: calls are attributed by one list, executions timed
  by another, joined by position. Correct: a step shows the call it made.
- **Arithmetic at thresholds**: rounded scores against a gate, and fused ranks.
- **A page that is a script run again and again** over cached clients, against a
  server that may die, boot with another configuration, or answer after the client
  has given up. Correct: a page shows its user's data and only what is so, every
  click ends and makes one generation at most, and a run has the rewrites that were
  asked for.
- **Prices found by parts of names, metrics averaged over undefined cases, labels
  that deduplication makes unreachable.** Correct: a total is shown only when all of
  it is known, and the numbers of a suite tell what its cases tell.

`PROJECT.json` lists these hazards one by one, at their lines.

## 2. Modules

| Module | Models | Composed of / extended by |
|---|---|---|
| `Ingestion` | uploads, re-indexing, deletion, and profile refreshes over the two stores | `MCIngestion`, `IngestionProofs` |
| `DurableRun` | what `run` and `resume` promise: one list of scored drafts, saved as it grows | instance in `Orchestrator` |
| `Orchestrator` | one run: graph, loop, checkpoints, resume, choice of the final draft; implements `DurableRun` | `MCOrchestrator`, `OrchestratorProofs` |
| `Generation` | the facade: users, jobs, documents, links, runs, resumes, evaluations, artifact directories | `MCGeneration`, `GenerationProofs` |
| `Sessions` | a page, its clients, the server process and its configuration | `MCSessions`, `SessionsProofs` |
| `Pricing` | which row of the pricing file prices a model | extended by `RunReport` |
| `RunReport` | the usage tracker, the steps and the cost of `metrics.json` | `MCRunReport`, `RunReportProofs` |
| `RankFusion` | Reciprocal Rank Fusion | extended by `RetrievalEval` |
| `RetrievalEval` | the retrieval suite around the hybrid retriever | `MCRetrievalEval`, `RetrievalEvalProofs` |
| `Scoring` | both scores, the gate, what a rejected draft is told | extended by `TrustEval` |
| `TrustEval` | the trust suite beside the product's use of the same report | `MCTrustEval`, `TrustEvalProofs` |

`FoldLemmas`, which models nothing, holds what several proofs need of finite sums; it is
extended by `RunReportProofs`, `TrustEvalProofs` and `RetrievalEvalProofs`.

The `MC*` modules only add the model values' symmetry and the constants that
are functions or sets of tuples.

### Ingestion

A step is one committed statement or one call to Chroma or to the agent. `call[r]`
is the local state of a request: its program counter, what it was given, which
document it works on, the chunks a SELECT gave it and how many it has written.
A document is named by the upload that created it. What a document says is a
member of `Content`; parsing, cleaning and chunking appear as `Pieces`, the number
of chunks of a content; a chunk's uuid is the call and the position that made it.

`IngestText`, `DedupByContent`, `CreateDocument`, `Reread` are the duplicate checks
and the insert under the unique indexes on (user, file name) and (user, hash);
`WriteChunkRow` … `UpsertChunks` the writes; `UndoChunkRows`, `UndoDocument` the
rollback of a failed first upload; `SelectChunkRows`, `DropChunkRows`,
`DropVectors` the removal that a deletion and a re-index share; `UpdateContentHash`
the end of a re-index; `MarkStale` the end of every mutation, also in the
deletion's `finally`. `GetOrRefresh`, `AssembleCandidateText`, `CacheProfile` are the
profile service. `Fault` says what may fail: `upsert`, `vdelete` (Chroma, all or
nothing), `llm`, `crash`.

The history variables `tainted` and `missed` record, without constraining anything,
which documents had a call of their own fail, die or race, and whether a refresh
overlapped a mutation or a mutation ended without its flag. Properties exclude
these because the code documents the gap (`_reindex_in_place`) or because a run
below shows the behaviour as a finding. What they do not exclude is the point:
another document's failures and races, the rollback, and every failure of a call
before its first write.

### Orchestrator

An invocation (of `run` or `resume`) works on a copy of `_GraphState`; a checkpoint is
queued after each node and written later, in order (`Persist`), because LangGraph's
durability is asynchronous; leaving the graph waits for the queue (`Flushed`).
Drafts and reports carry what relates them: a draft its iteration and the two
reports its feedback was built from, a report the iteration it grades and a score.
`NodeFails` is the exception of an agent after its attempts, `Crash` the death of the
process, `Resume` starts from what is on disk. `MaxRunning = 2` lets a run be resumed
while it is running. LangGraph is external: what is modelled of it is how
`orchestrator.py` uses it.

`DurableRun` is the run as its callers see it: a list of scored drafts that grows to
`max_iterations + 1`, a saved beginning of it, and outcomes. The instance at the end of
`Orchestrator` maps the scored drafts of each invocation, and those of the newest
checkpoint on disk, to it. Nodes that score nothing stutter; a rewrite adds a draft
when its last score is there. An invocation that exceeded the recursion limit would
end unfinished with no failure, which `DurableRun` has no step for. The refinement is
checked with one invocation at a time (`MaxRunning = 1`): when a run is resumed while
it still runs, each invocation saves over the other, and the code promises nothing
about which beginning is on disk then.

### Generation

Again one committed statement per step. Jobs, runs and resumes are named by the
call that makes them. An ingestion and an orchestrator run are here what the facade
sees of them, because their insides are the subject of the two modules above. Of an
upload that is the life of the document's row: `CreateDocument` commits it, and every other
call sees it, before it is indexed; `IndexFails` takes it back, with the links it got
meanwhile; `FindDocument` is an upload that meets a row, another upload's unfinished one
included; `IndexRefused` one whose row goes away under it. Of a run it is the evidence that
is read, the checkpoints, and the end. `PersistFails` is an exception of either statement of
`_persist`, after which the resume may be stored without its evaluation. `Durable` is whether there is a
checkpoint file. The two existence checks of `link_document_to_job` are one step:
the second only reads, and each row can be deleted before `LinkJob` either way.

`overlapped` is a history variable: which runs were driven by two calls at once.

### Sessions

A page is a script that starts anew after every interaction and makes one blocking
request at a time; `script[p].pc` is the request it has come to, `view[p]` what it has put
on the page. `Click` and `Type` are the user: they set what the next script run serves,
and a script that is not inside a request is abandoned for it. Each request is one
step that reads or changes the stores under the user `resolve_user` finds, except a
generation, which is a row of `runs` until `FinishRun` or `FailRun`: `Generate` and
`GenerateForJob` are the look at the documents that enables the button, `PostGeneration` the
request after it, between which the documents may go; `FailRun` may leave the resume without
its evaluation, as `_persist` does; `Receive` is the page taking the answer, `Timeout` the client giving up, `Kill` the connection breaking. What
each tab catches and what it lets through to a traceback is the `notice` of the view.
`clients` is `st.cache_resource`: keyed by what was typed, with the header they send. An id
that the pattern refuses is a 400 of the server (`BadIds`), except one that is not latin-1
(`Unsendable`): no header can hold it, and the first request of the script raises before it
is sent. An upload that reaches the server may store nothing (`SubmitUpload`): it is refused for
its size or format, or its ingestion fails.
`Boot` reads the configuration through `Setting` (environment, local file, file) and
refuses an unknown provider; `EditConf` changes it under a running server. `ApiGenerate`
and `ApiDeleteJob` are clients other than the page.

What a page does not get, although the code has it: the answer of an interrupted or
timed-out script run is stored and listed later, but not shown; the `run_id` of a
generation that crashed is never returned to a client, so only an API client that
knows it can resume. The page always sends `max_iterations`; the configured cap is
used by other clients only.

### Pricing and RunReport

`Pricing` has names as sequences of characters, in which a row is looked for at every place, as
`model.find` does; the constants may write a word as one symbol where no row begins or ends
inside it. `RunReport` has a number per model call;
`madeBy` knows which execution made it. A call may get no answer (`NoAnswer`: the tracker
counts nothing) or an unusable one (`Unparsable`: it is counted, and
`with_structured_retry` repeats it). A resume starts a new tracker with the timings of the
checkpoint. The roles of the agents give each call a model; the cost is known when every
model that was called has a row.

### RankFusion and RetrievalEval, Scoring and TrustEval

Pure computations, made state machines so that TLC enumerates their inputs; the
properties compare them with what docstrings promise. RRF scores are exact
fractions where Python adds floats. Scores are integers in hundredths of a point;
below 2000 claims or keywords every rounding tie is an exact float, so half-even
rounding of the fraction is what Python computes.

`RetrievalEval` composes the fusion with the suite: the labels are checked, the corpus
is ingested (two rows with one text are one stored document, which `ingest_corpus`
refuses), each query runs through the steps of `RankFusion`, and its chunks become
labels. `TrustEval` shares `ScoreTrust` with the product: the same counted verdicts give
the workflow a score and the suite one verdict, the worst of the report.

## 3. Runs

| Run | Question | Bounds, and why they are enough |
|---|---|---|
| `IngestionRaces` | Do the stores agree, is the cached profile current, is an answered id a row? | Four calls, two at a time, two file names, two contents (one and two chunks), every fault. Two concurrent calls show every pairwise race; a third and fourth prepare the state (a document to re-index, a profile to serve) or look at the result. |
| `LostInvalidation` | Does a mutation always leave the profile flagged? (No.) | The smallest set of calls. |
| `FilenameRace` | Does an index violation mean the same content? (No.) | Two uploads. |
| `LoopScores` | Is the best draft shipped, is paid work kept, does the loop end, does it all implement `DurableRun`? | Four drafts (the default cap of three rewrites), each side of both thresholds, one failure or crash and one resume, one checkpoint pending. |
| `LoopResume` | Is the history of a resumed, even of a doubly running run the history of one run, and does each step bring an invocation nearer to its return? | Three invocations, two at once, two drafts, two checkpoints pending. |
| `GenerationRaces` | Do references hold, is an answered result stored, is history kept, has a run one result, has an error a reason? | Four requests, two at once, one document, two postings, all operations and faults. Two at once show every pairwise race, of an upload with one that meets its unfinished row too; the theorems have any number. |
| `JobDeletedMidRun` | Is a completed run always recorded? (No.) | One job, two calls at once. |
| `ReportResumed` | Is a report's iteration right, a plain report's attribution exact, a total complete, and a price that of the model's own generation? | Three drafts, two attempts, one resume; four setups of models and rows, among them a family with a newer version, a dated id, a file that cannot be read and a provider that does not name its model. Prices are compared for every subset of six rows and nine ids. |
| `ReportRetried` | Does a step always show its own call? (No.) | One rewrite, two attempts. |
| `FuseRanks` | Does fusion rank as promised, is every label of the suite reachable, do its means tell what its cases tell? | Two lists of up to three of four chunks, `K = 2`, cut to two; a corpus of two rows, two queries with up to two labels, which may be the same one. |
| `ScoreDraft` | Does rounding ever decide the gate, is a rejected draft told all it missed, do verdict and score of one report agree, does macro-F1 show skew? | Up to six claims and thirteen keywords, four gates; every suite of up to three labeled claims. |
| `Sessions` | Is what a page shows its user's and true, are runs as asked, has a click one generation, does every click end? | One page, four texts in the id field (blank, valid, refused, not latin-1), no rewrites asked for or no number given, two interactions or calls of other clients, one death of the server, one edit among five configurations. |

Two interactions are enough for the hazards of `Sessions`: one starts a generation or
changes the id, the other overtakes it, deletes what it needs, or uses the client it
left in the cache. A second page would share the cached clients in the same way as
retyping the id does; that it adds nothing is proved (section 4). `Sessions` begins in any
configuration, with and without data.

Deadlock is not checked: every client may stop making requests, and a run that
ended has no step; that a run under way does not stop is `Terminates`, and that it
does not go on for ever `EveryStepCounts`.

Symmetry is used over calls, file names, documents, postings and chunks, which
no action tells apart, and never in a run with a liveness property.

### What the passing runs show

- `StoresAgree`: whatever other documents' calls do, fail or race, a document whose
  own calls neither failed nor overlapped has exactly its chunks in both stores, and
  the rollback of a failed first upload leaves nothing.
- `ProfileCurrent`: the flag is enough for every sequence of calls that do not overlap
  the refresh.
- `AnswerIsADocument`: also the loser of two racing uploads is given a row, unless that
  row's own upload was rolled back or someone deleted it.
- `HistoryOfOneRun` (`EveryNodeOnce`, `WholeHistory`, `InputsPresent`), `PaidWorkKept`: late checkpoints,
  crashes and even two invocations of one thread do not mix histories, because an
  invocation never reads the thread again after it started.
- `ImplementsDurableRun`: graph, checkpoint queue and recursion limit look to callers
  like one growing list; the limit is never met, and returning or raising saves all.
- `BestDraftShipped`, `Terminates`: see above. `EveryStepCounts`: an invocation, two at
  once and whatever they were resumed from, has a number of steps left that only falls;
  no node is run beyond the `6 + 4 * max_iterations` of the flow.
- `ReferentialIntegrity`, `HistoryKept`, `AnsweredIsStored`, `OneResultPerRun`: the
  foreign keys do what the facade relies on; an answer means a resume *and* its
  evaluation, written from the evidence that was read; a second first request of one
  user does not fail; a full disk does not turn a result into an error; resumed or
  repeated, a run that no two calls drove at once has one result.
- `ErrorsExplained`: an error is never answered for what was stored: a `create_job` that
  raised left no job, an upload no document, a generation no resume or one without an
  evaluation. A completed run that could not be recorded has a deletion behind it, and a link
  that was refused after both of its rows were seen a deletion, or the first upload of
  that very document, which failed and took its row back.
- `ShownBelongsToUser`: the cached clients never mix users, whatever is typed while a
  request is under way. `AnswerMeansWhatItSays`: a result on a page is stored with its
  evaluation, a generation called failed is not (its resume alone may be), and the only ways
  to a traceback are a server out of reach and a user id that fits in no header; a job deleted between two requests of one script is shown as a failure.
  `RunsAsAsked`: 0 rewrites are 0, and a running server keeps the cap it booted with.
  `OneGenerationPerClick`: no timeout, rerun or restart makes a page send a generation
  twice. `ScriptsAdvance`: a script, `st.rerun` included, never serves its click again.
- `IterationOfDraft`, `StepsAttributed`, `StepsAddUp`: positional joining is right in
  spite of failed calls, if no answer was unusable and the run was not resumed.
  `CostExplained`: no total stands next to a call nobody could price.
  `PricedByVersion`: a row that ends with a version prices no later version, and a
  generation with a row of its own has that price.
- `BothBeatOne`, `FusionFaithful` (`BetterRanksFirst`, `NothingLost`): fusion keeps what
  its docstrings promise also at ties and at the cut. `GateIsExact`: rounding never decides
  the gate. `MissesTold` (`MissesNamed`, `MissesAddressed`): no miss is left unsaid.
- `EveryLabelReachable`: a corpus whose rows collapse into one stored document never
  reaches a search. `MeansExplained`: recall below 1 has a printed miss behind it, or a
  label named twice in one query; unanswerable queries never lower the hit rate.
- `VerdictAgreesWithScore`, `MacroExposesSkew`: the suite judges a report as the score
  does, a report without claims included, and accuracy never hides a label that is
  always missed.

### Fairness

Two runs need it.

`LoopScores`: `WF_vars(Proceed(i))` for each invocation. `asyncio.run` drives an invocation
until it returns, so as long as the process lives something of it (a node, a pending
checkpoint, its return) happens. Nothing is assumed of crashes, failures or of anyone
calling `resume`: `Terminates` allows an invocation to fail or to be lost.

`Sessions`: `WF_vars(ScriptStep(p))` for each page: the Streamlit process runs a script
that can go on, and the timeout of a request expires. Nothing is assumed of the server,
which may stay down or never answer, of the reader, or of those who restart it:
`EveryClickEnds` holds because of the timeout alone.

### Findings

Each is a run whose property TLC refutes; the property says what a comment says.

1. `LostInvalidation` (bug, `storage/repositories.py:523`): a refresh that awaits the
   agent while an upload runs writes `stale = 0` over the upload's flag. The profile
   without the new document is served until the next mutation.
2. `FilenameRace` (`ingestion/service.py:233`): two uploads of different contents under
   one new file name: the loser hits the *file name* index, finds no row with its
   content and raises `RuntimeError`, which the comment there excludes.
3. `JobDeletedMidRun` (`api/app_service.py:556`): deleting a job while a run for it is
   under way makes the insert of the finished resume fail on its foreign key.
4. `ReportRetried` (`export/artifacts.py:344`): an answer that does not parse is counted
   as a call, and shifts every later step of that node.

Met while modelling, modelled as the code does it, and without a run of their own:

- a re-index that raises after it has deleted chunks does not flag the profile
  (`Excuse` has this as a reason);
- a deletion whose Chroma call fails keeps the document row without chunk rows, and
  its vectors stay searchable (`tainted`);
- re-indexing a document to the content of another one fails on the hash index only
  at its end, when the chunks are already replaced;
- two overlapping mutations of one document can leave vectors without rows;
- `QualityGate`'s docstring says the loop stops on a pass; `_route` only counts;
- `create_job` asserts that the row it wrote is there; a deletion can come between;
- a rejection reason can show "85 (needs >= 85)": `MissesNamed` bounds how far the
  shown numbers can be off;
- a label named twice in a query lowers its recall although no document is missed
  (`evals/metrics.py` divides by the list of labels);
- a dated model id such as `claude-sonnet-4-5-20250929` is taken for a longer version
  of `claude-sonnet-4-5` and stays without a price; `gpt-4o-mini`, were its row missing,
  would be priced as `gpt-4o`, which does not end in a digit;
- a user id that is not latin-1 makes `requests` raise `UnicodeEncodeError` at
  `client.health()`; `main` catches `RequestException` only, and the page ends in a
  traceback although the server is up;
- when the evaluation of a generation cannot be stored, the resume already is: the page
  says "Generation failed", and lists the resume under its job;
- an upload can answer, or link, the row of another upload of the same content that is still
  being indexed, and that one's failure then removes it;
- a row that ends with a version is refused only where a digit, or a separator and a
  digit, follows (`telemetry.py:246`): a row for `gpt-4` prices `gpt-4o-2024-08-06`, a later
  model, at the rate of `gpt-4`, where `_price_for` speaks of "silently pricing a later,
  different model generation" as what is guarded against; `PricedByVersion` allows it by name;
- a useless value of the gate in the environment (no number, or below 0) is replaced
  by the built-in default and not by what the next source says;
- the caption of the Generate tab says "One-off: not persisted"
  (`ui/streamlit_app.py:188`); `generate` stores the resume, without a job.

## 4. Proofs

Every safety and action property of the passing runs is a theorem, and so is the
refinement of `DurableRun`:

| Property | Theorem |
|---|---|
| `Ingestion!TypeOK` | `IngestionProofs!TypeCorrect` |
| `StoresAgree` | `IngestionProofs!StoresInSync` |
| `ProfileCurrent`, `AnswerIsADocument` | `IngestionProofs!CacheIsCurrent`, `AnswersAreDocuments` |
| `Orchestrator!TypeOK`, `HistoryOfOneRun`, `BestDraftShipped` | `OrchestratorProofs!TypeCorrect`, `HistoryProper` (from `NodesOnce`, `HistoryWhole`, `InputsThere`), `BestShipped` |
| `PaidWorkKept`, `ImplementsDurableRun`, `EveryStepCounts` | `OrchestratorProofs!PaidWorkStays`, `Implements`, `StepsCount` |
| `Generation!TypeOK`, `ReferentialIntegrity`, `AnsweredIsStored`, `OneResultPerRun`, `HistoryKept`, `ErrorsExplained` | `GenerationProofs!TypeCorrect`, `ReferencesHold`, `AnswersStored`, `RunsHaveOneResult`, `ResumesStay`, `ErrorsHaveReasons` |
| `Sessions!TypeOK`, `RunsAsAsked`, `ShownBelongsToUser`, `AnswerMeansWhatItSays`, `OneGenerationPerClick`, `ScriptsAdvance` | `SessionsProofs!TypeCorrect`, `CapAsAsked`, `ShownIsOwn`, `AnswersTrue`, `OneEach`, `ScriptsEnd` |
| `RunReport!TypeOK`, `IterationOfDraft`, `StepsAttributed`, `StepsAddUp`, `CostExplained`, `PricedByVersion` | `RunReportProofs!TypeCorrect`, `IterationsRight`, `CallsAttributed`, `StepsTotalled`, `CostsExplained`, `RowsPriceOne` |
| `TrustEval!EvalTypeOK`, `GateIsExact`, `MissesTold`, `VerdictAgreesWithScore`, `MacroExposesSkew` | `TrustEvalProofs!TypeCorrect`, `GateExact`, `RejectionTold` (from `RejectionNamed`, `RejectionAddressed`), `VerdictsAgree`, `SkewShown` |
| `RetrievalEval!EvalTypeOK`, `BothBeatOne`, `FusionFaithful`, `EveryLabelReachable`, `MeansExplained` | `RetrievalEvalProofs!CasesWellFormed`, `BothFirst`, `FusionProper` (from `AgreedOrderKept`, `FusionComplete`), `LabelsReachable`, `MeansTellCases` |

They hold for every value of the constants: any number of calls, invocations, pages,
interactions, drafts, deaths and edits, every set of faults. The assumptions are the
named ones of the modules, which every run evaluates: numbers are numbers, sets of
scores are what the code compares, and `None` is none of the values it is told from
(`NoneAssumption`: not a graph state, a run, or an interaction). Six theorems have
a hypothesis more, without which they are false: `PaidWorkStays` and `Implements`
(`MaxRunning = 1`), `GateExact` and `VerdictsAgree` (how many claims a score can tell
apart), `BothFirst` (`Candidates < K + 2`), and `RowsPriceOne` (`NamesTell`); each is
explained below. Each
invariant below was first checked by TLC on small instances.

### Types (`IngestionProofs`)

`TypeOK` alone is not inductive: what a call writes comes from its local state, and
its types say only that a content *may* be there. The invariant `LocalInv` says
what a call carries at each label: an insert works on the document named by
itself, a mutation has a document, a content and a file name unless it is a
deletion, `wrote` never exceeds the number of pieces and equals it from the upsert
on, and which mode can be at which label. `NextType` shows
`TypeOK /\ LocalInv` preserved, by one lemma per kind of call (`UploadKeepsType`,
`DeleteKeepsType`, `RefreshKeepsType`) with one step per action; the lemmas
`GotoFacts`, `CarryFacts`, `AnswerFacts` and `BeginFacts` say once how an update of
`call` looks from outside.

### The stores agree (`IngestionProofs`)

`StoresAgree` speaks only of documents nobody is changing, so it says nothing about
the middle of a call, and its end cannot be shown from it. `StoreInv` adds what is
true on the way:

- `DocInv(d)`: a document that is not tainted has at most one call that mutates it,
  and that call's `Phase` holds. `Phase` says, per label, which rows and vectors of the
  document are there: before the SELECT they agree; then both are what the call
  carries; the rows go, then the vectors; new rows are the first `wrote` ones the
  call makes while there are no vectors; at the end the document is in sync.
- `Born(d)`: before its upload inserts it, a document has no row and nobody works on
  it. That is why the insert starts from empty stores.
- `Own(r)`: the chunks a call is going to remove from Chroma are of its document,
  tainted or not. Without it, one document's failure could reach another's vectors.

That a step leaves other documents alone is said once (`OtherDocument`), as is what
taint gives the document a call works on: `Alone` (no second call), `FailureTaints`
(a call that raises has an excuse, except the rollback, which has to clean up).
`WorkStep` combines them; each action then only has to show the next `Phase` of its
own document. A crash ends all calls at once, and so taints everything in progress.

### The cache and the answers (`IngestionProofs`)

Both properties relate what one call left to what others do later, so each
action matters through little of what it does. `Kind` sorts the steps of a call into
nine kinds (it looks, finds or creates its document, works, breaks, undoes, flags, and
a refresh reads and caches); the actions are shown to be of a kind, and the invariants
are proved kind by kind.

- `CacheInv`, unless `missed`: while a refresh waits for the agent nothing is being
  changed and it holds the rows that are there; and while only first uploads are under
  way, a fresh profile is the text of the *other* rows (`Quiet`). The second part is what
  `ProfileCurrent` needs and does not say: a first upload that fails is rolled back and
  leaves the flag alone, so that a profile has to be current again without being
  refreshed.
- `AnswerInv`: the document an upload works on or has answered is a row, or a deletion
  named it (`DeletedBy`), or its own upload failed. It has to hold from the moment the loser
  of a race reads the winner's row, while the winner can still be rolled back.

### One history (`OrchestratorProofs`)

Overlapping invocations, late checkpoints and crashes multiply the places where a graph
state can be: an invocation, its queue, the disk. `HistoryInv` says the same of each:
it is a state that *one uninterrupted run* passes through (`OneRun`): `next` and `iteration`
fix how many drafts, reports of each kind and timings there are and which nodes they
name, each draft was written from the reports before it, and each report grades its
own draft. Because an invocation copies a state that satisfies `OneRun` and applies one
node to it, nothing else about the interleaving matters. `HistoryOfOneRun` follows from it. `BestShipped` also needs that `final_index` finds a maximum: `RankedBelow` is a
strict order on any two drafts (`RankIsOrder`), and every prefix of the drafts has one
that is below none (`LeastNumber`, the least counterexample of a natural number).

### DurableRun (`OrchestratorProofs`)

`SoleInv` adds, for the one invocation that runs, that its checkpoints are in order:
what is on disk is extended by the first queued, each by the next, and the last is
where the invocation stands (`Saving`); between invocations the queue is empty.
`PaidWorkStays` follows at once: writing the next checkpoint extends what is on disk.
For `Implements` each action is mapped: the node that scores a draft last makes the
mapped list longer by that draft, `Persist` moves the saved beginning on, an end, a
failure, a crash and a resume are those of `DurableRun`, and all else stutters. That
the mapped list grows by just this draft uses the counts of `OneRun`.

The hypothesis `MaxRunning = 1` is not one of convenience: with two invocations of one
`run_id` each saves over the other, the beginning on disk does go back, and neither
code nor comments promise otherwise. The other theorems of the module do without it.

### How far a run is from its end (`OrchestratorProofs`)

`Terminates` is liveness, but that there is no way to go on for ever is safety: `StepsLeft` is a
number that `EveryStepCounts` says falls with every step of a running invocation. A node
that has not run yet counts two, for itself and the checkpoint it leaves, a queued
checkpoint one, and the return one. How many nodes have not run yet is known because
`OneRun` fixes the number of timings by `next` and `iteration`, and `WithinFlow` bounds it: the
bound holds from any checkpoint, however old, and while a second invocation of the same
run writes over it. What fairness adds is only that a step is taken.

### References, answers and runs (`GenerationProofs`)

A call is early (it drives no run), driving, or late (it stores what its run made).
`Local` says what it carries at each step, `KeyInv` the foreign keys, `UserInv` that nothing
is there before the user is. `RowInv` and `StoredInv` tie tables to calls in both
directions: every resume is what the state of some call said when it stored it, and a
call past `_persist` has its row, past the evaluation also that. The deletions are harmless
because `RowInv` allows just what `ON DELETE SET NULL` does.

`OneResultPerRun` relates resumes that different calls stored at different times. What
they share is the checkpoint: `RunInv` says that once the checkpoint of a run is at its end,
the state of every call that drives the run, and every resume stored for it, is what
the checkpoint says, provided no two calls drove it at once; `SoloInv` says that two that
do are recorded in `overlapped`. Without a checkpoint file a run is driven only by the call that
made it.

`HistoryKept` is an action property: only deleting a job changes stored resumes, and what
it changes is their job. Of the invariant it needs the types and that the call has a job.

`ErrorsExplained` needs to know, when a statement is refused, that what it refers to was once
there. `ReasonInv` keeps that: a job or document that a call has checked, found or created, and
the job of every state that a call or a checkpoint holds, exists still or a deletion of it has
ended, or the upload that created it has failed (`Seen`, `SeenDocument`, `SeenRun`). Rows only
disappear by the step that ends a deletion or rolls an upload back, and only appear by that of a
creation (`RowsMove`), so what was seen stays seen (`SeenStays`). A row that was taken back does
not come again, because a document has one creator (`Held`, `Fresh`). It is so also when the deletion's own caller crashes afterwards. For `create_job` it says that the row
is there only while the call that made it is reading it back, has answered, or is lost.

### Pages (`SessionsProofs`)

`CapAsAsked`: `RunsAsAsked` is about `resumes`, whose rows were `runs`, whose cap came from a
server: `CapInv` says it of both kinds of rows, together with `CapOfBoot`: a server that is
up has the cap its boot configuration gives. That `load_quality_gate` always yields a
number, and the environment's when that is one, is `DefaultGate`, over `SettingFacts`,
which finds the nearest of three sources. The current configuration appears nowhere in
the invariant, which is the point: an edit cannot change what a running server does.

The others come from `PageInv`, for any number of pages where the run has one:

- `ClientInv`: a cached client sends the header of its key, a running script has a client
  of its key, and a page that waits for no new run has the text of its script in the
  field. `UserIs` concludes that `User(p)` is the user of the script's text.
- `StepInv`, `PostInv`: only the button of a step leads to it, and a generation of a
  script's click is of its user and makes the script leave the steps from which it could
  post another (`ToPost`). `StepsOn` evaluates the order of the tabs for every click.
- `ClickInv`: a click is served by one script of one page and has one generation at most,
  running or stored, and what runs has no evaluation yet. A failure shown for a click
  therefore concerns a generation that has none and never will (`NoneWhole`), and a deleted job (`WithoutJob`) can neither join nor split generations;
  `OneEach` follows at once.
- `ShowInv`: what a view shows, and what its script has fetched and not shown yet, is of
  the script's user and stored, a result with its evaluation (`MineWhole`); a traceback has
  seen the server out of reach, or the script's id fits in no header. That
  a download never fails for another reason needs that listed rows are never lost.

A step of a page is described once (`Fits`, `Puts`) and shown to keep the invariant
(`FitKeeps`); every action only has to fit. The same is done for the server's steps and the
end of a request (`ServerKeeps`).

`ScriptsEnd` has a measure too, the place of a step in the order of the tabs (`TabsNearer`). The
one way back is `st.rerun`, which starts at the documents with no button clicked; that
`StepInv` lets only the button of a step lead to it makes it a way down, as no step that
reruns can come again (`RerunNearer`). Answers and the death of the server only end waiting
(`ServerNearer`), and a new run takes the interaction it serves (`BeginTakes`).

### The report of a run (`RunReportProofs`)

The steps of `metrics.json` come from a join of two lists that nothing relates but
counting: the n-th execution of a node takes the n-th call of that node. At the
end of a run equal counts would not be enough, because a step in the middle may take
the call of a later one. `ReportInv` therefore has

- `Counted`, `UnderWay`: every counted call was made, is counted once, and the call under
  way is the newest one and that of the node that runs now;
- `Attributed`, for a plain report (no resume, no unusable answer): the execution that made
  a counted call is one of its node, and as many executions of a node have completed up
  to it as calls of the node have been counted. The nodes that may do without a call
  (`Sometimes`) run only once, which keeps their counts together (`Prepared`);
- `Alternating`: drafts and rewrites take turns, so that counting `prepare_rewrite` gives
  the draft's number;
- `Priced`: the calls counted per node and the models counted by name have the same prices.

`StepShows` turns the counts into the statement about steps: the call a step shows is of its
own execution, and each counted call is shown. Everything else follows from it.
`StepsAddUp` also compares with the total, which the tracker keeps by model and not by
node: `Totalled` says that the sum over the models is the number of listed calls. An answer
adds one to both and a resume empties both. `ShownAreListed` maps the listed calls one to one
to the steps that show one. Nothing is assumed of the pricing file: `CostExplained` holds
for every way to price models.

`PricedByVersion` is about names and false of arbitrary ones. `NamesTell` says what the code
relies on without saying it, for all ids and rows there may be: an id has the name of its
generation in it, and a row that is found in the id begins where that name begins and is not
longer. Such a row is a beginning of the name (`RowsBegin`); if it ends with a digit, then
that is the end of a whole version number, as `IsVersionExtension` refuses it otherwise
(`VersionOf`, `VersionedRow`), so `claude-opus-4` never prices `claude-opus-4-7`. What may follow it
are letters: `gpt-4` is such a beginning of `gpt-4o`, and prices it where that has no row.
The longest match is a generation's own row if there is one and no number follows it (`OwnRow`).
`MCRunReport` has TLC evaluate `NamesTell` for the documented names.

### The scores and the gate (`TrustEvalProofs`)

`JudgementInv` says what both scores, the feedback and the reason are at each stage; it is
inductive almost as the code stands. The work is the arithmetic, which holds for every
number of claims, where the run has six. `Quotient` and `RoundFacts` bound the rounding of
`n / d`, half to even, by half a unit. `RoundOnGrid` is the reason that it does not decide:
a fraction below a multiple of `step` is below it by at least `1 / d`, and rounding
cannot bridge that while `d` is less than two steps. `GridDecides` carries it to both scores.

`GateExact` thus asks that the gates are multiples of a `step` that divides fifty points,
and that there are fewer than `2 * step` claims and keywords: with the default gate
(multiples of five points) fewer than 1000. The bound is not an artefact: two supported
claims of 201 pass a gate of one point. `VerdictsAgree` needs fewer than 10000
claims for the same reason: one partly supported claim of so many rounds to a full score.
`RejectionTold` needs no bound.

`SkewShown` is about suites of any length. A label's F1 is a fraction of at most 1 and is 0 for a
label of the truth that is never met; a sum of such fractions is at most the number of
those that are not 0, and the number of all only if each is 1 (`SharesBound`,
`AllSharesFull`). All are 1 when every label is predicted just where it is expected, which
is what full accuracy says (`RightEverywhere`).

### Rank fusion and the retrieval suite (`RetrievalEvalProofs`)

While a search runs, its tables are those of the hits it has seen: `FusionInv` gives each
chunk's score by its ranks in the lists read so far (`ScoreOf`), its origin, and the
insertion order; between searches there is nothing (`SuiteInv`).

That sorting loses nothing is a fact about orders: scores are compared as fractions
(`LessComposes`, over the common denominator), `Before` adds the insertion order to break ties,
and so is a strict total order (`OrderFacts`); in such an order the number of members
below one is its rank, ranks differ, and by counting every rank is taken (`RankOnto`).
`FusionComplete` and `HigherFirst`, a higher score comes first also across the cut, are its
consequences, and the other two theorems only compare sums of two fractions.

`BothFirst` needs `Candidates < K + 2`: two chunks at the last rank of both lists have
`2 / (K + Candidates)`, one at the first rank of one list has `1 / (K + 1)`. The defaults are
20 and 60; the constructor accepts others, for which the sentence in `search` is false.

`LabelsReachable`: as many stored texts as rows means that no two rows share one
(`NoneTwice`, a surjection between sets of one size). `CasesWellFormed` is type correctness; it says
also that no document is scored twice, which uses `RankOnto` again, for the first chunks
of the documents.

`MeansTellCases`: each score of a case is a fraction of at most 1 (`Hits` has no more members
than the labels or than `k`), and is 1 or 0 under conditions that a case can be read for. A
mean is below 1 exactly when a summand is (`MeanBelowOne`); and if every summand of one
is at most `L` times that of another, so is the mean (`MeansCompared`), with `L = 1` for
reciprocal ranks and hits, and `L = k` for hits and precision.

### Sums (`FoldLemmas`)

The code adds up over lists and tables of any length, and the models with the community
modules' `FoldFunction`, which is a recursive function over the subsets of the domain. Induction
with a predicate as its parameter cannot be instantiated by the provers, so it is stated
about *sets*: a set of numbers that is not empty has a least one (`LeastNumber`, from
`WFMin`), hence a set that holds 0 and successors holds all (`AllNumbers`), hence a set of
subsets that holds the empty one and is closed under adding one element holds all subsets of
a finite set (`AllSubsets`). That the recursive function exists is such an induction
(`FoldExists`), and `TotalIsSum`, `FractionTotalIsSum` identify the fold with it. The fold picks its
elements in an order nothing is known of; `SumRemove` shows that the order does not matter for
numbers. For fractions, which are kept as pairs and not reduced, the pair does depend on
the order, but no comparison does: `SharesBound`, `AllSharesFull` and `SumsCompared` are
proved of any order.

For these proofs the models state sums over sets of positions (`Answerable` is a set of
indices), because the prover has no facts on filtered sequences.

### What is only model-checked

- `Terminates` and `EveryClickEnds`: liveness under fairness, out of the prover's reach. Their
  safety part, that every step leads nearer to the end, is proved (`StepsCount`,
  `ScriptsEnd`); that a step can always be taken is TLC's.
- What the four findings refute.

## 5. What is not modelled

- Text: prompts, parsing of model answers, file formats, chunk boundaries, keyword
  matching, citations, rendering. A text is a member of a small set. This is most of
  the code that no module stands for: parser, chunker, query construction, export,
  prompts, and the scripts that draw slides and diagrams and write sample files, which
  keep no state.
- The embedder and similarities: a search is a ranked list of distinct chunks.
- More than one user in `Ingestion` and `Generation`: all data are scoped by `user_id` in
  every statement; a second user appears there only as the caller of `resume_run`, where
  the owner is compared last. `Sessions` has several users, with one document and one
  job each.
- In `Sessions`: short requests do not time out, and the stores behind a request that only
  reads do not fail; of the files of a run only an `OSError` can go wrong, which is
  logged; a resume is not seen between its row and that of its evaluation, unless one of them
  fails or the server dies there; what an earlier script run left on the
  page while the new one runs cannot be clicked. The run has one page; the theorems have
  any number.
- The FTS index and its triggers, plain listings, logging.
- Token numbers and amounts of money: whether a cost is known is modelled.
- Which calls may overlap is over-approximated: any may, although two uploads on the
  event loop cannot. A property that holds here holds with less overlap; a stall of
  the event loop is not visible. For the same reason the shared SQLite connection adds
  nothing: every write is one statement and its commit.

## 6. Plan

Done in this order: `Ingestion` (most state, most races), its type theorem, the
`Orchestrator`, `Generation`, `RunReport`, the pure `RankFusion` and `Scoring`, the
theorem on the two stores; then the evaluation suites, `Pricing`, the one result of a
run under resumes, `DurableRun` and its refinement, and `Sessions` with its theorem.

Then the proofs: `Ingestion`'s cache and answers, all of `Orchestrator` with its
refinement, all of `Generation`, the pages of `Sessions`, the report with its totals, the
scores, the gate and macro-F1, the fusion and the means of the retrieval suite; last the
names in a pricing file, the reasons of errors, one generation per click, and how far an
invocation and a page are from their end.

What is left would extend the model and not the proofs: citations and their filtering, and
the FTS index with its triggers.
An abstract document store (a map from documents to contents with atomic upload and
delete) is not planned: the code does not promise it under faults, and without faults
`StoresInSync` says the same.
