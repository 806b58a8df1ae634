---------------------------- MODULE GenerationProofs ---------------------------
(***************************************************************************)
(* Jobs, documents and generations, for any number of calls that overlap,   *)
(* fail and are lost in any way: references hold, the history of resumes is *)
(* kept, an answer is stored, and resuming a run does not make another one. *)
(*                                                                         *)
(* Three phases of a call are told apart: early, while it drives no run;    *)
(* driving, while the orchestrator runs for it; late, while it stores what  *)
(* the run made.                                                            *)
(*                                                                         *)
(* Errors: what a call has seen exists still, or its deletion has ended, or *)
(* the upload that created it has taken it back (ReasonInv), so one of      *)
(* these is why it is then refused.                                         *)
(***************************************************************************)
EXTENDS Generation, TLAPS

Generations == {"generate", "generate_for_job", "resume_run"}
EarlyPC == {"idle", "newUser", "extract", "get", "drop", "ingest", "index", "link", "eligible"}
LatePC == {"persist", "evaluate", "artifacts"}
DrivePC == {"run"} \cup LatePC

\* What a call knows at each of its steps.
Local(c) ==
    /\ c.pc \in EarlyPC => c.run = None /\ c.state = None /\ c.owner
    /\ c.pc \in {"extract", "get"} => c.op \in {"create_job", "update_job"} /\ c.job \in Request
    /\ c.pc \in {"extract", "eligible"} => c.posting \in Posting
    /\ c.pc = "eligible" => c.op = "generate_for_job"
    /\ c.pc \in {"link", "eligible"} => c.job \in Request
    /\ c.pc \in {"index", "link"} => c.doc \in Document
    /\ c.pc \in {"ingest", "index"} => c.op = "upload"
    /\ c.pc \in {"idle", "newUser", "ingest"} => ~c.created
    /\ c.created => c.op = "upload" /\ c.doc \in Document
    /\ c.pc = "drop" =>
          \/ c.op = "delete_job" /\ c.job \in Request
          \/ c.op = "delete_document" /\ c.doc \in Document
    /\ c.pc \in DrivePC => c.op \in Generations /\ c.run \in Request /\ c.state \in Run
    /\ c.pc \in LatePC => c.owner /\ c.state.next = "end"
    /\ c.pc \in {"eligible"} \cup DrivePC => ~c.result
    /\ c.pc \notin {"idle", "newUser", "lost"} => c.op # None
    /\ c.pc \in {"ingest", "index", "link", "drop", "extract", "get"} => c.op \notin Generations

LocalInv == \A r \in Request : Local(call[r])

\* Every row belongs to a user who exists, and so does every call that started.
UserInv ==
    ~user => /\ documents = {} /\ resumes = {}
             /\ \A j \in Request : jobs[j] = None
             /\ \A r \in Request : call[r].pc \in {"idle", "newUser", "lost"}

\* The foreign keys.
KeyInv ==
    /\ \A l \in links : JobExists(l[1]) /\ l[2] \in documents
    /\ \A row \in resumes : row.job = None \/ JobExists(row.job)
    /\ \A e \in evaluations : \E row \in resumes : row.id = e

\* A resume was stored by a call of its owner that is past it, from its state; the call
\* failed only if its evaluation could not be stored.
RowInv ==
    \A row \in resumes :
        LET c == call[row.id]
        IN  /\ c.pc \in {"evaluate", "artifacts", "done", "lost"} \/ (c.pc = "failed" /\ c.fault)
            /\ c.op \in Generations /\ c.owner /\ c.run \in Request
            /\ row.run = c.run /\ row.job \in {c.state.job, None}
            /\ row.title = c.state.posting /\ row.evidence = c.state.evidence

Answered(c) == c.pc = "done" /\ c.result /\ c.op \in Generations

\* A call that is past storing its resume, or the evaluation, has stored it.
StoredInv ==
    /\ \A r \in Request :
          /\ call[r].pc \in {"evaluate", "artifacts"} \/ Answered(call[r]) =>
                \E row \in resumes : row.id = r
          /\ call[r].pc = "artifacts" \/ Answered(call[r]) => r \in evaluations
          /\ call[r].pc \in {"evaluate", "failed"} => r \notin evaluations
    /\ artifacts \subseteq evaluations

\* Two calls that drive one run are noted.
SoloInv ==
    \A r, q \in Active :
        r # q /\ call[r].run = call[q].run /\ call[r].run \in Request
        => call[r].run \in overlapped

Started(run) == call[run].run = run

\* What the checkpoint of its run says of a driving call, and of a stored resume,
\* unless two calls drove the run at the same time.
CallAgrees(c, thread) ==
    /\ thread # None /\ thread.next = "end" => c.state = thread
    /\ c.pc \in LatePC => thread = c.state

RowAgrees(row, thread) ==
    /\ thread # None /\ thread.next = "end"
    /\ row.title = thread.posting /\ row.evidence = thread.evidence

\* Once the checkpoint of a run says that it is over, everything about it is what the
\* checkpoint says.
RunInv ==
    /\ \A run \in Request : threads[run] # None => Durable /\ Started(run)
    /\ \A r \in Request : call[r].pc \in DrivePC =>
          /\ Started(call[r].run)
          /\ ~Durable => call[r].run = r
          /\ Durable /\ call[r].run \notin overlapped =>
                CallAgrees(call[r], threads[call[r].run])
    /\ \A row \in resumes :
          /\ Started(row.run)
          /\ ~Durable => row.run = row.id
          /\ Durable /\ row.run \notin overlapped => RowAgrees(row, threads[row.run])

TypeInv == TypeOK /\ LocalInv

RecordInv == TypeInv /\ UserInv /\ KeyInv /\ RowInv /\ StoredInv

GenerationInv == RecordInv /\ SoloInv /\ RunInv

-----------------------------------------------------------------------------
(* One call moves.                                                         *)

\* c is what call r becomes; every other call stays as it is.
Move(r, c) == c \in Call /\ call' = [call EXCEPT ![r] = c]

\* What no operation changes once it is under way, but for its answer.
Same(c, d) ==
    /\ c.op = d.op /\ c.job = d.job /\ c.posting = d.posting /\ c.doc = d.doc
    /\ c.created = d.created
    /\ c.run = d.run /\ c.owner = d.owner /\ c.state = d.state

LEMMA CallFields ==
    ASSUME NEW c \in Call
    PROVE  /\ c.pc \in PC /\ c.op \in Operations \cup {None}
           /\ c.job \in Request \cup {None} /\ c.posting \in Posting \cup {None}
           /\ c.doc \in Document \cup {None} /\ c.created \in BOOLEAN
           /\ c.run \in Request \cup {None} /\ c.owner \in BOOLEAN
           /\ c.state \in Run \cup {None} /\ c.result \in BOOLEAN /\ c.fault \in BOOLEAN
BY DEF Call

LEMMA NoCallIsCall == NoCall \in Call
BY DEF NoCall, Call, PC

LEMMA GotoMove ==
    ASSUME call \in [Request -> Call], NEW r \in Request, NEW pc \in PC, Goto(r, pc)
    PROVE  \E c : /\ Move(r, c) /\ c.pc = pc /\ Same(c, call[r])
                  /\ c.result = call[r].result /\ c.fault = call[r].fault
<1> DEFINE c == [call[r] EXCEPT !.pc = pc]
<1>1. call[r] \in Call
  OBVIOUS
<1>2. /\ c \in Call /\ c.pc = pc /\ Same(c, call[r])
      /\ c.result = call[r].result /\ c.fault = call[r].fault
  BY <1>1 DEF Call, Same
<1>3. call' = [call EXCEPT ![r] = c]
  BY DEF Goto
<1> QED BY <1>2, <1>3 DEF Move

LEMMA ReturnMove ==
    ASSUME call \in [Request -> Call], NEW r \in Request, Return(r)
    PROVE  \E c : /\ Move(r, c) /\ c.pc = "done" /\ Same(c, call[r])
                  /\ c.result /\ c.fault = call[r].fault
<1> DEFINE c == [call[r] EXCEPT !.pc = "done", !.result = TRUE]
<1>1. call[r] \in Call /\ "done" \in PC
  BY DEF PC
<1>2. c \in Call /\ c.pc = "done" /\ Same(c, call[r]) /\ c.result /\ c.fault = call[r].fault
  BY <1>1 DEF Call, Same
<1>3. call' = [call EXCEPT ![r] = c]
  BY <1>1 DEF Return
<1> QED BY <1>2, <1>3 DEF Move

LEMMA FailMove ==
    ASSUME call \in [Request -> Call], NEW r \in Request, Fail(r)
    PROVE  \E c : /\ Move(r, c) /\ c.pc = "failed" /\ Same(c, call[r])
                  /\ c.result = call[r].result /\ c.fault
<1> DEFINE c == [call[r] EXCEPT !.pc = "failed", !.fault = TRUE]
<1>1. call[r] \in Call /\ "failed" \in PC
  BY DEF PC
<1>2. c \in Call /\ c.pc = "failed" /\ Same(c, call[r]) /\ c.result = call[r].result /\ c.fault
  BY <1>1 DEF Call, Same
<1>3. call' = [call EXCEPT ![r] = c]
  BY <1>1 DEF Fail
<1> QED BY <1>2, <1>3 DEF Move

\* A call without anything but an operation and its arguments.
Plain(c) == c.run = None /\ c.state = None /\ c.owner /\ ~c.result /\ ~c.created /\ ~c.fault

LEMMA NotFoundMove ==
    ASSUME call \in [Request -> Call], NEW r \in Request, NEW op \in Operations, NotFound(r, op)
    PROVE  \E c : Move(r, c) /\ c.pc = "done" /\ c.op = op /\ Plain(c)
<1> DEFINE c == [NoCall EXCEPT !.op = op, !.pc = "done"]
<1>1. c \in Call
  BY NoCallIsCall DEF Call, PC
<1>2. c.pc = "done" /\ c.op = op /\ Plain(c)
  BY DEF NoCall, Plain
<1> QED BY <1>1, <1>2 DEF NotFound, Move

LEMMA StartMove ==
    ASSUME call \in [Request -> Call], NEW r \in Request,
           NEW op \in Operations, NEW pc \in PC,
           NEW job \in Request \cup {None}, NEW posting \in Posting \cup {None},
           Start(r, op, pc, job, posting)
    PROVE  \E c : /\ Move(r, c) /\ c.pc = pc /\ c.op = op /\ c.job = job /\ c.posting = posting
                  /\ Plain(c)
<1> DEFINE c == [NoCall EXCEPT !.op = op, !.pc = pc, !.job = job, !.posting = posting]
<1>1. c \in Call
  BY NoCallIsCall DEF Call
<1>2. c.pc = pc /\ c.op = op /\ c.job = job /\ c.posting = posting /\ Plain(c)
  BY DEF NoCall, Plain
<1> QED BY <1>1, <1>2 DEF Start, Move

-----------------------------------------------------------------------------
(* Early calls.                                                            *)

\* An early call goes on, ends, or begins to drive a run: its own, or one that goes
\* on from its checkpoint.
EarlyMove(r, c) ==
    /\ Move(r, c) /\ Local(c)
    /\ call[r].pc \in EarlyPC
    /\ c.pc \in EarlyPC \cup {"run", "done", "failed"}
    /\ ~Answered(c)
    /\ c.pc = "run" =>
          c.run = r \/ (Durable /\ threads[c.run] # None /\ c.state = threads[c.run])

LEMMA UserMoves ==
    ASSUME TypeInv, NEW r \in Request, UserStep(r)
    PROVE  \E c : EarlyMove(r, c) /\ c.pc \in {"idle", "newUser"}
<1>1. PICK c : Move(r, c) /\ c.pc \in {"idle", "newUser"} /\ Same(c, call[r])
  BY GotoMove DEF UserStep, ResolveUser, EnsureUser, PC, TypeInv, TypeOK
<1>2. call[r].pc \in {"idle", "newUser"} /\ Local(call[r])
  BY DEF UserStep, ResolveUser, EnsureUser, TypeInv, LocalInv
<1>3. Local(c)
  BY <1>1, <1>2 DEF Local, Same, EarlyPC, DrivePC, LatePC
<1> QED BY <1>1, <1>2, <1>3 DEF EarlyMove, EarlyPC, Answered

LEMMA JobMoves ==
    ASSUME TypeInv, NEW r \in Request, JobStep(r)
    PROVE  \E c : EarlyMove(r, c)
<1> USE DEF EarlyPC
<1>1. call \in [Request -> Call] /\ Local(call[r]) /\ call[r] \in Call
  BY DEF TypeInv, TypeOK, LocalInv
<1>2. ASSUME NEW p \in Posting, CreateJob(r, p)
      PROVE  \E c : EarlyMove(r, c)
  <2>1. "create_job" \in Operations /\ "extract" \in PC /\ call[r].pc = "idle"
    BY <1>2 DEF CreateJob, MayStart, Operations, PC
  <2>2. PICK c : /\ Move(r, c) /\ c.pc = "extract" /\ c.op = "create_job" /\ c.job = r
                 /\ c.posting = p /\ Plain(c)
    BY <1>1, <1>2, <2>1, StartMove DEF CreateJob
  <2>3. Local(c)
    BY <2>1, <2>2, NoneAssumption DEF Local, DrivePC, LatePC, Generations, Plain
  <2> QED BY <2>1, <2>2, <2>3 DEF EarlyMove, Answered, Plain
<1>3. ASSUME NEW j \in Request, NEW p \in Posting, UpdateJob(r, j, p)
      PROVE  \E c : EarlyMove(r, c)
  <2>1. "update_job" \in Operations /\ {"extract", "done"} \subseteq PC /\ call[r].pc = "idle"
    BY <1>3 DEF UpdateJob, MayStart, Operations, PC
  <2>2. PICK c : /\ Move(r, c) /\ c.op = "update_job" /\ Plain(c)
                 /\ c.pc = "done" \/ (c.pc = "extract" /\ c.job = j /\ c.posting = p)
    <3>1. CASE JobExists(j)
      BY <1>1, <1>3, <2>1, <3>1, StartMove DEF UpdateJob
    <3>2. CASE ~JobExists(j)
      BY <1>1, <1>3, <2>1, <3>2, NotFoundMove DEF UpdateJob
    <3> QED BY <3>1, <3>2
  <2>3. Local(c)
    BY <2>1, <2>2, NoneAssumption DEF Local, DrivePC, LatePC, Generations, Plain
  <2> QED BY <2>1, <2>2, <2>3 DEF EarlyMove, Answered, Plain
<1>4. ASSUME NEW j \in Request, DeleteJob(r, j)
      PROVE  \E c : EarlyMove(r, c)
  <2>1. "delete_job" \in Operations /\ {"drop", "done"} \subseteq PC /\ call[r].pc = "idle"
    BY <1>4 DEF DeleteJob, MayStart, Operations, PC
  <2>2. PICK c : /\ Move(r, c) /\ c.op = "delete_job" /\ Plain(c)
                 /\ c.pc = "done" \/ (c.pc = "drop" /\ c.job = j)
    <3>1. CASE JobExists(j)
      BY <1>1, <1>4, <2>1, <3>1, StartMove DEF DeleteJob
    <3>2. CASE ~JobExists(j)
      BY <1>1, <1>4, <2>1, <3>2, NotFoundMove DEF DeleteJob
    <3> QED BY <3>1, <3>2
  <2>3. Local(c)
    BY <2>1, <2>2, NoneAssumption DEF Local, DrivePC, LatePC, Generations, Plain
  <2> QED BY <2>1, <2>2, <2>3 DEF EarlyMove, Answered, Plain
<1>5. CASE SaveJob(r)
  <2>1. call[r].pc = "extract" /\ "get" \in PC
    BY <1>5 DEF SaveJob, PC
  <2>2. PICK c : Move(r, c) /\ c.pc = "get" /\ Same(c, call[r]) /\ c.result = call[r].result
    BY <1>1, <1>5, <2>1, GotoMove DEF SaveJob
  <2>3. Local(c)
    BY <1>1, <2>1, <2>2 DEF Local, Same, DrivePC, LatePC
  <2> QED BY <2>1, <2>2, <2>3 DEF EarlyMove, Answered
<1>6. CASE ExtractionFails(r)
  <2>1. call[r].pc = "extract"
    BY <1>6 DEF ExtractionFails
  <2>2. PICK c : Move(r, c) /\ c.pc = "failed" /\ Same(c, call[r]) /\ c.result = call[r].result
    BY <1>1, <1>6, FailMove DEF ExtractionFails
  <2>3. Local(c)
    BY <1>1, <2>1, <2>2 DEF Local, Same, DrivePC, LatePC
  <2> QED BY <2>1, <2>2, <2>3 DEF EarlyMove, Answered
<1>7. CASE ReadBackJob(r)
  <2>1. call[r].pc = "get" /\ {"done", "failed"} \subseteq PC
    BY <1>7 DEF ReadBackJob, PC
  <2>2. PICK c : Move(r, c) /\ c.pc \in {"done", "failed"} /\ Same(c, call[r])
    BY <1>1, <1>7, <2>1, GotoMove, ReturnMove DEF ReadBackJob, Raise, ReturnNone, Goto
  <2>3. Local(c) /\ c.op \notin Generations
    BY <1>1, <2>1, <2>2 DEF Local, Same, DrivePC, LatePC
  <2> QED BY <2>1, <2>2, <2>3 DEF EarlyMove, Answered
<1>8. CASE DropJob(r)
  <2>1. call[r].pc = "drop"
    BY <1>8 DEF DropJob
  <2>2. PICK c : Move(r, c) /\ c.pc = "done" /\ Same(c, call[r])
    BY <1>1, <1>8, ReturnMove DEF DropJob
  <2>3. Local(c) /\ c.op \notin Generations
    BY <1>1, <2>1, <2>2 DEF Local, Same, DrivePC, LatePC
  <2> QED BY <2>1, <2>2, <2>3 DEF EarlyMove, Answered
<1> QED BY <1>2, <1>3, <1>4, <1>5, <1>6, <1>7, <1>8 DEF JobStep

\* An upload has its document, which it may have created.
IndexMove(r, c, d) ==
    /\ Move(r, c) /\ c.pc = "index" /\ c.doc = d
    /\ c.created => call[r].created \/ CreateDocument(r, d)
    /\ c.op = call[r].op /\ c.job = call[r].job /\ c.run = call[r].run
    /\ c.owner = call[r].owner /\ c.state = call[r].state
    /\ c.result = call[r].result /\ c.fault = call[r].fault

LEMMA IndexMoves ==
    ASSUME call \in [Request -> Call], NEW r \in Request, NEW d \in Document,
           CreateDocument(r, d) \/ FindDocument(r, d)
    PROVE  \E c : IndexMove(r, c, d)
<1>1. call[r] \in Call /\ "index" \in PC
  BY DEF PC
<1>2. CASE CreateDocument(r, d)
  <2> DEFINE c == [call[r] EXCEPT !.pc = "index", !.doc = d, !.created = TRUE]
  <2>1. /\ c \in Call /\ c.pc = "index" /\ c.doc = d /\ c.op = call[r].op
        /\ c.job = call[r].job /\ c.run = call[r].run /\ c.owner = call[r].owner
        /\ c.state = call[r].state /\ c.result = call[r].result /\ c.fault = call[r].fault
    BY <1>1 DEF Call
  <2>2. call' = [call EXCEPT ![r] = c]
    BY <1>2 DEF CreateDocument
  <2> QED BY <1>2, <2>1, <2>2 DEF IndexMove, Move
<1>3. CASE FindDocument(r, d)
  <2> DEFINE c == [call[r] EXCEPT !.pc = "index", !.doc = d]
  <2>1. /\ c \in Call /\ c.pc = "index" /\ c.doc = d /\ c.op = call[r].op
        /\ c.job = call[r].job /\ c.run = call[r].run /\ c.owner = call[r].owner
        /\ c.state = call[r].state /\ c.result = call[r].result /\ c.fault = call[r].fault
        /\ c.created = call[r].created
    BY <1>1 DEF Call
  <2>2. call' = [call EXCEPT ![r] = c]
    BY <1>3 DEF FindDocument
  <2> QED BY <2>1, <2>2 DEF IndexMove, Move
<1> QED BY <1>2, <1>3

LEMMA DocumentMoves ==
    ASSUME TypeInv, NEW r \in Request, DocumentStep(r)
    PROVE  \E c : EarlyMove(r, c)
<1> USE DEF EarlyPC
<1>1. call \in [Request -> Call] /\ Local(call[r]) /\ call[r] \in Call
  BY DEF TypeInv, TypeOK, LocalInv
<1>2. ASSUME NEW c, Move(r, c), Plain(c), call[r].pc = "idle",
             c.op \in {"upload", "link_document", "delete_document"},
             \/ c.pc = "done"
             \/ c.pc = "ingest" /\ c.op = "upload"
             \/ c.pc = "link" /\ c.doc \in Document /\ c.job \in Request
             \/ c.pc = "drop" /\ c.doc \in Document /\ c.op = "delete_document"
      PROVE  EarlyMove(r, c)
  <2>1. c.op \notin Generations /\ c.op # None
    BY <1>2, NoneAssumption DEF Operations, Generations
  <2>2. Local(c)
    BY <1>2, <2>1 DEF Local, DrivePC, LatePC, Plain
  <2> QED BY <1>2, <2>1, <2>2 DEF EarlyMove, Answered
<1>3. ASSUME NEW j \in Request \cup {None}, UploadDocument(r, j)
      PROVE  \E c : EarlyMove(r, c)
  <2>1. /\ call[r].pc = "idle" /\ "upload" \in Operations /\ "ingest" \in PC
    BY <1>3 DEF UploadDocument, MayStart, Operations, PC
  <2>2. PICK c : /\ Move(r, c) /\ Plain(c) /\ c.op = "upload" /\ c.pc \in {"ingest", "done"}
    <3>1. CASE j = None \/ JobExists(j)
      BY <1>1, <1>3, <2>1, <3>1, StartMove DEF UploadDocument
    <3>2. CASE ~(j = None \/ JobExists(j))
      BY <1>1, <1>3, <2>1, <3>2, NotFoundMove DEF UploadDocument
    <3> QED BY <3>1, <3>2
  <2> QED BY <1>2, <2>1, <2>2
<1>4. ASSUME NEW j \in Request, NEW d \in Document, LinkDocument(r, j, d)
      PROVE  \E c : EarlyMove(r, c)
  <2> DEFINE c == [NoCall EXCEPT !.op = "link_document", !.job = j, !.doc = d, !.pc = "link"]
  <2>1. call[r].pc = "idle" /\ "link_document" \in Operations
    BY <1>4 DEF LinkDocument, MayStart, Operations
  <2>2. CASE JobExists(j) /\ d \in documents
    <3>1. call' = [call EXCEPT ![r] = c]
      BY <1>4, <2>2 DEF LinkDocument
    <3>2. c \in Call
      BY NoCallIsCall DEF Call, Operations, PC
    <3>3. c.pc = "link" /\ c.op = "link_document" /\ c.doc = d /\ c.job = j /\ Plain(c)
      BY DEF NoCall, Plain
    <3> HIDE DEF c
    <3> QED BY <1>2, <2>1, <3>1, <3>2, <3>3 DEF Move
  <2>3. CASE ~(JobExists(j) /\ d \in documents)
    BY <1>1, <1>2, <1>4, <2>1, <2>3, NotFoundMove DEF LinkDocument
  <2> QED BY <2>2, <2>3
<1>5. ASSUME NEW d \in Document, DeleteDocument(r, d)
      PROVE  \E c : EarlyMove(r, c)
  <2> DEFINE c == [NoCall EXCEPT !.op = "delete_document", !.doc = d, !.pc = "drop"]
  <2>1. call[r].pc = "idle" /\ "delete_document" \in Operations
    BY <1>5 DEF DeleteDocument, MayStart, Operations
  <2>2. CASE d \in documents
    <3>1. call' = [call EXCEPT ![r] = c]
      BY <1>5, <2>2 DEF DeleteDocument
    <3>2. c \in Call
      BY NoCallIsCall DEF Call, Operations, PC
    <3>3. c.pc = "drop" /\ c.op = "delete_document" /\ c.doc = d /\ Plain(c)
      BY DEF NoCall, Plain
    <3> HIDE DEF c
    <3> QED BY <1>2, <2>1, <3>1, <3>2, <3>3 DEF Move
  <2>3. CASE d \notin documents
    BY <1>1, <1>2, <1>5, <2>1, <2>3, NotFoundMove DEF DeleteDocument
  <2> QED BY <2>2, <2>3
<1>6. ASSUME NEW d \in Document, CreateDocument(r, d) \/ FindDocument(r, d)
      PROVE  \E c : EarlyMove(r, c)
  <2>1. PICK c : IndexMove(r, c, d)
    BY <1>1, <1>6, IndexMoves
  <2>2. call[r].pc = "ingest"
    BY <1>6 DEF CreateDocument, FindDocument
  <2>3. Local(c) /\ c.op \notin Generations
    BY <1>1, <2>1, <2>2 DEF Local, DrivePC, LatePC, IndexMove
  <2> QED BY <2>1, <2>2, <2>3 DEF EarlyMove, Answered, IndexMove
<1>7. ASSUME NEW c, Move(r, c), Same(c, call[r]),
             \/ call[r].pc \in {"ingest", "index", "link", "drop"} /\ c.pc \in {"done", "failed"}
             \/ call[r].pc = "index" /\ c.pc = "link" /\ call[r].job # None
      PROVE  EarlyMove(r, c)
  <2>1. call[r].job \in Request \cup {None}
    BY <1>1, CallFields
  <2>2. Local(c) /\ c.op \notin Generations
    BY <1>1, <1>7, <2>1 DEF Local, Same, DrivePC, LatePC
  <2> QED BY <1>7, <2>2 DEF EarlyMove, Answered
<1>8. CASE IndexDocument(r)
  <2>1. PICK c : /\ Move(r, c) /\ c.pc \in {"done", "link"} /\ Same(c, call[r])
                 /\ c.pc = "link" => call[r].job # None
    BY <1>1, <1>8, GotoMove, ReturnMove DEF IndexDocument, PC
  <2> QED BY <1>7, <1>8, <2>1 DEF IndexDocument
<1>9. CASE ParseFails(r) \/ IndexFails(r)
  <2>1. PICK c : Move(r, c) /\ c.pc = "failed" /\ Same(c, call[r])
    BY <1>1, <1>9, FailMove DEF ParseFails, IndexFails
  <2> QED BY <1>7, <1>9, <2>1 DEF ParseFails, IndexFails
<1>10. CASE IndexRefused(r) \/ LinkJob(r) \/ DropDocument(r)
  <2>1. PICK c : Move(r, c) /\ c.pc \in {"done", "failed"} /\ Same(c, call[r])
    BY <1>1, <1>10, GotoMove, ReturnMove DEF IndexRefused, LinkJob, DropDocument, Raise, Goto, PC
  <2> QED BY <1>7, <1>10, <2>1 DEF IndexRefused, LinkJob, DropDocument
<1> QED BY <1>3, <1>4, <1>5, <1>6, <1>8, <1>9, <1>10 DEF DocumentStep

\* The calls that begin to drive a run.
Begin(r) ==
    \/ \E p \in Posting : Generate(r, p)
    \/ \E j \in Request : GenerateForJob(r, j)
    \/ \E run \in Request, owner \in BOOLEAN : ResumeRun(r, run, owner)
    \/ ResolveEligible(r)

LEMMA NewRunIsRun ==
    ASSUME NEW job \in Request \cup {None}, NEW posting \in Posting,
           NEW scope \in SUBSET Document
    PROVE  NewRun(job, posting, scope) \in Run
BY DEF NewRun, Run

LEMMA BeginMoves ==
    ASSUME TypeInv, NEW r \in Request, Begin(r)
    PROVE  \E c : EarlyMove(r, c)
<1> USE DEF EarlyPC
<1>1. call \in [Request -> Call] /\ Local(call[r]) /\ call[r] \in Call
  BY DEF TypeInv, TypeOK, LocalInv
<1>2. ASSUME NEW p \in Posting, Generate(r, p)
      PROVE  \E c : EarlyMove(r, c)
  <2> DEFINE pc == IF documents = {} THEN "failed" ELSE "run"
             state == NewRun(None, p, Document)
             c == [NoCall EXCEPT !.op = "generate", !.posting = p, !.run = r,
                                 !.pc = pc, !.state = state]
  <2>1. call[r].pc = "idle" /\ call' = [call EXCEPT ![r] = c]
    BY <1>2 DEF Generate, MayStart
  <2>2. pc \in {"failed", "run"} /\ {"failed", "run"} \subseteq PC /\ state \in Run
    BY NewRunIsRun DEF PC
  <2> HIDE DEF pc, state
  <2>3. /\ c.pc = pc /\ c.op = "generate" /\ c.run = r /\ c.state = state
        /\ c.owner /\ ~c.result /\ ~c.created
    BY DEF NoCall
  <2>4. c \in Call
    BY <2>2, NoCallIsCall DEF Call, Operations
  <2>5. Local(c)
    BY <2>2, <2>3, NoneAssumption DEF Local, DrivePC, LatePC, Generations, Operations
  <2> HIDE DEF c
  <2> QED BY <2>1, <2>2, <2>3, <2>4, <2>5 DEF EarlyMove, Answered, Move
<1>3. ASSUME NEW j \in Request, GenerateForJob(r, j)
      PROVE  \E c : EarlyMove(r, c)
  <2>1. /\ "generate_for_job" \in Operations /\ {"eligible", "done"} \subseteq PC
        /\ call[r].pc = "idle" /\ jobs[j] \in Posting \cup {None}
    BY <1>3 DEF GenerateForJob, MayStart, Operations, PC, TypeInv, TypeOK
  <2>2. PICK c : /\ Move(r, c) /\ c.op = "generate_for_job" /\ Plain(c)
                 /\ \/ c.pc = "done"
                    \/ c.pc = "eligible" /\ c.job = j /\ c.posting = jobs[j] /\ JobExists(j)
    <3>1. CASE JobExists(j)
      BY <1>1, <1>3, <2>1, <3>1, StartMove DEF GenerateForJob
    <3>2. CASE ~JobExists(j)
      BY <1>1, <1>3, <2>1, <3>2, NotFoundMove DEF GenerateForJob
    <3> QED BY <3>1, <3>2
  <2>3. Local(c)
    BY <2>1, <2>2, NoneAssumption DEF Local, DrivePC, LatePC, JobExists, Plain
  <2> QED BY <2>1, <2>2, <2>3 DEF EarlyMove, Answered, Plain
<1>4. ASSUME NEW run \in Request, NEW owner \in BOOLEAN, ResumeRun(r, run, owner)
      PROVE  \E c : EarlyMove(r, c)
  <2> DEFINE state == threads[run]
             c == [NoCall EXCEPT !.op = "resume_run", !.run = run, !.owner = owner,
                                 !.pc = "run", !.state = state]
  <2>1. call[r].pc = "idle" /\ "resume_run" \in Operations
    BY <1>4 DEF ResumeRun, MayStart, Operations
  <2>2. CASE Durable /\ state # None
    <3>1. call' = [call EXCEPT ![r] = c] /\ state \in Run /\ "run" \in PC
      BY <1>4, <2>2 DEF ResumeRun, PC, TypeInv, TypeOK
    <3>2. /\ c.pc = "run" /\ c.op = "resume_run" /\ c.run = run /\ c.state = state
          /\ ~c.result /\ ~c.created
      BY DEF NoCall
    <3>3. c \in Call
      <4> HIDE DEF state
      <4> QED BY <2>1, <3>1, NoCallIsCall DEF Call
    <3> HIDE DEF c
    <3>4. Local(c)
      BY <3>1, <3>2, <2>1, NoneAssumption DEF Local, DrivePC, LatePC, Generations
    <3> QED BY <2>1, <2>2, <3>1, <3>2, <3>3, <3>4 DEF EarlyMove, Answered, Move
  <2>3. CASE ~(Durable /\ state # None)
    <3>1. PICK d : Move(r, d) /\ d.pc = "done" /\ d.op = "resume_run" /\ Plain(d)
      BY <1>1, <1>4, <2>1, <2>3, NotFoundMove DEF ResumeRun
    <3>2. Local(d)
      BY <2>1, <3>1, NoneAssumption DEF Local, DrivePC, LatePC, Plain
    <3> QED BY <2>1, <3>1, <3>2 DEF EarlyMove, Answered, Plain
  <2> QED BY <2>2, <2>3
<1>5. CASE ResolveEligible(r)
  <2>1. call[r].pc = "eligible" /\ "failed" \in PC /\ "run" \in PC
    BY <1>5 DEF ResolveEligible, PC
  <2> DEFINE ids == Eligible(call[r].job)
             state == NewRun(call[r].job, call[r].posting, ids)
  <2>2. CASE ids = {}
    <3>1. PICK c : Move(r, c) /\ c.pc = "failed" /\ Same(c, call[r])
      BY <1>1, <1>5, <2>1, <2>2, GotoMove DEF ResolveEligible, Raise, Goto
    <3>2. Local(c)
      BY <1>1, <2>1, <3>1 DEF Local, Same, DrivePC, LatePC
    <3> QED BY <2>1, <3>1, <3>2 DEF EarlyMove, Answered
  <2>3. CASE ids # {}
    <3> DEFINE c == [call[r] EXCEPT !.pc = "run", !.run = r, !.state = state]
    <3>1. call' = [call EXCEPT ![r] = c]
      BY <1>1, <1>5, <2>3 DEF ResolveEligible
    <3>2. call[r].job \in Request /\ call[r].posting \in Posting /\ ids \in SUBSET Document
      BY <1>1, <2>1 DEF Local, Eligible, TypeInv, TypeOK
    <3>3. state \in Run
      BY <3>2, NewRunIsRun
    <3> HIDE DEF state
    <3>4. /\ c.pc = "run" /\ c.op = call[r].op /\ c.run = r /\ c.state = state
          /\ c.owner = call[r].owner /\ c.result = call[r].result
          /\ c.created = call[r].created /\ c.doc = call[r].doc
      BY <1>1 DEF Call
    <3>5. c \in Call
      BY <1>1, <2>1, <3>3 DEF Call
    <3> HIDE DEF c
    <3>6. Local(c)
      BY <1>1, <2>1, <3>3, <3>4 DEF Local, DrivePC, LatePC, Generations
    <3> QED BY <2>1, <3>1, <3>4, <3>5, <3>6 DEF EarlyMove, Answered, Move
  <2> QED BY <2>2, <2>3
<1> QED BY <1>2, <1>3, <1>4, <1>5 DEF Begin

-----------------------------------------------------------------------------
(* What an early call does to the tables.                                  *)

TableType ==
    /\ jobs \in [Request -> Posting \cup {None}] /\ documents \subseteq Document
    /\ links \subseteq Request \X Document /\ resumes \subseteq Resume
    /\ evaluations \subseteq Request /\ artifacts \subseteq Request

\* Every resume is still there, and no other; at most its job is gone.
RowsKept ==
    /\ \A row \in resumes' : \E old \in resumes :
          /\ row.id = old.id /\ row.run = old.run /\ row.job \in {old.job, None}
          /\ row.title = old.title /\ row.evidence = old.evidence
    /\ \A old \in resumes : \E row \in resumes' : row.id = old.id

LEMMA RowFields ==
    ASSUME NEW row \in Resume
    PROVE  /\ row.id \in Request /\ row.run \in Request /\ row.job \in Request \cup {None}
           /\ row.title \in Posting /\ row.evidence \in SUBSET Document
BY DEF Resume

\* A step that leaves the tables alone.
LEMMA TablesStay ==
    ASSUME TableType, KeyInv, UNCHANGED tables
    PROVE  TableType' /\ KeyInv' /\ RowsKept
BY DEF TableType, KeyInv, RowsKept, JobExists, tables

LEMMA SaveJobTables ==
    ASSUME TableType, KeyInv, LocalInv, NEW r \in Request, SaveJob(r)
    PROVE  TableType' /\ KeyInv' /\ RowsKept /\ UNCHANGED <<evaluations, artifacts, threads>>
<1> DEFINE j == call[r].job
           p == call[r].posting
<1>1. j \in Request /\ p \in Posting /\ p # None
  BY GenerationAssumption DEF SaveJob, LocalInv, Local
<1>2. /\ jobs' = jobs \/ jobs' = [jobs EXCEPT ![j] = p]
      /\ UNCHANGED <<documents, links, resumes, evaluations, artifacts, threads>>
  BY DEF SaveJob
<1> HIDE DEF j, p
<1>3. jobs' \in [Request -> Posting \cup {None}]
  BY <1>1, <1>2 DEF TableType
<1>4. \A k \in Request : JobExists(k) => JobExists(k)'
  BY <1>1, <1>2 DEF TableType, JobExists
<1>5. KeyInv'
  <2>1. \A l \in links : l[1] \in Request
    BY DEF TableType
  <2>2. \A row \in resumes : row.job \in Request \cup {None}
    BY RowFields DEF TableType
  <2> QED BY <1>2, <1>4, <2>1, <2>2 DEF KeyInv
<1> QED BY <1>2, <1>3, <1>5 DEF TableType, RowsKept

LEMMA DropJobTables ==
    ASSUME TableType, KeyInv, LocalInv, NEW r \in Request, DropJob(r)
    PROVE  TableType' /\ KeyInv' /\ RowsKept /\ UNCHANGED <<evaluations, artifacts, threads>>
<1> DEFINE j == call[r].job
           Drop(row) == IF row.job = j THEN [row EXCEPT !.job = None] ELSE row
<1>1. j \in Request
  BY DEF DropJob, LocalInv, Local
<1>2. /\ jobs' = [jobs EXCEPT ![j] = None] /\ links' = {l \in links : l[1] # j}
      /\ resumes' = {Drop(row) : row \in resumes}
      /\ UNCHANGED <<documents, evaluations, artifacts, threads>>
  BY DEF DropJob
<1> HIDE DEF j
<1>3. ASSUME NEW row \in resumes
      PROVE  /\ Drop(row) \in Resume
             /\ Drop(row).id = row.id /\ Drop(row).run = row.run
             /\ Drop(row).title = row.title /\ Drop(row).evidence = row.evidence
             /\ Drop(row).job = IF row.job = j THEN None ELSE row.job
  <2>1. row \in Resume
    BY DEF TableType
  <2> QED BY <2>1 DEF Resume
<1> HIDE DEF Drop
<1>4. TableType'
  BY <1>1, <1>2, <1>3 DEF TableType
<1>5. RowsKept
  <2>1. ASSUME NEW row \in resumes'
        PROVE  \E old \in resumes :
                  /\ row.id = old.id /\ row.run = old.run /\ row.job \in {old.job, None}
                  /\ row.title = old.title /\ row.evidence = old.evidence
    <3>1. PICK old \in resumes : row = Drop(old)
      BY <1>2, <2>1
    <3> QED BY <1>3, <3>1
  <2>2. ASSUME NEW old \in resumes
        PROVE  \E row \in resumes' : row.id = old.id
    BY <1>2, <1>3
  <2> QED BY <2>1, <2>2 DEF RowsKept
<1>6. \A k \in Request : k # j => (JobExists(k) => JobExists(k)')
  BY <1>2 DEF TableType, JobExists
<1>7. \A l \in links' : JobExists(l[1])' /\ l[2] \in documents'
  <2>1. \A l \in links : l[1] \in Request
    BY DEF TableType
  <2> QED BY <1>2, <1>6, <2>1 DEF KeyInv
<1>8. ASSUME NEW row \in resumes'
      PROVE  row.job = None \/ JobExists(row.job)'
  <2>1. PICK old \in resumes : row = Drop(old)
    BY <1>2, <1>8
  <2>2. old.job \in Request \cup {None} /\ (old.job = None \/ JobExists(old.job))
    BY RowFields DEF TableType, KeyInv
  <2>3. row.job = IF old.job = j THEN None ELSE old.job
    BY <1>3, <2>1
  <2> QED BY <1>6, <2>2, <2>3
<1>9. \A e \in evaluations' : \E row \in resumes' : row.id = e
  BY <1>2, <1>3 DEF KeyInv
<1> QED BY <1>2, <1>4, <1>5, <1>7, <1>8, <1>9 DEF KeyInv

LEMMA JobTables ==
    ASSUME TableType, KeyInv, LocalInv, NEW r \in Request, JobStep(r)
    PROVE  TableType' /\ KeyInv' /\ RowsKept /\ UNCHANGED <<evaluations, artifacts, threads>>
<1>1. CASE UNCHANGED <<tables, threads>>
  BY <1>1, TablesStay DEF tables
<1>2. UNCHANGED <<tables, threads>> \/ SaveJob(r) \/ DropJob(r)
  BY DEF JobStep, CreateJob, UpdateJob, DeleteJob, ExtractionFails, ReadBackJob
<1> QED BY <1>1, <1>2, SaveJobTables, DropJobTables

LEMMA DocumentTables ==
    ASSUME TableType, KeyInv, LocalInv, NEW r \in Request, DocumentStep(r)
    PROVE  TableType' /\ KeyInv' /\ RowsKept /\ UNCHANGED <<evaluations, artifacts, threads>>
<1>1. CASE UNCHANGED <<tables, threads>>
  BY <1>1, TablesStay DEF tables
<1>2. ASSUME NEW d \in Document, CreateDocument(r, d)
      PROVE  TableType' /\ KeyInv' /\ RowsKept /\ UNCHANGED <<evaluations, artifacts, threads>>
  BY <1>2 DEF CreateDocument, TableType, KeyInv, RowsKept, JobExists
<1>3. CASE LinkJob(r)
  <2>1. call[r].doc \in Document /\ call[r].job \in Request
    BY <1>3 DEF LinkJob, LocalInv, Local
  <2> DEFINE link == <<call[r].job, call[r].doc>>
  <2>2. link \in Request \X Document /\ link[1] = call[r].job /\ link[2] = call[r].doc
    BY <2>1
  <2>3. \/ links' = links
        \/ links' = links \cup {link} /\ JobExists(link[1]) /\ link[2] \in documents
    BY <1>3 DEF LinkJob
  <2> HIDE DEF link
  <2>4. UNCHANGED <<jobs, documents, resumes, evaluations, artifacts, threads>>
    BY <1>3 DEF LinkJob
  <2> QED BY <2>2, <2>3, <2>4 DEF TableType, KeyInv, RowsKept, JobExists
<1>4. CASE DropDocument(r)
  BY <1>4 DEF DropDocument, TableType, KeyInv, RowsKept, JobExists
<1>5. CASE IndexFails(r)
  BY <1>5 DEF IndexFails, TableType, KeyInv, RowsKept, JobExists
<1>6. \/ UNCHANGED <<tables, threads>> \/ LinkJob(r) \/ DropDocument(r) \/ IndexFails(r)
      \/ \E d \in Document : CreateDocument(r, d)
  BY Zenon DEF DocumentStep, UploadDocument, LinkDocument, DeleteDocument, ParseFails, FindDocument,
     IndexDocument, IndexRefused
<1> QED BY <1>1, <1>2, <1>3, <1>4, <1>5, <1>6

-----------------------------------------------------------------------------
(* Calls that drive a run.                                                 *)

\* The resume that call r stores.
NewRow(r) ==
    [id |-> r, run |-> call[r].run, job |-> call[r].state.job,
     title |-> call[r].state.posting, evidence |-> call[r].state.evidence]

\* A driving call goes on with its run or ends.  The state of a run that is over does
\* not change any more; a checkpoint is of the state the call has, and leaving the
\* graph writes it.
DriveMove(r, c) ==
    /\ Move(r, c) /\ Local(c)
    /\ call[r].pc \in DrivePC /\ c.pc \in DrivePC \cup {"done", "failed"}
    /\ c.run = call[r].run /\ c.state \in Run
    /\ call[r].state.next = "end" => c.state = call[r].state
    /\ \/ threads' = threads
       \/ Durable /\ threads' = [threads EXCEPT ![call[r].run] = c.state]
    /\ Durable /\ c.pc \in LatePC =>
          \/ call[r].pc \in LatePC
          \/ threads' = [threads EXCEPT ![call[r].run] = c.state]

LEMMA SuperstepMoves ==
    ASSUME TypeInv, NEW r \in Request, call[r].pc = "run", NEW after \in Run,
           call[r].state.next # "end", Superstep(r, after)
    PROVE  \E c : DriveMove(r, c) /\ c.pc = "run"
<1> DEFINE c == [call[r] EXCEPT !.state = after]
<1>1. call \in [Request -> Call] /\ Local(call[r]) /\ call[r] \in Call
  BY DEF TypeInv, TypeOK, LocalInv
<1>2. call' = [call EXCEPT ![r] = c]
  BY DEF Superstep
<1>3. /\ c \in Call /\ c.pc = "run" /\ c.state = after /\ c.result = call[r].result
      /\ c.op = call[r].op /\ c.run = call[r].run
      /\ c.created = call[r].created /\ c.doc = call[r].doc
  BY <1>1 DEF Call
<1> HIDE DEF c
<1>4. Local(c)
  BY <1>1, <1>3 DEF Local, EarlyPC, DrivePC, LatePC
<1>5. \/ threads' = threads
      \/ Durable /\ threads' = [threads EXCEPT ![call[r].run] = c.state]
  BY <1>3 DEF Superstep, Checkpoint
<1> QED BY <1>2, <1>3, <1>4, <1>5 DEF DriveMove, Move, DrivePC, LatePC

\* The orchestrator is at work for the call: no table is touched.
LEMMA RunMoves ==
    ASSUME TypeInv, NEW r \in Request,
           Retrieve(r) \/ Draft(r) \/ AgentFails(r) \/ EndRun(r)
    PROVE  /\ UNCHANGED tables /\ call[r].pc = "run"
           /\ \E c : /\ DriveMove(r, c) /\ ~Answered(c)
                     /\ c.pc \in {"run", "failed", "persist", "done"}
<1>1. /\ call \in [Request -> Call] /\ Local(call[r]) /\ call[r] \in Call
      /\ call[r].pc = "run" /\ call[r].state \in Run /\ ~call[r].result
  BY DEF TypeInv, TypeOK, LocalInv, Retrieve, Draft, AgentFails, EndRun, Local, DrivePC
<1>2. CASE Retrieve(r)
  <2>1. PICK found \in SUBSET (call[r].state.scope \cap documents) :
            Superstep(r, [call[r].state EXCEPT !.evidence = found, !.next = "draft"])
    BY <1>2 DEF Retrieve
  <2>2. [call[r].state EXCEPT !.evidence = found, !.next = "draft"] \in Run
    <3>1. found \in SUBSET Document
      BY DEF TypeInv, TypeOK
    <3> QED BY <1>1, <3>1 DEF Run
  <2>3. call[r].state.next # "end"
    BY <1>2 DEF Retrieve
  <2> QED BY <1>1, <2>1, <2>2, <2>3, SuperstepMoves DEF Superstep, Answered
<1>3. CASE Draft(r)
  <2>1. Superstep(r, [call[r].state EXCEPT !.next = "end"]) /\ call[r].state.next # "end"
    BY <1>3 DEF Draft
  <2>2. [call[r].state EXCEPT !.next = "end"] \in Run
    BY <1>1 DEF Run
  <2> QED BY <1>1, <2>1, <2>2, SuperstepMoves DEF Superstep, Answered
<1>4. CASE AgentFails(r)
  <2>1. PICK c : Move(r, c) /\ c.pc = "failed" /\ Same(c, call[r])
    BY <1>1, <1>4, FailMove DEF AgentFails
  <2>2. Local(c)
    BY <1>1, <2>1 DEF Local, Same, EarlyPC, DrivePC, LatePC
  <2> QED BY <1>1, <1>4, <2>1, <2>2
          DEF DriveMove, Same, AgentFails, Flush, DrivePC, LatePC, Answered
<1>5. CASE EndRun(r)
  <2>1. PICK c : /\ Move(r, c) /\ c.pc = IF call[r].owner THEN "persist" ELSE "done"
                 /\ Same(c, call[r]) /\ ~c.result
    BY <1>1, <1>5, GotoMove DEF EndRun, ReturnNone, Goto, PC
  <2>2. call[r].state.next = "end"
    BY <1>5 DEF EndRun
  <2>3. Local(c)
    BY <1>1, <2>1, <2>2 DEF Local, Same, EarlyPC, DrivePC, LatePC
  <2> QED BY <1>1, <1>5, <2>1, <2>3
          DEF DriveMove, Same, EndRun, Flush, DrivePC, LatePC, Answered
<1> QED BY <1>1, <1>2, <1>3, <1>4, <1>5

\* The run is over: its outcome is stored, step by step.
LateStep(r, c) ==
    \/ /\ call[r].pc = "persist" /\ c.pc = "evaluate"
       /\ call[r].state.job = None \/ JobExists(call[r].state.job)
       /\ resumes' = resumes \cup {NewRow(r)} /\ UNCHANGED <<evaluations, artifacts>>
    \/ /\ c.pc = "failed"
       /\ call[r].pc = "persist" \/ (call[r].pc = "evaluate" /\ c.fault)
       /\ UNCHANGED <<resumes, evaluations, artifacts>>
    \/ /\ call[r].pc = "evaluate" /\ c.pc = "artifacts"
       /\ evaluations' = evaluations \cup {r} /\ UNCHANGED <<resumes, artifacts>>
    \/ /\ call[r].pc = "artifacts" /\ c.pc = "done"
       /\ artifacts' \in {artifacts, artifacts \cup {r}} /\ UNCHANGED <<resumes, evaluations>>

LEMMA LateMoves ==
    ASSUME TypeInv, NEW r \in Request,
           \/ PersistResume(r) \/ PersistEvaluation(r) \/ PersistFails(r)
           \/ WriteArtifacts(r) \/ WriteArtifactsFails(r)
    PROVE  /\ UNCHANGED <<jobs, documents, links, threads>> /\ call[r].pc \in LatePC
           /\ \E c : DriveMove(r, c) /\ Same(c, call[r]) /\ LateStep(r, c)
<1>1. /\ call \in [Request -> Call] /\ Local(call[r]) /\ call[r] \in Call
      /\ call[r].pc \in LatePC /\ UNCHANGED <<jobs, documents, links, threads>>
  BY DEF TypeInv, TypeOK, LocalInv, PersistResume, PersistEvaluation, PersistFails,
     WriteArtifacts, WriteArtifactsFails, LatePC, tables
<1>2. ASSUME NEW c, Move(r, c), Same(c, call[r]),
             \/ c.pc \in {"evaluate", "artifacts"} /\ c.result = call[r].result
             \/ c.pc \in {"done", "failed"}
      PROVE  DriveMove(r, c)
  <2>1. Local(c)
    BY <1>1, <1>2 DEF Local, Same, EarlyPC, DrivePC, LatePC
  <2>2. c.state \in Run /\ c.state = call[r].state /\ c.run = call[r].run
    BY <1>1, <1>2 DEF Local, Same, DrivePC
  <2> QED BY <1>1, <1>2, <2>1, <2>2 DEF DriveMove, DrivePC, LatePC
<1>3. CASE PersistResume(r)
  <2>1. CASE call[r].state.job = None \/ JobExists(call[r].state.job)
    <3>1. PICK c : /\ Move(r, c) /\ c.pc = "evaluate" /\ Same(c, call[r])
                   /\ c.result = call[r].result
      BY <1>1, <1>3, <2>1, GotoMove DEF PersistResume, PC
    <3>2. LateStep(r, c)
      BY <1>3, <2>1, <3>1 DEF PersistResume, LateStep, NewRow
    <3> QED BY <1>1, <1>2, <3>1, <3>2
  <2>2. CASE ~(call[r].state.job = None \/ JobExists(call[r].state.job))
    <3>1. PICK c : Move(r, c) /\ c.pc = "failed" /\ Same(c, call[r])
      BY <1>1, <1>3, <2>2, GotoMove DEF PersistResume, Raise, Goto, PC
    <3>2. LateStep(r, c)
      BY <1>3, <2>2, <3>1 DEF PersistResume, LateStep
    <3> QED BY <1>1, <1>2, <3>1, <3>2
  <2> QED BY <2>1, <2>2
<1>4. CASE PersistEvaluation(r)
  <2>1. PICK c : /\ Move(r, c) /\ c.pc = "artifacts" /\ Same(c, call[r])
                 /\ c.result = call[r].result
    BY <1>1, <1>4, GotoMove DEF PersistEvaluation, PC
  <2>2. LateStep(r, c)
    BY <1>4, <2>1 DEF PersistEvaluation, LateStep
  <2> QED BY <1>1, <1>2, <2>1, <2>2
<1>5. CASE WriteArtifacts(r) \/ WriteArtifactsFails(r)
  <2>1. PICK c : Move(r, c) /\ c.pc = "done" /\ Same(c, call[r])
    BY <1>1, <1>5, ReturnMove DEF WriteArtifacts, WriteArtifactsFails
  <2>2. LateStep(r, c)
    BY <1>5, <2>1 DEF WriteArtifacts, WriteArtifactsFails, LateStep, tables
  <2> QED BY <1>1, <1>2, <2>1, <2>2
<1>6. CASE PersistFails(r)
  <2>1. PICK c : Move(r, c) /\ c.pc = "failed" /\ Same(c, call[r]) /\ c.fault
    BY <1>1, <1>6, FailMove DEF PersistFails
  <2>2. LateStep(r, c)
    BY <1>6, <2>1 DEF PersistFails, LateStep, tables
  <2> QED BY <1>1, <1>2, <2>1, <2>2
<1> QED BY <1>3, <1>4, <1>5, <1>6

-----------------------------------------------------------------------------
(* Records: what is stored and who stored it.                              *)

\* A call that stores nothing in this step leaves no trace of having stored.
LEMMA QuietKeepsRecords ==
    ASSUME RecordInv, TypeOK', NEW r \in Request, NEW c, Move(r, c),
           call[r].pc \in EarlyPC \cup {"run", "persist"},
           c.pc \notin {"evaluate", "artifacts"}, ~Answered(c),
           RowsKept, UNCHANGED <<evaluations, artifacts>>
    PROVE  RowInv' /\ StoredInv'
<1>1. /\ call \in [Request -> Call] /\ resumes \subseteq Resume /\ resumes' \subseteq Resume
      /\ \A q \in Request : q # r => call'[q] = call[q]
      /\ call'[r] = c
  BY DEF RecordInv, TypeInv, TypeOK, Move
<1>2. \A old \in resumes : old.id # r /\ old.id \in Request
  <2>1. call[r].pc \notin {"evaluate", "artifacts", "done", "lost", "failed"}
    BY DEF EarlyPC
  <2>2. \A old \in resumes : old.id \in Request
    BY <1>1, RowFields
  <2> QED BY <2>1, <2>2 DEF RecordInv, RowInv
<1>3. RowInv'
  <2> SUFFICES ASSUME NEW row \in resumes'
               PROVE  /\ \/ call'[row.id].pc \in {"evaluate", "artifacts", "done", "lost"}
                         \/ call'[row.id].pc = "failed" /\ call'[row.id].fault
                      /\ call'[row.id].op \in Generations /\ call'[row.id].owner
                      /\ call'[row.id].run \in Request
                      /\ row.run = call'[row.id].run
                      /\ row.job \in {call'[row.id].state.job, None}
                      /\ row.title = call'[row.id].state.posting
                      /\ row.evidence = call'[row.id].state.evidence
    BY DEF RowInv
  <2>1. PICK old \in resumes :
            /\ row.id = old.id /\ row.run = old.run /\ row.job \in {old.job, None}
            /\ row.title = old.title /\ row.evidence = old.evidence
    BY DEF RowsKept
  <2>2. call'[old.id] = call[old.id]
    BY <1>1, <1>2
  <2> QED BY <2>1, <2>2 DEF RecordInv, RowInv
<1>4. StoredInv'
  <2>1. ASSUME NEW q \in Request,
               call'[q].pc \in {"evaluate", "artifacts"} \/ Answered(call'[q])
        PROVE  \E row \in resumes' : row.id = q
    <3>1. q # r
      BY <1>1, <2>1
    <3>2. \E old \in resumes : old.id = q
      BY <1>1, <2>1, <3>1 DEF RecordInv, StoredInv
    <3> QED BY <3>2 DEF RowsKept
  <2>2. ASSUME NEW q \in Request, call'[q].pc = "artifacts" \/ Answered(call'[q])
        PROVE  q \in evaluations'
    <3>1. q # r
      BY <1>1, <2>2
    <3> QED BY <1>1, <2>2, <3>1 DEF RecordInv, StoredInv
  <2>3. ASSUME NEW q \in Request, call'[q].pc \in {"evaluate", "failed"}
        PROVE  q \notin evaluations'
    <3>1. CASE q = r
      <4>1. r \notin evaluations
        BY <1>2 DEF RecordInv, KeyInv
      <4> QED BY <3>1, <4>1
    <3>2. CASE q # r
      BY <1>1, <2>3, <3>2 DEF RecordInv, StoredInv
    <3> QED BY <3>1, <3>2
  <2>4. artifacts' \subseteq evaluations'
    BY DEF RecordInv, StoredInv
  <2> QED BY <2>1, <2>2, <2>3, <2>4 DEF StoredInv
<1> QED BY <1>3, <1>4

\* Storing the resume, its evaluation and its artifacts, in this order.
LEMMA LateKeepsRecords ==
    ASSUME RecordInv, NEW r \in Request, NEW c, Move(r, c), Local(c), Same(c, call[r]),
           call[r].pc \in LatePC, LateStep(r, c),
           UNCHANGED <<jobs, documents, links>>
    PROVE  TableType' /\ KeyInv' /\ RowInv' /\ StoredInv'
<1>1. /\ call \in [Request -> Call] /\ resumes \subseteq Resume /\ TableType
      /\ \A q \in Request : q # r => call'[q] = call[q]
      /\ call'[r] = c
  BY DEF RecordInv, TypeInv, TypeOK, TableType, Move
<1>2. /\ call[r].op \in Generations /\ call[r].run \in Request /\ call[r].state \in Run
      /\ call[r].owner
  BY DEF RecordInv, TypeInv, LocalInv, Local, DrivePC
<1>3. \A row \in resumes : row.id \in Request
  BY <1>1, RowFields
<1>4. /\ KeyInv /\ RowInv /\ StoredInv
      /\ c.op = call[r].op /\ c.run = call[r].run /\ c.state = call[r].state
      /\ c.owner = call[r].owner
  BY DEF RecordInv, Same
<1>5. CASE /\ call[r].pc = "persist" /\ c.pc = "evaluate"
           /\ call[r].state.job = None \/ JobExists(call[r].state.job)
           /\ resumes' = resumes \cup {NewRow(r)} /\ UNCHANGED <<evaluations, artifacts>>
  <2>1. /\ NewRow(r).id = r /\ NewRow(r).run = call[r].run
        /\ NewRow(r).job = call[r].state.job
        /\ NewRow(r).title = call[r].state.posting
        /\ NewRow(r).evidence = call[r].state.evidence
    BY DEF NewRow
  <2>2. NewRow(r) \in Resume
    BY <1>2 DEF NewRow, Resume, Run
  <2>3. TableType'
    BY <1>1, <1>5, <2>2 DEF TableType
  <2>4. KeyInv'
    BY <1>4, <1>5, <2>1 DEF KeyInv, JobExists
  <2>5. (\A row \in resumes : row.id # r) /\ r \notin evaluations
    BY <1>4, <1>5 DEF RowInv, KeyInv
  <2>6. RowInv'
    <3> SUFFICES ASSUME NEW row \in resumes'
                 PROVE  /\ \/ call'[row.id].pc \in {"evaluate", "artifacts", "done", "lost"}
                           \/ call'[row.id].pc = "failed" /\ call'[row.id].fault
                        /\ call'[row.id].op \in Generations /\ call'[row.id].owner
                        /\ call'[row.id].run \in Request
                        /\ row.run = call'[row.id].run
                        /\ row.job \in {call'[row.id].state.job, None}
                        /\ row.title = call'[row.id].state.posting
                        /\ row.evidence = call'[row.id].state.evidence
      BY DEF RowInv
    <3>1. CASE row \in resumes
      <4>1. call'[row.id] = call[row.id]
        BY <1>1, <1>3, <2>5, <3>1
      <4> QED BY <1>4, <3>1, <4>1 DEF RowInv
    <3>2. CASE row = NewRow(r)
      <4>1. call'[row.id] = c
        BY <1>1, <2>1, <3>2
      <4> QED BY <1>2, <1>4, <1>5, <2>1, <3>2, <4>1
    <3> QED BY <1>5, <3>1, <3>2
  <2>7. StoredInv'
    BY <1>1, <1>4, <1>5, <2>1, <2>5 DEF StoredInv, Answered
  <2> QED BY <2>3, <2>4, <2>6, <2>7
<1>6. CASE /\ c.pc = "failed"
           /\ call[r].pc = "persist" \/ (call[r].pc = "evaluate" /\ c.fault)
           /\ UNCHANGED <<resumes, evaluations, artifacts>>
  <2>1. TableType' /\ KeyInv'
    BY <1>4, <1>6, TablesStay, <1>1 DEF tables
  <2>2. RowInv'
    <3>1. \A row \in resumes : call'[row.id] = IF row.id = r THEN c ELSE call[row.id]
      BY <1>1, <1>3
    <3> QED BY <1>4, <1>6, <3>1 DEF RowInv
  <2>3. r \notin evaluations
    <3>1. call[r].pc = "persist" => \A row \in resumes : row.id # r
      BY <1>4 DEF RowInv
    <3> QED BY <1>4, <1>6, <3>1 DEF StoredInv, KeyInv
  <2>4. StoredInv'
    BY <1>1, <1>4, <1>6, <2>3 DEF StoredInv, Answered
  <2> QED BY <2>1, <2>2, <2>4
<1>7. CASE /\ call[r].pc = "evaluate" /\ c.pc = "artifacts"
           /\ evaluations' = evaluations \cup {r} /\ UNCHANGED <<resumes, artifacts>>
  <2>1. \E row \in resumes : row.id = r
    BY <1>4, <1>7 DEF StoredInv
  <2>2. TableType' /\ KeyInv'
    BY <1>1, <1>4, <1>7, <2>1 DEF TableType, KeyInv, JobExists
  <2>3. RowInv'
    <3>1. \A row \in resumes : call'[row.id] = IF row.id = r THEN c ELSE call[row.id]
      BY <1>1, <1>3
    <3> QED BY <1>4, <1>7, <3>1 DEF RowInv
  <2>4. StoredInv'
    BY <1>1, <1>4, <1>7, <2>1 DEF StoredInv, Answered
  <2> QED BY <2>2, <2>3, <2>4
<1>8. CASE /\ call[r].pc = "artifacts" /\ c.pc = "done"
           /\ artifacts' \in {artifacts, artifacts \cup {r}}
           /\ UNCHANGED <<resumes, evaluations>>
  <2>1. (\E row \in resumes : row.id = r) /\ r \in evaluations
    BY <1>4, <1>8 DEF StoredInv
  <2>2. TableType' /\ KeyInv'
    BY <1>1, <1>4, <1>8 DEF TableType, KeyInv, JobExists
  <2>3. RowInv'
    <3>1. \A row \in resumes : call'[row.id] = IF row.id = r THEN c ELSE call[row.id]
      BY <1>1, <1>3
    <3> QED BY <1>4, <1>8, <3>1 DEF RowInv
  <2>4. StoredInv'
    BY <1>1, <1>4, <1>8, <2>1 DEF StoredInv, Answered
  <2> QED BY <2>2, <2>3, <2>4
<1> QED BY <1>5, <1>6, <1>7, <1>8 DEF LateStep

-----------------------------------------------------------------------------
(* Runs: two calls that drive one run are noted, and a run has one outcome. *)

LEMMA SoloStep == NoteOverlaps => SoloInv' /\ overlapped \subseteq overlapped'
BY DEF NoteOverlaps, SoloInv

\* An early call that begins to drive a run starts a new one or goes on with it.
LEMMA EarlyKeepsRuns ==
    ASSUME RecordInv, RunInv, NEW r \in Request, NEW c, EarlyMove(r, c),
           UNCHANGED threads, RowsKept, overlapped \subseteq overlapped'
    PROVE  RunInv'
<1>1. /\ call \in [Request -> Call] /\ resumes \subseteq Resume
      /\ \A q \in Request : q # r => call'[q] = call[q]
      /\ call'[r] = c /\ Local(c) /\ call[r].run = None
  BY DEF RecordInv, TypeInv, TypeOK, LocalInv, Local, EarlyMove, Move
<1>2. \A x \in Request : Started(x) => x # r /\ call'[x].run = x
  BY <1>1, GenerationAssumption DEF Started
<1>3. \A x \in Request : threads'[x] # None => Durable /\ call'[x].run = x
  BY <1>2 DEF RunInv
<1>4. ASSUME NEW q \in Request, call'[q].pc \in DrivePC
      PROVE  /\ call'[call'[q].run].run = call'[q].run
             /\ ~Durable => call'[q].run = q
             /\ Durable /\ call'[q].run \notin overlapped' =>
                   CallAgrees(call'[q], threads'[call'[q].run])
  <2>1. CASE q = r
    <3>1. /\ c.pc = "run" /\ c.run \in Request /\ c.pc \notin LatePC
          /\ c.run = r \/ (Durable /\ threads[c.run] # None /\ c.state = threads[c.run])
      BY <1>1, <1>4, <2>1 DEF EarlyMove, Local, EarlyPC, DrivePC, LatePC
    <3>2. CASE c.run = r
      <4>1. threads[r] = None
        BY <1>2 DEF RunInv
      <4> QED BY <1>1, <2>1, <3>1, <3>2, <4>1 DEF CallAgrees
    <3>3. CASE Durable /\ threads[c.run] # None /\ c.state = threads[c.run]
      BY <1>1, <1>3, <2>1, <3>1, <3>3 DEF CallAgrees
    <3> QED BY <3>1, <3>2, <3>3
  <2>2. CASE q # r
    <3>1. call'[q] = call[q] /\ call[q].run \in Request
      BY <1>1, <1>4, <2>2 DEF RecordInv, TypeInv, LocalInv, Local
    <3>2. /\ Started(call[q].run) /\ (~Durable => call[q].run = q)
          /\ Durable /\ call[q].run \notin overlapped =>
                CallAgrees(call[q], threads[call[q].run])
      BY <1>4, <3>1 DEF RunInv
    <3> QED BY <1>2, <3>1, <3>2
  <2> QED BY <2>1, <2>2
<1>5. ASSUME NEW row \in resumes'
      PROVE  /\ call'[row.run].run = row.run
             /\ ~Durable => row.run = row.id
             /\ Durable /\ row.run \notin overlapped' => RowAgrees(row, threads'[row.run])
  <2>1. PICK old \in resumes :
            /\ row.id = old.id /\ row.run = old.run
            /\ row.title = old.title /\ row.evidence = old.evidence
    BY DEF RowsKept
  <2>2. old.run \in Request
    BY <1>1, RowFields
  <2>3. /\ Started(old.run) /\ (~Durable => old.run = old.id)
        /\ Durable /\ old.run \notin overlapped => RowAgrees(old, threads[old.run])
    BY DEF RunInv
  <2> QED BY <1>2, <2>1, <2>2, <2>3 DEF RowAgrees
<1> QED BY <1>3, <1>4, <1>5 DEF RunInv, Started

\* A driving call adds to its run what its state says, and nothing to an ended one.
LEMMA DriveKeepsRuns ==
    ASSUME RecordInv, SoloInv, RunInv, NEW r \in Request, NEW c, DriveMove(r, c),
           \A row \in resumes' : \/ row \in resumes
                                 \/ row = NewRow(r) /\ call[r].pc \in LatePC,
           overlapped \subseteq overlapped'
    PROVE  RunInv'
<1> DEFINE run == call[r].run
           state == call[r].state
<1>1. /\ call \in [Request -> Call] /\ resumes \subseteq Resume
      /\ threads \in [Request -> Run \cup {None}]
      /\ \A q \in Request : q # r => call'[q] = call[q]
      /\ call'[r] = c /\ run \in Request /\ state \in Run /\ c.run = run
      /\ call[r].pc \in LatePC => state.next = "end"
      /\ c.state \in Run
  BY DEF RecordInv, TypeInv, TypeOK, LocalInv, Local, DriveMove, Move
<1>2. /\ Started(run) /\ (~Durable => run = r)
      /\ Durable /\ run \notin overlapped =>
            /\ threads[run] # None /\ threads[run].next = "end" => state = threads[run]
            /\ call[r].pc \in LatePC => threads[run] = state
  BY DEF RunInv, DriveMove, CallAgrees
<1>3. \A x \in Request : Started(x) => call'[x].run = x
  BY <1>1 DEF Started
<1>4. /\ threads' \in {threads, [threads EXCEPT ![run] = c.state]}
      /\ ~Durable => threads' = threads
      /\ state.next = "end" => c.state = state
      /\ Durable /\ c.pc \in LatePC =>
            call[r].pc \in LatePC \/ threads' = [threads EXCEPT ![run] = c.state]
      /\ call[r].pc \in DrivePC
  BY DEF DriveMove
<1>5. ASSUME NEW q \in Request, q # r, call[q].pc \in DrivePC, call[q].run = run
      PROVE  run \in overlapped
  <2>1. q \in Active /\ r \in Active
    BY <1>4, <1>5 DEF Active, DrivePC, LatePC, EndPC
  <2> QED BY <1>1, <1>5, <2>1 DEF SoloInv
<1>6. \A row \in resumes' : \/ row \in resumes
                            \/ /\ row.id = r /\ row.run = run /\ call[r].pc \in LatePC
                               /\ row.title = state.posting /\ row.evidence = state.evidence
  BY DEF NewRow
<1> HIDE DEF run, state
<1>7. \A x \in Request : x # run => threads'[x] = threads[x]
  BY <1>1, <1>4
<1>8. threads'[run] \in {threads[run], c.state}
  BY <1>1, <1>4
<1>9. ASSUME Durable, run \notin overlapped, threads[run] # None, threads[run].next = "end"
      PROVE  threads'[run] = threads[run] /\ c.state = threads[run]
  BY <1>2, <1>4, <1>8, <1>9
<1>10. ASSUME NEW x \in Request, threads'[x] # None
       PROVE  Durable /\ call'[x].run = x
  <2>1. CASE threads'[x] = threads[x]
    BY <1>3, <1>10, <2>1 DEF RunInv
  <2>2. CASE x = run /\ Durable
    BY <1>2, <1>3, <1>10, <2>2
  <2> QED BY <1>4, <1>7, <2>1, <2>2
<1>11. ASSUME NEW q \in Request, call'[q].pc \in DrivePC
       PROVE  /\ call'[call'[q].run].run = call'[q].run
              /\ ~Durable => call'[q].run = q
              /\ Durable /\ call'[q].run \notin overlapped' =>
                    CallAgrees(call'[q], threads'[call'[q].run])
  <2>1. CASE q = r
    <3>1. call'[run].run = run /\ (~Durable => run = r)
      BY <1>1, <1>2, <1>3
    <3>2. ASSUME Durable, run \notin overlapped',
                 threads'[run] # None, threads'[run].next = "end"
          PROVE  c.state = threads'[run]
      <4>1. run \notin overlapped
        BY <3>2
      <4> QED BY <1>8, <1>9, <3>2, <4>1
    <3>3. ASSUME Durable, run \notin overlapped', c.pc \in LatePC
          PROVE  threads'[run] = c.state
      <4>1. CASE call[r].pc \in LatePC
        BY <1>1, <1>2, <1>4, <1>8, <3>3, <4>1
      <4>2. CASE threads' = [threads EXCEPT ![run] = c.state]
        BY <1>1, <4>2
      <4> QED BY <1>4, <3>3, <4>1, <4>2
    <3> QED BY <1>1, <2>1, <3>1, <3>2, <3>3 DEF CallAgrees
  <2>2. CASE q # r
    <3>1. call'[q] = call[q] /\ call[q].run \in Request /\ call[q].pc \in DrivePC
      BY <1>1, <1>11, <2>2 DEF RecordInv, TypeInv, LocalInv, Local
    <3>2. /\ Started(call[q].run) /\ (~Durable => call[q].run = q)
          /\ Durable /\ call[q].run \notin overlapped =>
                CallAgrees(call[q], threads[call[q].run])
      BY <3>1 DEF RunInv
    <3>3. CASE call[q].run = run
      BY <1>3, <1>5, <2>2, <3>1, <3>2, <3>3
    <3>4. CASE call[q].run # run
      BY <1>3, <1>7, <3>1, <3>2, <3>4
    <3> QED BY <3>3, <3>4
  <2> QED BY <2>1, <2>2
<1>12. ASSUME NEW row \in resumes'
       PROVE  /\ call'[row.run].run = row.run
              /\ ~Durable => row.run = row.id
              /\ Durable /\ row.run \notin overlapped' => RowAgrees(row, threads'[row.run])
  <2>1. CASE row \in resumes
    <3>1. row.run \in Request
      BY <1>1, <2>1, RowFields
    <3>2. /\ Started(row.run) /\ (~Durable => row.run = row.id)
          /\ Durable /\ row.run \notin overlapped => RowAgrees(row, threads[row.run])
      BY <2>1 DEF RunInv
    <3>3. ASSUME Durable, row.run \notin overlapped
          PROVE  threads'[row.run] = threads[row.run]
      BY <1>7, <1>9, <3>1, <3>2, <3>3 DEF RowAgrees
    <3> QED BY <1>3, <3>1, <3>2, <3>3
  <2>2. CASE /\ row.id = r /\ row.run = run /\ call[r].pc \in LatePC
             /\ row.title = state.posting /\ row.evidence = state.evidence
    <3>1. ASSUME Durable, run \notin overlapped'
          PROVE  threads'[run] = state
      BY <1>1, <1>2, <1>4, <1>8, <2>2, <3>1
    <3>2. state # None /\ state.next = "end"
      BY <1>1, <2>2, NoneAssumption
    <3> QED BY <1>1, <1>2, <1>3, <2>2, <3>1, <3>2 DEF RowAgrees
  <2> QED BY <1>6, <2>1, <2>2
<1> QED BY <1>10, <1>11, <1>12 DEF RunInv, Started

-----------------------------------------------------------------------------
(* Every step keeps the invariant.                                         *)

LEMMA OverlapsType == overlapped \subseteq Request /\ NoteOverlaps => (overlapped \subseteq Request)'
BY DEF NoteOverlaps

LEMMA MoveKeepsTypes ==
    ASSUME TypeInv, NEW r \in Request, NEW c, Move(r, c), Local(c),
           TableType', threads' \in [Request -> Run \cup {None}], user' \in BOOLEAN,
           NoteOverlaps
    PROVE  TypeInv'
<1>1. call \in [Request -> Call] /\ overlapped \subseteq Request
  BY DEF TypeInv, TypeOK
<1>2. call' \in [Request -> Call] /\ LocalInv'
  BY <1>1 DEF TypeInv, LocalInv, Move
<1>3. TypeOK'
  BY <1>1, <1>2, OverlapsType DEF TypeOK, TableType
<1> QED BY <1>2, <1>3 DEF TypeInv

LEMMA TypedTables == RecordInv => TableType /\ LocalInv
BY DEF RecordInv, TypeInv, TypeOK, TableType

\* Nothing but the creation of the user happens before there is a user.
LEMMA WorkNeedsUser ==
    ASSUME UserInv, NEW r \in Request, JobStep(r) \/ DocumentStep(r) \/ GenerationStep(r)
    PROVE  user
<1>1. user \/ call[r].pc \notin {"idle", "newUser", "lost"}
  <2>1. CASE JobStep(r)
    BY SMTT(30), <2>1 DEF JobStep, CreateJob, UpdateJob, DeleteJob, SaveJob, ExtractionFails,
       ReadBackJob, DropJob, MayStart
  <2>2. CASE DocumentStep(r)
    BY ZenonT(60), <2>2 DEF DocumentStep, UploadDocument, ParseFails, CreateDocument, FindDocument,
       IndexDocument, IndexFails, IndexRefused, LinkDocument, LinkJob, DeleteDocument,
       DropDocument, MayStart
  <2>3. CASE GenerationStep(r)
    BY Zenon, <2>3 DEF GenerationStep, Generate, GenerateForJob, ResumeRun, ResolveEligible,
       Retrieve, Draft, AgentFails, EndRun, PersistResume, PersistEvaluation, PersistFails,
       WriteArtifacts, WriteArtifactsFails, MayStart
  <2> QED BY <2>1, <2>2, <2>3
<1> QED BY <1>1 DEF UserInv

LEMMA EarlyKeepsInv ==
    ASSUME GenerationInv, NEW r \in Request, NEW c, EarlyMove(r, c),
           TableType', KeyInv', RowsKept, UNCHANGED <<evaluations, artifacts, threads>>,
           user' \in BOOLEAN, UserInv', NoteOverlaps
    PROVE  GenerationInv'
<1>1. /\ RecordInv /\ TypeInv /\ RunInv /\ threads \in [Request -> Run \cup {None}]
      /\ Move(r, c) /\ Local(c) /\ ~Answered(c)
      /\ call[r].pc \in EarlyPC /\ c.pc \in EarlyPC \cup {"run", "done", "failed"}
  BY DEF GenerationInv, RecordInv, TypeInv, TypeOK, EarlyMove
<1>2. TypeInv'
  BY <1>1, MoveKeepsTypes
<1>3. RowInv' /\ StoredInv'
  BY <1>1, <1>2, QuietKeepsRecords DEF TypeInv, EarlyPC
<1>4. RunInv' /\ SoloInv'
  BY <1>1, SoloStep, EarlyKeepsRuns
<1> QED BY <1>2, <1>3, <1>4 DEF GenerationInv, RecordInv

LEMMA UserKeepsInv ==
    ASSUME GenerationInv, NEW r \in Request, UserStep(r), NoteOverlaps
    PROVE  GenerationInv'
<1>1. RecordInv /\ TypeInv /\ UserInv /\ KeyInv /\ TableType
  BY TypedTables DEF GenerationInv, RecordInv
<1>2. UNCHANGED <<tables, threads>> /\ user' \in {user, TRUE} /\ user \in BOOLEAN
  BY <1>1 DEF UserStep, ResolveUser, EnsureUser, TypeInv, TypeOK
<1>3. PICK c : EarlyMove(r, c) /\ c.pc \in {"idle", "newUser"}
  BY <1>1, UserMoves
<1>4. TableType' /\ KeyInv' /\ RowsKept
  BY <1>1, <1>2, TablesStay
<1>5. UserInv'
  <2>1. \A q \in Request : call'[q].pc = call[q].pc \/ call'[q].pc \in {"idle", "newUser"}
    BY <1>1, <1>3 DEF EarlyMove, Move, TypeInv, TypeOK
  <2>2. UNCHANGED <<documents, resumes, jobs>>
    BY <1>2 DEF tables
  <2>3. CASE user' = TRUE
    BY <2>3 DEF UserInv
  <2>4. CASE UNCHANGED user
    <3>1. ~user => \A q \in Request : call'[q].pc \in {"idle", "newUser", "lost"}
      BY <1>1, <2>1 DEF UserInv
    <3> QED BY <1>1, <2>2, <2>4, <3>1 DEF UserInv
  <2> QED BY <1>2, <2>3, <2>4
<1> QED BY <1>2, <1>3, <1>4, <1>5, EarlyKeepsInv DEF tables

LEMMA EarlyStepKeepsInv ==
    ASSUME GenerationInv, NEW r \in Request, JobStep(r) \/ DocumentStep(r) \/ Begin(r),
           user, UNCHANGED user, NoteOverlaps
    PROVE  GenerationInv'
<1>1. RecordInv /\ TypeInv /\ KeyInv /\ TableType /\ LocalInv
  BY TypedTables DEF GenerationInv, RecordInv
<1>2. PICK c : EarlyMove(r, c)
  BY <1>1, JobMoves, DocumentMoves, BeginMoves
<1>3. /\ TableType' /\ KeyInv' /\ RowsKept
      /\ UNCHANGED <<evaluations, artifacts, threads>>
  <2>1. CASE Begin(r)
    <3>1. UNCHANGED <<tables, threads>>
      BY <2>1 DEF Begin, Generate, GenerateForJob, ResumeRun, ResolveEligible
    <3> QED BY <1>1, <3>1, TablesStay DEF tables
  <2> QED BY <1>1, <2>1, JobTables, DocumentTables
<1>4. UserInv' /\ user' \in BOOLEAN
  BY <1>1 DEF UserInv, TypeInv, TypeOK
<1> QED BY <1>2, <1>3, <1>4, EarlyKeepsInv

LEMMA DriveThreadsType ==
    ASSUME TypeInv, NEW r \in Request, NEW c, DriveMove(r, c)
    PROVE  threads' \in [Request -> Run \cup {None}]
<1>1. threads \in [Request -> Run \cup {None}] /\ call[r].run \in Request /\ c.state \in Run
  BY DEF TypeInv, TypeOK, LocalInv, Local, DriveMove
<1> QED BY <1>1 DEF DriveMove

LEMMA RunKeepsInv ==
    ASSUME GenerationInv, NEW r \in Request,
           Retrieve(r) \/ Draft(r) \/ AgentFails(r) \/ EndRun(r),
           user, UNCHANGED user, NoteOverlaps
    PROVE  GenerationInv'
<1>1. RecordInv /\ TypeInv /\ SoloInv /\ RunInv /\ KeyInv /\ TableType
  BY TypedTables DEF GenerationInv, RecordInv
<1>2. UNCHANGED tables /\ call[r].pc = "run"
  BY <1>1, RunMoves
<1>3. PICK c : DriveMove(r, c) /\ ~Answered(c) /\ c.pc \in {"run", "failed", "persist", "done"}
  BY <1>1, RunMoves
<1>4. TableType' /\ KeyInv' /\ RowsKept
  BY <1>1, <1>2, TablesStay
<1>5. UserInv' /\ user' \in BOOLEAN
  BY <1>1 DEF UserInv, TypeInv, TypeOK
<1>6. Move(r, c) /\ Local(c)
  BY <1>3 DEF DriveMove
<1>7. TypeInv'
  BY <1>1, <1>3, <1>4, <1>5, <1>6, DriveThreadsType, MoveKeepsTypes
<1>8. RowInv' /\ StoredInv'
  BY <1>1, <1>2, <1>3, <1>4, <1>6, <1>7, QuietKeepsRecords DEF TypeInv, tables
<1>9. RunInv' /\ SoloInv'
  BY <1>1, <1>2, <1>3, SoloStep, DriveKeepsRuns DEF tables
<1> QED BY <1>4, <1>5, <1>7, <1>8, <1>9 DEF GenerationInv, RecordInv

LEMMA LateKeepsInv ==
    ASSUME GenerationInv, NEW r \in Request,
           \/ PersistResume(r) \/ PersistEvaluation(r) \/ PersistFails(r)
           \/ WriteArtifacts(r) \/ WriteArtifactsFails(r),
           user, UNCHANGED user, NoteOverlaps
    PROVE  GenerationInv'
<1>1. RecordInv /\ TypeInv /\ SoloInv /\ RunInv
  BY DEF GenerationInv, RecordInv
<1>2. UNCHANGED <<jobs, documents, links, threads>> /\ call[r].pc \in LatePC
  BY <1>1, LateMoves
<1>3. PICK c : DriveMove(r, c) /\ Same(c, call[r]) /\ LateStep(r, c)
  BY <1>1, LateMoves
<1>4. Move(r, c) /\ Local(c)
  BY <1>3 DEF DriveMove
<1>5. TableType' /\ KeyInv' /\ RowInv' /\ StoredInv'
  BY <1>1, <1>2, <1>3, <1>4, LateKeepsRecords
<1>6. UserInv' /\ user' \in BOOLEAN
  BY <1>1 DEF UserInv, TypeInv, TypeOK
<1>7. TypeInv'
  BY <1>1, <1>3, <1>4, <1>5, <1>6, DriveThreadsType, MoveKeepsTypes
<1>8. \A row \in resumes' : row \in resumes \/ (row = NewRow(r) /\ call[r].pc \in LatePC)
  BY <1>2, <1>3 DEF LateStep
<1>9. RunInv' /\ SoloInv'
  BY <1>1, <1>3, <1>8, SoloStep, DriveKeepsRuns
<1> QED BY <1>5, <1>6, <1>7, <1>9 DEF GenerationInv, RecordInv

LEMMA CrashKeepsInv ==
    ASSUME GenerationInv, Crash, UNCHANGED user, NoteOverlaps
    PROVE  GenerationInv'
<1> USE DEF GenerationInv, RecordInv
<1>1. /\ call \in [Request -> Call] /\ UNCHANGED <<tables, threads>> /\ TableType
      /\ resumes \subseteq Resume
  BY TypedTables DEF TypeInv, TypeOK, Crash
<1>2. ASSUME NEW r \in Request
      PROVE  /\ call'[r] \in Call /\ Local(call'[r])
             /\ call'[r] = call[r] \/ call'[r].pc = "lost"
             /\ call'[r].pc \notin DrivePC
             /\ Same(call'[r], call[r])
  <2>1. CASE r \in Active
    <3>1. call'[r] = [call[r] EXCEPT !.pc = "lost"]
      BY <2>1 DEF Crash
    <3>2. /\ call'[r] \in Call /\ call'[r].pc = "lost" /\ Same(call'[r], call[r])
      BY <1>1, <3>1 DEF Call, PC, Same
    <3> QED BY <3>2 DEF Local, EarlyPC, DrivePC, LatePC, Same, TypeInv, LocalInv
  <2>2. CASE r \notin Active
    <3>1. call'[r] = call[r]
      BY <2>2 DEF Crash
    <3>2. call[r].pc \in {"idle"} \cup EndPC
      BY <2>2 DEF Active
    <3> QED BY <1>1, <3>1, <3>2 DEF DrivePC, LatePC, EndPC, Same, TypeInv, LocalInv
  <2> QED BY <2>1, <2>2
<1>3. TypeInv'
  <2>1. call' \in [Request -> Call]
    BY <1>2 DEF Crash
  <2> QED BY <1>1, <1>2, <2>1, OverlapsType DEF TypeInv, TypeOK, LocalInv, tables
<1>4. UserInv' /\ KeyInv'
  BY <1>1, <1>2, TablesStay DEF UserInv, tables
<1>5. RowInv'
  <2> SUFFICES ASSUME NEW row \in resumes'
               PROVE  /\ \/ call'[row.id].pc \in {"evaluate", "artifacts", "done", "lost"}
                         \/ call'[row.id].pc = "failed" /\ call'[row.id].fault
                      /\ call'[row.id].op \in Generations /\ call'[row.id].owner
                      /\ call'[row.id].run \in Request
                      /\ row.run = call'[row.id].run
                      /\ row.job \in {call'[row.id].state.job, None}
                      /\ row.title = call'[row.id].state.posting
                      /\ row.evidence = call'[row.id].state.evidence
    BY DEF RowInv
  <2>1. row \in resumes /\ row.id \in Request
    BY <1>1, RowFields DEF tables
  <2> QED BY <1>2, <2>1 DEF RowInv, Same
<1>6. StoredInv'
  <2>1. \A r \in Request : call'[r].pc \notin {"evaluate", "artifacts"}
    BY <1>2 DEF DrivePC, LatePC
  <2>2. \A r \in Request : Answered(call'[r]) => Answered(call[r])
    BY <1>2 DEF Answered
  <2>3. \A r \in Request : call'[r].pc = "failed" => call[r].pc = "failed"
    BY <1>2
  <2> QED BY <1>1, <2>1, <2>2, <2>3 DEF StoredInv, tables
<1>7. RunInv'
  <2>1. \A x \in Request : Started(x) => call'[x].run = x
    BY <1>2 DEF Started, Same
  <2>2. \A x \in Request : threads'[x] # None => Durable /\ call'[x].run = x
    BY <1>1, <2>1 DEF RunInv
  <2>3. ASSUME NEW row \in resumes'
        PROVE  /\ call'[row.run].run = row.run
               /\ ~Durable => row.run = row.id
               /\ Durable /\ row.run \notin overlapped' => RowAgrees(row, threads'[row.run])
    <3>1. row \in resumes /\ row.run \in Request
      BY <1>1, RowFields DEF tables
    <3> QED BY <1>1, <2>1, <3>1, SoloStep DEF RunInv
  <2> QED BY <1>2, <2>2, <2>3 DEF RunInv, Started
<1> QED BY <1>3, <1>4, <1>5, <1>6, <1>7, SoloStep

LEMMA InitInv == Init => GenerationInv
<1> SUFFICES ASSUME Init PROVE GenerationInv
  OBVIOUS
<1>1. /\ \A r \in Request : call[r] = NoCall
      /\ NoCall.pc = "idle" /\ NoCall.run = None /\ NoCall.state = None /\ NoCall.owner
      /\ ~NoCall.created /\ ~NoCall.result /\ resumes = {} /\ evaluations = {} /\ artifacts = {}
      /\ \A r \in Request : threads[r] = None /\ jobs[r] = None
      /\ documents = {} /\ links = {}
  BY DEF Init, NoCall
<1>2. TypeOK
  BY NoCallIsCall DEF Init, TypeOK
<1>3. LocalInv
  BY <1>1 DEF LocalInv, Local, EarlyPC, DrivePC, LatePC
<1>4. UserInv /\ KeyInv /\ RowInv /\ StoredInv
  BY <1>1 DEF UserInv, KeyInv, RowInv, StoredInv, Answered
<1>5. SoloInv /\ RunInv
  BY <1>1 DEF SoloInv, RunInv, Active, DrivePC, LatePC
<1> QED BY <1>2, <1>3, <1>4, <1>5 DEF GenerationInv, RecordInv, TypeInv

LEMMA NextInv == GenerationInv /\ [Next]_vars => GenerationInv'
<1> SUFFICES ASSUME GenerationInv, [Next]_vars PROVE GenerationInv'
  OBVIOUS
<1>1. ASSUME NEW r \in Request, UserStep(r), NoteOverlaps
      PROVE  GenerationInv'
  BY <1>1, UserKeepsInv
<1>2. ASSUME NEW r \in Request, JobStep(r) \/ DocumentStep(r) \/ GenerationStep(r),
             UNCHANGED user, NoteOverlaps
      PROVE  GenerationInv'
  <2>1. user
    BY <1>2, WorkNeedsUser DEF GenerationInv, RecordInv
  <2>2. CASE JobStep(r) \/ DocumentStep(r) \/ Begin(r)
    BY <1>2, <2>1, <2>2, EarlyStepKeepsInv
  <2>3. CASE Retrieve(r) \/ Draft(r) \/ AgentFails(r) \/ EndRun(r)
    BY <1>2, <2>1, <2>3, RunKeepsInv
  <2>4. CASE \/ PersistResume(r) \/ PersistEvaluation(r)
             \/ PersistFails(r) \/ WriteArtifacts(r) \/ WriteArtifactsFails(r)
    BY <1>2, <2>1, <2>4, LateKeepsInv
  <2> QED BY <1>2, <2>2, <2>3, <2>4 DEF GenerationStep, Begin
<1>3. CASE Crash /\ UNCHANGED user /\ NoteOverlaps
  BY <1>3, CrashKeepsInv
<1>4. CASE UNCHANGED vars
  BY <1>4 DEF GenerationInv, RecordInv, TypeInv, TypeOK, LocalInv, UserInv, KeyInv, RowInv,
     StoredInv, SoloInv, RunInv, Started, Active, JobExists, vars, tables
<1> QED BY <1>1, <1>2, <1>3, <1>4 DEF Next

-----------------------------------------------------------------------------
(* Theorems.                                                               *)

\* Calls, tables, checkpoints and the history of overlaps keep their form, every row
\* can be traced to the call that stored it, and every run that was driven by one call
\* at a time has one outcome, in any interleaving of any number of calls, failures of
\* model calls, files and ingestions, and crashes.
THEOREM OneOutcome == Spec => []GenerationInv
BY InitInv, NextInv, PTL DEF Spec

\* The type invariant of jobs, documents and generations.
THEOREM TypeCorrect == Spec => []TypeOK
<1>1. GenerationInv => TypeOK
  BY DEF GenerationInv, RecordInv, TypeInv
<1> QED BY OneOutcome, <1>1, PTL

\* The foreign keys hold and the user exists whatever deletions overlap with uploads,
\* links and generations, and no request fails because another created the user first.
THEOREM ReferencesHold == Spec => []ReferentialIntegrity
<1>1. GenerationInv => ReferentialIntegrity
  <2> SUFFICES ASSUME GenerationInv PROVE ReferentialIntegrity
    OBVIOUS
  <2>1. user \/ (documents = {} /\ resumes = {} /\ \A j \in Request : ~JobExists(j))
    BY DEF GenerationInv, RecordInv, UserInv, JobExists
  <2>2. \A r \in Request : call[r].pc = "failed" => call[r].op # None
    BY DEF GenerationInv, RecordInv, TypeInv, LocalInv, Local
  <2> QED BY <2>1, <2>2 DEF GenerationInv, RecordInv, KeyInv, ReferentialIntegrity
<1> QED BY OneOutcome, <1>1, PTL

\* A generation that answers with a result has stored the resume its own state
\* describes, and the evaluation of it; a resumed run of someone else stores nothing;
\* the artifacts mirror the database.
THEOREM AnswersStored == Spec => []AnsweredIsStored
<1>1. GenerationInv => AnsweredIsStored
  <2> SUFFICES ASSUME GenerationInv PROVE AnsweredIsStored
    OBVIOUS
  <2>1. TypeInv /\ KeyInv /\ RowInv /\ StoredInv
    BY DEF GenerationInv, RecordInv
  <2>2. \A r \in Request :
          /\ call[r].op \in {"generate", "generate_for_job", "resume_run"}
          /\ call[r].pc = "done"
          /\ call[r].result
          => Answered(call[r])
    BY DEF Answered, Generations
  <2>3. ASSUME NEW r \in Request, Answered(call[r])
        PROVE  /\ \E row \in resumes :
                    /\ row.id = r
                    /\ row.run = call[r].run
                    /\ row.job \in {call[r].state.job, None}
                    /\ row.title = call[r].state.posting
                    /\ row.evidence = call[r].state.evidence
               /\ r \in evaluations
    <3>1. PICK row \in resumes : row.id = r
      BY <2>1, <2>3 DEF StoredInv
    <3> QED BY <2>1, <2>3, <3>1 DEF StoredInv, RowInv
  <2>4. ASSUME NEW r \in Request
        PROVE  /\ ~call[r].owner => \A row \in resumes : row.id # r
               /\ r \in artifacts => r \in evaluations
               /\ r \in evaluations => call[r].pc # "failed"
    <3>1. \A row \in resumes : row.id = r => call[r].owner
      BY <2>1 DEF RowInv
    <3> QED BY <2>1, <3>1 DEF StoredInv, KeyInv
  <2> QED BY <2>2, <2>3, <2>4 DEF AnsweredIsStored
<1> QED BY OneOutcome, <1>1, PTL

\* All resumes stored for one run are of the same posting and the same evidence,
\* unless two calls drove that very run at the same time.
THEOREM RunsHaveOneResult == Spec => []OneResultPerRun
<1>1. GenerationInv => OneResultPerRun
  <2> SUFFICES ASSUME GenerationInv, NEW row \in resumes, NEW other \in resumes,
                      row.run = other.run, row.run \notin overlapped
               PROVE  row.title = other.title /\ row.evidence = other.evidence
    BY DEF OneResultPerRun
  <2>1. CASE Durable
    BY <2>1 DEF GenerationInv, RunInv, RowAgrees
  <2>2. CASE ~Durable
    <3>1. row.id = other.id
      BY <2>2 DEF GenerationInv, RunInv
    <3> QED BY <3>1 DEF GenerationInv, RecordInv, RowInv
  <2> QED BY <2>1, <2>2
<1> QED BY OneOutcome, <1>1, PTL

\* No operation removes or changes a stored resume, except that deleting its job sets
\* its job_id to NULL.
THEOREM ResumesStay == Spec => HistoryKept
<1> DEFINE Kept ==
        \A row \in resumes :
          \/ row \in resumes'
          \/ /\ row.job # None
             /\ jobs'[row.job] = None
             /\ [row EXCEPT !.job = None] \in resumes'
<1>1. GenerationInv /\ [Next]_vars => Kept
  <2> SUFFICES ASSUME GenerationInv, [Next]_vars PROVE Kept
    OBVIOUS
  <2>1. TypeOK /\ LocalInv
    BY DEF GenerationInv, RecordInv, TypeInv
  <2>2. ASSUME NEW r \in Request, DropJob(r)
        PROVE  Kept
    <3> DEFINE j == call[r].job
    <3>1. j \in Request
      BY <2>1, <2>2 DEF DropJob, LocalInv, Local
    <3>2. /\ jobs' = [jobs EXCEPT ![j] = None]
          /\ resumes' = {IF row.job = j THEN [row EXCEPT !.job = None] ELSE row : row \in resumes}
      BY <2>2 DEF DropJob
    <3>3. jobs'[j] = None /\ j # None
      BY <2>1, <3>1, <3>2, GenerationAssumption DEF TypeOK
    <3> HIDE DEF j
    <3> QED BY <3>2, <3>3
  <2>3. ASSUME NEW r \in Request, JobStep(r), ~DropJob(r)
        PROVE  resumes' = resumes
    BY <2>3 DEF JobStep, CreateJob, UpdateJob, DeleteJob, SaveJob, ExtractionFails,
       ReadBackJob, tables
  <2>4. ASSUME NEW r \in Request, DocumentStep(r)
        PROVE  resumes' = resumes
    BY ZenonT(60), <2>4 DEF DocumentStep, UploadDocument, ParseFails, CreateDocument, FindDocument,
       IndexDocument, IndexFails, IndexRefused, LinkDocument, LinkJob, DeleteDocument,
       DropDocument, tables
  <2>5. ASSUME NEW r \in Request, GenerationStep(r)
        PROVE  resumes \subseteq resumes'
    BY <2>5 DEF GenerationStep, Generate, GenerateForJob, ResumeRun, ResolveEligible,
       Retrieve, Draft, Superstep, AgentFails, EndRun, PersistResume, PersistEvaluation,
       PersistFails, WriteArtifacts, WriteArtifactsFails, tables
  <2>6. ASSUME NEW r \in Request, UserStep(r)
        PROVE  resumes' = resumes
    BY <2>6 DEF UserStep, ResolveUser, EnsureUser, tables
  <2>7. CASE Crash \/ UNCHANGED vars
    BY <2>7 DEF Crash, vars, tables
  <2> QED BY <2>2, <2>3, <2>4, <2>5, <2>6, <2>7 DEF Next
<1>2. Spec => [][Kept]_vars
  BY OneOutcome, <1>1, PTL DEF Spec
<1> QED BY <1>2 DEF HistoryKept

-----------------------------------------------------------------------------
(* Errors: what a call has seen exists still, or was deleted or taken back. *)

Seen(j) == JobExists(j) \/ JobDeleted(j)
SeenDocument(d) == d \in documents \/ DocumentDeleted(d)
SeenRun(state) == state # None => state.job = None \/ Seen(state.job)

Links == {"upload", "link_document"}

\* c is call r.  A job is created by the call it is named after, in one statement;
\* that call has not failed while the job is there.
Explained(r, c) ==
    /\ c.result => c.pc = "done"
    /\ c.fault => c.pc = "failed"
    /\ c.op = "create_job" => c.job = r
    /\ JobExists(r) => c.op = "create_job" /\ c.pc \in {"get", "done", "lost"}
    /\ c.pc \in {"ingest", "index"} => c.job = None \/ Seen(c.job)
    /\ c.pc = "link" => Seen(c.job) /\ SeenDocument(c.doc)
    /\ c.op \in Links /\ c.pc = "failed" /\ ~c.fault =>
          /\ JobDeleted(c.job) \/ DocumentDeleted(c.doc)
          /\ c.created /\ c.doc \in documents => JobDeleted(c.job)
    /\ c.pc = "eligible" => Seen(c.job)
    /\ SeenRun(c.state)
    /\ c.pc = "failed" /\ c.state # None /\ c.state.next = "end" /\ ~c.fault =>
          JobDeleted(c.state.job)

\* An upload indexes a document it has seen; the one it created is taken back when it
\* fails.
Held(c) ==
    /\ c.pc = "index" => SeenDocument(c.doc)
    /\ c.created /\ c.fault => c.doc \notin documents

ReasonInv ==
    /\ \A r \in Request : Explained(r, call[r]) /\ Held(call[r])
    /\ \A run \in Request : SeenRun(threads[run])

\* What a step by which call r becomes c does to jobs and documents: a row disappears
\* by its deletion, a document also with the upload that created it; and it appears by
\* its creation.
RowsMove(r, c) ==
    /\ \A j \in Request : JobExists(j) =>
          JobExists(j)' \/ (c.op = "delete_job" /\ c.job = j /\ c.result)
    /\ \A j \in Request : JobExists(j)' =>
          JobExists(j) \/ (j = r /\ c.op = "create_job" /\ c.pc = "get")
    /\ \A d \in documents :
          \/ d \in documents'
          \/ c.op = "delete_document" /\ c.doc = d /\ c.result
          \/ c.created /\ c.doc = d /\ c.fault
    /\ \A d \in documents' : d \in documents \/ (c.doc = d /\ c.pc = "index" /\ Fresh(d))
    /\ c.pc = "index" => c.doc \in documents'
    /\ c.created /\ c.fault => c.doc \notin documents'

LEMMA RowsUnchanged ==
    ASSUME NEW r, NEW c, UNCHANGED <<jobs, documents>>, c.created => ~c.fault, c.pc # "index"
    PROVE  RowsMove(r, c)
BY DEF RowsMove, JobExists

LEMMA SeenStays ==
    ASSUME TypeInv, NEW r \in Request, NEW c, Move(r, c), ~call[r].result, ~call[r].fault,
           RowsMove(r, c)
    PROVE  /\ \A j : JobDeleted(j) => JobDeleted(j)'
           /\ \A d : DocumentDeleted(d) => DocumentDeleted(d)'
           /\ \A j \in Request : Seen(j) => Seen(j)'
           /\ \A d : SeenDocument(d) => SeenDocument(d)'
<1>1. call'[r] = c /\ \A q \in Request : q # r => call'[q] = call[q]
  BY DEF TypeInv, TypeOK, Move
<1>2. \A j : JobDeleted(j) => JobDeleted(j)'
  BY <1>1 DEF JobDeleted
<1>3. \A d : DocumentDeleted(d) => DocumentDeleted(d)'
  BY <1>1 DEF DocumentDeleted
<1>4. ASSUME NEW j \in Request, Seen(j)
      PROVE  Seen(j)'
  <2>1. CASE c.op = "delete_job" /\ c.job = j /\ c.result
    BY <1>1, <2>1 DEF Seen, JobDeleted
  <2> QED BY <1>2, <1>4, <2>1 DEF RowsMove, Seen
<1>5. ASSUME NEW d, SeenDocument(d)
      PROVE  SeenDocument(d)'
  <2>1. CASE \/ c.op = "delete_document" /\ c.doc = d /\ c.result
             \/ c.created /\ c.doc = d /\ c.fault
    BY <1>1, <2>1 DEF SeenDocument, DocumentDeleted
  <2> QED BY <1>3, <1>5, <2>1 DEF RowsMove, SeenDocument
<1> QED BY <1>2, <1>3, <1>4, <1>5

\* What explains the calls before the step explains them after it.
LEMMA MoveKeepsReasons ==
    ASSUME TypeInv, TypeInv', ReasonInv, NEW r \in Request, NEW c, Move(r, c),
           ~call[r].result, ~call[r].fault, RowsMove(r, c), Explained(r, c),
           \A run \in Request : threads'[run] = threads[run] \/ SeenRun(threads'[run])
    PROVE  ReasonInv'
<1>1. call'[r] = c /\ \A q \in Request : q # r => call'[q] = call[q]
  BY DEF TypeInv, TypeOK, Move
<1>2. ASSUME NEW state \in Run \cup {None}, SeenRun(state)
      PROVE  SeenRun(state)'
  <2>1. state # None => state.job \in Request \cup {None}
    BY DEF Run
  <2> QED BY <1>2, <2>1, SeenStays DEF SeenRun
<1>3. ASSUME NEW q \in Request, NEW d \in Call, Explained(q, d), Local(d),
             q = r => d = c, q # r => d = call[q]
      PROVE  Explained(q, d)'
  <2>1. d.state \in Run \cup {None} /\ SeenRun(d.state)' /\ d.job \in Request \cup {None}
    BY <1>2, <1>3, CallFields DEF Explained
  <2>2. JobExists(q)' => d.op = "create_job" /\ d.pc \in {"get", "done", "lost"}
    BY <1>3 DEF RowsMove, Explained
  <2>3. d.pc = "link" => Seen(d.job)' /\ SeenDocument(d.doc)'
    BY <1>3, SeenStays DEF Explained, Local
  <2>4. d.pc \in {"ingest", "index"} => d.job = None \/ Seen(d.job)'
    BY <1>3, <2>1, SeenStays DEF Explained
  <2>5. d.op \in Links /\ d.pc = "failed" /\ ~d.fault =>
          /\ JobDeleted(d.job)' \/ DocumentDeleted(d.doc)'
          /\ d.created /\ d.doc \in documents' => JobDeleted(d.job)'
    <3>1. ASSUME d.created, d.pc = "failed", d.doc \in documents'
          PROVE  d.doc \in documents
      <4>1. CASE q = r
        BY <1>3, <3>1, <4>1 DEF RowsMove
      <4>2. CASE q # r
        BY <1>1, <1>3, <3>1, <4>2 DEF RowsMove, Fresh
      <4> QED BY <4>1, <4>2
    <3> QED BY <1>3, <3>1, SeenStays DEF Explained
  <2>6. d.pc = "eligible" => Seen(d.job)'
    BY <1>3, SeenStays DEF Explained, Local
  <2>7. d.pc = "failed" /\ d.state # None /\ d.state.next = "end" /\ ~d.fault =>
          JobDeleted(d.state.job)'
    BY <1>3, SeenStays DEF Explained
  <2> QED BY <1>3, <2>1, <2>2, <2>3, <2>4, <2>5, <2>6, <2>7 DEF Explained
<1>4. ASSUME NEW q \in Request
      PROVE  Explained(q, call[q])'
  <2>1. call'[q] \in Call
    BY DEF TypeInv, TypeOK
  <2>2. PICK d \in Call : d = call'[q]
    BY <2>1
  <2>3. Explained(q, d) /\ Local(d) /\ (q = r => d = c) /\ (q # r => d = call[q])
    BY <1>1, <2>2 DEF ReasonInv, TypeInv, LocalInv
  <2>4. Explained(q, d)'
    BY <1>3, <2>3
  <2> QED BY <2>2, <2>4 DEF Explained
<1>5. ASSUME NEW q \in Request
      PROVE  Held(call[q])'
  <2>1. CASE q = r
    BY <1>1, <2>1 DEF RowsMove, Held, SeenDocument
  <2>2. CASE q # r
    BY <1>1, <2>2, SeenStays DEF RowsMove, Held, ReasonInv, Fresh
  <2> QED BY <2>1, <2>2
<1>6. ASSUME NEW run \in Request
      PROVE  SeenRun(threads[run])'
  <2>1. SeenRun(threads'[run]) /\ threads'[run] \in Run \cup {None}
    BY DEF ReasonInv, TypeInv, TypeOK
  <2> QED BY <1>2, <2>1
<1> QED BY <1>4, <1>5, <1>6 DEF ReasonInv

\* The step of call r is explained.
ReasonStep(r) ==
    \E c : /\ Move(r, c) /\ ~call[r].result /\ ~call[r].fault
           /\ RowsMove(r, c) /\ Explained(r, c)
           /\ \A run \in Request : threads'[run] = threads[run] \/ SeenRun(threads'[run])

\* A call that goes on with what it has.
LEMMA SameExplained ==
    ASSUME NEW r \in Request, NEW c, Explained(r, call[r]), Same(c, call[r]),
           c.result => c.pc = "done",
           c.fault => c.pc = "failed",
           JobExists(r) => c.pc \in {"get", "done", "lost"},
           c.pc \notin {"ingest", "index", "link", "eligible"},
           c.pc = "failed" =>
              c.fault \/ (c.op \notin Links /\ (c.state # None => c.state.next # "end"))
    PROVE  Explained(r, c)
BY DEF Explained, Same

\* A call that starts without a run.
LEMMA StartExplained ==
    ASSUME NEW r \in Request, NEW c, Explained(r, call[r]), call[r].pc = "idle",
           Plain(c), c.pc \notin {"failed", "index"},
           c.op = "create_job" => c.job = r,
           c.pc = "ingest" => c.job = None \/ Seen(c.job),
           c.pc = "link" => Seen(c.job) /\ SeenDocument(c.doc),
           c.pc = "eligible" => Seen(c.job)
    PROVE  Explained(r, c)
BY DEF Explained, SeenRun, Plain

\* A call that is under way has neither answered nor failed, and its job is not there
\* yet unless it is reading it back.
LEMMA UnderWay ==
    ASSUME NEW r \in Request, Explained(r, call[r]), call[r].pc \notin EndPC
    PROVE  ~call[r].result /\ ~call[r].fault /\ (JobExists(r) => call[r].pc = "get")
BY DEF Explained, EndPC

LEMMA UserReasons ==
    ASSUME TypeInv, ReasonInv, NEW r \in Request, UserStep(r)
    PROVE  ReasonStep(r)
<1>1. /\ call \in [Request -> Call] /\ Explained(r, call[r])
      /\ call[r].pc \in {"idle", "newUser"} /\ UNCHANGED <<tables, threads>>
  BY DEF TypeInv, TypeOK, ReasonInv, UserStep, ResolveUser, EnsureUser
<1>2. PICK c : /\ Move(r, c) /\ c.pc \in {"idle", "newUser"} /\ Same(c, call[r])
               /\ c.result = call[r].result /\ c.fault = call[r].fault
  BY <1>1, GotoMove DEF UserStep, ResolveUser, EnsureUser, PC
<1>3. ~call[r].result /\ ~call[r].fault /\ ~JobExists(r)
  BY <1>1, UnderWay DEF EndPC
<1>4. Explained(r, c)
  BY <1>1, <1>2, <1>3, SameExplained DEF Same
<1>5. RowsMove(r, c)
  BY <1>1, <1>2, <1>3, RowsUnchanged DEF tables
<1> QED BY <1>1, <1>2, <1>3, <1>4, <1>5 DEF ReasonStep

LEMMA JobReasons ==
    ASSUME TypeInv, ReasonInv, NEW r \in Request, JobStep(r)
    PROVE  ReasonStep(r)
<1>1. /\ call \in [Request -> Call] /\ Explained(r, call[r]) /\ Local(call[r])
      /\ jobs \in [Request -> Posting \cup {None}]
  BY DEF TypeInv, TypeOK, LocalInv, ReasonInv
<1>2. ASSUME NEW c, Move(r, c), Plain(c), call[r].pc = "idle",
             \/ c.pc = "extract" /\ c.op = "create_job" /\ c.job = r
             \/ c.pc \in {"extract", "drop", "done"} /\ c.op \in {"update_job", "delete_job"},
             UNCHANGED <<tables, threads>>
      PROVE  ReasonStep(r)
  <2>1. Explained(r, c)
    BY <1>1, <1>2, StartExplained
  <2>2. RowsMove(r, c)
    BY <1>2, RowsUnchanged DEF tables, Plain
  <2> QED BY <1>1, <1>2, <2>1, <2>2, UnderWay DEF ReasonStep, EndPC
<1>3. ASSUME NEW p \in Posting, CreateJob(r, p)
      PROVE  ReasonStep(r)
  <2>1. /\ "create_job" \in Operations /\ "extract" \in PC /\ call[r].pc = "idle"
        /\ UNCHANGED <<tables, threads>>
    BY <1>3 DEF CreateJob, MayStart, Operations, PC
  <2>2. PICK c : /\ Move(r, c) /\ c.pc = "extract" /\ c.op = "create_job" /\ c.job = r
                 /\ Plain(c)
    BY <1>1, <1>3, <2>1, StartMove DEF CreateJob
  <2> QED BY <1>2, <2>1, <2>2
<1>4. ASSUME NEW j \in Request, NEW p \in Posting, UpdateJob(r, j, p)
      PROVE  ReasonStep(r)
  <2>1. /\ "update_job" \in Operations /\ "extract" \in PC
        /\ call[r].pc = "idle" /\ UNCHANGED <<tables, threads>>
    BY <1>4 DEF UpdateJob, MayStart, Operations, PC
  <2>2. PICK c : /\ Move(r, c) /\ c.pc \in {"extract", "done"} /\ c.op = "update_job"
                 /\ Plain(c)
    <3>1. CASE JobExists(j)
      BY <1>1, <1>4, <2>1, <3>1, StartMove DEF UpdateJob
    <3>2. CASE ~JobExists(j)
      BY <1>1, <1>4, <2>1, <3>2, NotFoundMove DEF UpdateJob
    <3> QED BY <3>1, <3>2
  <2> QED BY <1>2, <2>1, <2>2
<1>5. ASSUME NEW j \in Request, DeleteJob(r, j)
      PROVE  ReasonStep(r)
  <2>1. /\ "delete_job" \in Operations /\ "drop" \in PC
        /\ call[r].pc = "idle" /\ UNCHANGED <<tables, threads>>
    BY <1>5 DEF DeleteJob, MayStart, Operations, PC
  <2>2. PICK c : /\ Move(r, c) /\ c.pc \in {"drop", "done"} /\ c.op = "delete_job"
                 /\ Plain(c)
    <3>1. CASE JobExists(j)
      BY <1>1, <1>5, <2>1, <3>1, StartMove DEF DeleteJob
    <3>2. CASE ~JobExists(j)
      BY <1>1, <1>5, <2>1, <3>2, NotFoundMove DEF DeleteJob
    <3> QED BY <3>1, <3>2
  <2> QED BY <1>2, <2>1, <2>2
<1>6. ~call[r].created
  <2>1. CASE call[r].pc \in {"extract", "get", "drop"}
    BY <1>1, <2>1 DEF Local
  <2>2. CASE call[r].pc = "idle"
    BY <1>1, <2>2 DEF Local
  <2> QED BY <2>1, <2>2 DEF JobStep, CreateJob, UpdateJob, DeleteJob, MayStart, SaveJob,
             ExtractionFails, ReadBackJob, DropJob
<1>7. CASE SaveJob(r)
  <2>1. /\ call[r].pc = "extract" /\ UNCHANGED <<documents, threads>>
        /\ call[r].op \in {"create_job", "update_job"} /\ call[r].job \in Request
        /\ call[r].posting # None
    BY <1>1, <1>7, GenerationAssumption DEF SaveJob, Local
  <2>2. PICK c : /\ Move(r, c) /\ c.pc = "get" /\ Same(c, call[r])
                 /\ c.result = call[r].result /\ c.fault = call[r].fault
    BY <1>1, <1>7, GotoMove DEF SaveJob, PC
  <2>3. ~call[r].result /\ ~call[r].fault /\ ~JobExists(r)
    BY <1>1, <2>1, UnderWay DEF EndPC
  <2>4. Explained(r, c)
    BY <1>1, <2>2, <2>3, SameExplained
  <2>5. RowsMove(r, c)
    <3>1. CASE call[r].op = "create_job"
      <4>1. jobs' = [jobs EXCEPT ![r] = call[r].posting] /\ c.op = "create_job"
        BY <1>1, <1>7, <2>2, <3>1 DEF SaveJob, Explained, Same
      <4> QED BY <1>1, <1>6, <2>1, <2>2, <4>1 DEF RowsMove, JobExists, Same
    <3>2. CASE call[r].op # "create_job"
      <4>1. \/ jobs' = jobs
            \/ jobs' = [jobs EXCEPT ![call[r].job] = call[r].posting] /\ JobExists(call[r].job)
        BY <1>7, <3>2 DEF SaveJob
      <4> QED BY <1>1, <1>6, <2>1, <2>2, <4>1 DEF RowsMove, JobExists, Same
    <3> QED BY <3>1, <3>2
  <2> QED BY <2>1, <2>2, <2>3, <2>4, <2>5 DEF ReasonStep
<1>8. CASE ExtractionFails(r)
  <2>1. call[r].pc = "extract" /\ UNCHANGED <<tables, threads>>
    BY <1>8 DEF ExtractionFails
  <2>2. PICK c : /\ Move(r, c) /\ c.pc = "failed" /\ Same(c, call[r])
                 /\ c.result = call[r].result /\ c.fault
    BY <1>1, <1>8, FailMove DEF ExtractionFails
  <2>3. ~call[r].result /\ ~call[r].fault /\ ~JobExists(r)
    BY <1>1, <2>1, UnderWay DEF EndPC
  <2>4. Explained(r, c) /\ ~c.created
    BY <1>1, <1>6, <2>2, <2>3, SameExplained DEF Same
  <2> QED BY <2>1, <2>2, <2>3, <2>4, RowsUnchanged DEF ReasonStep, tables
<1>9. CASE ReadBackJob(r)
  <2>1. call[r].pc = "get" /\ UNCHANGED <<tables, threads>>
    BY <1>9 DEF ReadBackJob
  <2>2. /\ ~call[r].result /\ ~call[r].fault /\ call[r].op \notin Links
        /\ call[r].state = None
    BY <1>1, <2>1, UnderWay DEF Local, EarlyPC, EndPC, Links
  <2>3. PICK c : /\ Move(r, c) /\ Same(c, call[r]) /\ ~c.fault
                 /\ \/ c.pc = "done"
                    \/ c.pc = "failed" /\ ~c.result /\ ~JobExists(call[r].job)
                       /\ call[r].op = "create_job"
    BY <1>1, <1>9, <2>2, GotoMove, ReturnMove DEF ReadBackJob, Raise, ReturnNone, Goto, PC
  <2>4. c.pc = "failed" => ~JobExists(r)
    BY <1>1, <2>3 DEF Explained
  <2>5. Explained(r, c)
    BY <1>1, <2>2, <2>3, <2>4, SameExplained DEF Same
  <2> QED BY <2>1, <2>2, <2>3, <2>5, RowsUnchanged DEF ReasonStep, tables
<1>10. CASE DropJob(r)
  <2>1. /\ call[r].pc = "drop" /\ call[r].op = "delete_job" /\ UNCHANGED <<documents, threads>>
        /\ jobs' = [jobs EXCEPT ![call[r].job] = None]
    BY <1>10 DEF DropJob
  <2>2. PICK c : /\ Move(r, c) /\ c.pc = "done" /\ Same(c, call[r]) /\ c.result
                 /\ c.fault = call[r].fault
    BY <1>1, <1>10, ReturnMove DEF DropJob
  <2>3. ~call[r].result /\ ~call[r].fault /\ ~JobExists(r)
    BY <1>1, <2>1, UnderWay DEF EndPC
  <2>4. Explained(r, c)
    BY <1>1, <2>2, <2>3, SameExplained
  <2>5. RowsMove(r, c)
    BY <1>1, <1>6, <2>1, <2>2 DEF RowsMove, JobExists, Same
  <2> QED BY <2>1, <2>2, <2>3, <2>4, <2>5 DEF ReasonStep
<1> QED BY <1>3, <1>4, <1>5, <1>7, <1>8, <1>9, <1>10 DEF JobStep

LEMMA DocumentReasons ==
    ASSUME TypeInv, ReasonInv, NEW r \in Request, DocumentStep(r)
    PROVE  ReasonStep(r)
<1>1. /\ call \in [Request -> Call] /\ Explained(r, call[r]) /\ Local(call[r])
      /\ documents \subseteq Document
  BY DEF TypeInv, TypeOK, LocalInv, ReasonInv
<1>2. ASSUME NEW c, Move(r, c), Plain(c), call[r].pc = "idle",
             c.op \in {"upload", "link_document", "delete_document"},
             \/ c.pc \in {"drop", "done"}
             \/ c.pc = "ingest" /\ (c.job = None \/ Seen(c.job))
             \/ c.pc = "link" /\ Seen(c.job) /\ SeenDocument(c.doc),
             UNCHANGED <<tables, threads>>
      PROVE  ReasonStep(r)
  <2>1. Explained(r, c)
    BY <1>1, <1>2, StartExplained
  <2>2. RowsMove(r, c)
    BY <1>2, RowsUnchanged DEF tables, Plain
  <2> QED BY <1>1, <1>2, <2>1, <2>2, UnderWay DEF ReasonStep, EndPC
<1>3. ASSUME NEW j \in Request \cup {None}, UploadDocument(r, j)
      PROVE  ReasonStep(r)
  <2>1. /\ call[r].pc = "idle" /\ "upload" \in Operations /\ "ingest" \in PC
        /\ UNCHANGED <<tables, threads>>
    BY <1>3 DEF UploadDocument, MayStart, Operations, PC
  <2>2. PICK c : /\ Move(r, c) /\ Plain(c) /\ c.op = "upload"
                 /\ c.pc = "done" \/ (c.pc = "ingest" /\ (c.job = None \/ Seen(c.job)))
    <3>1. CASE j = None \/ JobExists(j)
      BY <1>1, <1>3, <2>1, <3>1, StartMove DEF UploadDocument, Seen
    <3>2. CASE ~(j = None \/ JobExists(j))
      BY <1>1, <1>3, <2>1, <3>2, NotFoundMove DEF UploadDocument
    <3> QED BY <3>1, <3>2
  <2> QED BY <1>2, <2>1, <2>2
<1>4. ASSUME NEW j \in Request, NEW d \in Document, LinkDocument(r, j, d)
      PROVE  ReasonStep(r)
  <2> DEFINE c == [NoCall EXCEPT !.op = "link_document", !.job = j, !.doc = d, !.pc = "link"]
  <2>1. call[r].pc = "idle" /\ "link_document" \in Operations /\ UNCHANGED <<tables, threads>>
    BY <1>4 DEF LinkDocument, MayStart, Operations
  <2>2. CASE JobExists(j) /\ d \in documents
    <3>1. call' = [call EXCEPT ![r] = c]
      BY <1>4, <2>2 DEF LinkDocument
    <3>2. c \in Call
      BY NoCallIsCall DEF Call, Operations, PC
    <3>3. c.pc = "link" /\ c.op = "link_document" /\ c.doc = d /\ c.job = j /\ Plain(c)
      BY DEF NoCall, Plain
    <3> HIDE DEF c
    <3> QED BY <1>2, <2>1, <2>2, <3>1, <3>2, <3>3 DEF Move, Seen, SeenDocument
  <2>3. CASE ~(JobExists(j) /\ d \in documents)
    BY <1>1, <1>2, <1>4, <2>1, <2>3, NotFoundMove DEF LinkDocument
  <2> QED BY <2>2, <2>3
<1>5. ASSUME NEW d \in Document, DeleteDocument(r, d)
      PROVE  ReasonStep(r)
  <2> DEFINE c == [NoCall EXCEPT !.op = "delete_document", !.doc = d, !.pc = "drop"]
  <2>1. call[r].pc = "idle" /\ "delete_document" \in Operations /\ UNCHANGED <<tables, threads>>
    BY <1>5 DEF DeleteDocument, MayStart, Operations
  <2>2. CASE d \in documents
    <3>1. call' = [call EXCEPT ![r] = c]
      BY <1>5, <2>2 DEF DeleteDocument
    <3>2. c \in Call
      BY NoCallIsCall DEF Call, Operations, PC
    <3>3. c.pc = "drop" /\ c.op = "delete_document" /\ c.doc = d /\ Plain(c)
      BY DEF NoCall, Plain
    <3> HIDE DEF c
    <3> QED BY <1>2, <2>1, <3>1, <3>2, <3>3 DEF Move
  <2>3. CASE d \notin documents
    BY <1>1, <1>2, <1>5, <2>1, <2>3, NotFoundMove DEF DeleteDocument
  <2> QED BY <2>2, <2>3
<1>6. ASSUME call[r].pc \in {"ingest", "index", "link", "drop"}
      PROVE  ~call[r].result /\ ~call[r].fault /\ ~JobExists(r) /\ call[r].state = None
  BY <1>1, <1>6, UnderWay DEF Local, EarlyPC, EndPC
<1>7. ASSUME NEW d \in Document, CreateDocument(r, d) \/ FindDocument(r, d)
      PROVE  ReasonStep(r)
  <2>1. PICK c : IndexMove(r, c, d)
    BY <1>1, <1>7, IndexMoves
  <2>2. /\ call[r].pc = "ingest" /\ UNCHANGED <<jobs, threads>> /\ d \in documents'
        /\ documents' = documents \/ (documents' = documents \cup {d} /\ Fresh(d))
    BY <1>7 DEF CreateDocument, FindDocument, tables
  <2>3. RowsMove(r, c)
    BY <1>6, <2>1, <2>2 DEF RowsMove, JobExists, IndexMove
  <2>4. Explained(r, c)
    BY <1>1, <1>6, <2>1, <2>2 DEF Explained, IndexMove
  <2> QED BY <1>6, <2>1, <2>2, <2>3, <2>4 DEF ReasonStep, IndexMove
<1>8. CASE IndexDocument(r)
  <2>1. call[r].pc = "index" /\ UNCHANGED <<tables, threads>>
    BY <1>8 DEF IndexDocument
  <2>2. PICK c : /\ Move(r, c) /\ Same(c, call[r]) /\ c.fault = call[r].fault
                 /\ \/ c.pc = "done"
                    \/ c.pc = "link" /\ c.result = call[r].result /\ call[r].job # None
    BY <1>1, <1>8, GotoMove, ReturnMove DEF IndexDocument, PC
  <2>3. Explained(r, c)
    <3>1. SeenDocument(call[r].doc)
      BY <2>1 DEF ReasonInv, Held
    <3> QED BY <1>1, <1>6, <2>1, <2>2, <3>1 DEF Explained, Same
  <2>4. RowsMove(r, c)
    BY <1>6, <2>1, <2>2, RowsUnchanged DEF tables
  <2> QED BY <1>6, <2>1, <2>2, <2>3, <2>4 DEF ReasonStep
<1>9. CASE ParseFails(r) \/ IndexFails(r)
  <2>1. call[r].pc \in {"ingest", "index"} /\ UNCHANGED <<jobs, threads>>
    BY <1>9 DEF ParseFails, IndexFails, tables
  <2>2. PICK c : /\ Move(r, c) /\ c.pc = "failed" /\ Same(c, call[r])
                 /\ c.result = call[r].result /\ c.fault
    BY <1>1, <1>9, FailMove DEF ParseFails, IndexFails
  <2>3. Explained(r, c)
    BY <1>1, <1>6, <2>1, <2>2, SameExplained
  <2>4. documents' = IF c.created THEN documents \ {c.doc} ELSE documents
    <3>1. CASE ParseFails(r)
      BY <1>1, <2>2, <3>1 DEF ParseFails, Local, Same, tables
    <3>2. CASE IndexFails(r)
      BY <2>2, <3>2 DEF IndexFails, Same
    <3> QED BY <1>9, <3>1, <3>2
  <2>5. RowsMove(r, c)
    BY <2>1, <2>2, <2>4 DEF RowsMove, JobExists
  <2> QED BY <1>6, <2>1, <2>2, <2>3, <2>5 DEF ReasonStep
<1>10. CASE IndexRefused(r) \/ LinkJob(r)
  <2>1. call[r].pc \in {"index", "link"} /\ UNCHANGED <<jobs, documents, threads>>
    BY <1>10 DEF IndexRefused, LinkJob, tables
  <2>2. PICK c : /\ Move(r, c) /\ Same(c, call[r]) /\ c.fault = call[r].fault
                 /\ \/ c.pc = "done"
                    \/ c.pc = "failed" /\ c.result = call[r].result
                 /\ c.pc = "failed" =>
                       \/ call[r].doc \notin documents
                       \/ call[r].pc = "link" /\ ~JobExists(call[r].job)
    BY <1>1, <1>10, <1>6, GotoMove, ReturnMove DEF IndexRefused, LinkJob, Raise, Goto, PC
  <2>3. SeenDocument(call[r].doc) /\ (call[r].pc = "link" => Seen(call[r].job))
    BY <1>1, <2>1 DEF ReasonInv, Held, Explained
  <2>4. c.pc = "failed" =>
          /\ JobDeleted(c.job) \/ DocumentDeleted(c.doc)
          /\ c.created /\ c.doc \in documents => JobDeleted(c.job)
    BY <2>2, <2>3 DEF Same, Seen, SeenDocument
  <2>5. Explained(r, c)
    BY <1>1, <1>6, <2>1, <2>2, <2>4 DEF Explained, Same
  <2>6. RowsMove(r, c)
    BY <1>6, <2>1, <2>2, RowsUnchanged
  <2> QED BY <1>6, <2>1, <2>2, <2>5, <2>6 DEF ReasonStep
<1>11. CASE DropDocument(r)
  <2>1. /\ call[r].pc = "drop" /\ call[r].op = "delete_document" /\ UNCHANGED <<jobs, threads>>
        /\ documents' = documents \ {call[r].doc}
    BY <1>11 DEF DropDocument
  <2>2. PICK c : /\ Move(r, c) /\ c.pc = "done" /\ Same(c, call[r]) /\ c.result
                 /\ c.fault = call[r].fault
    BY <1>1, <1>11, ReturnMove DEF DropDocument
  <2>3. Explained(r, c)
    BY <1>1, <1>6, <2>1, <2>2, SameExplained
  <2>4. RowsMove(r, c)
    BY <1>6, <2>1, <2>2 DEF RowsMove, JobExists, Same
  <2> QED BY <1>6, <2>1, <2>2, <2>3, <2>4 DEF ReasonStep
<1> QED BY <1>3, <1>4, <1>5, <1>7, <1>8, <1>9, <1>10, <1>11 DEF DocumentStep

LEMMA BeginReasons ==
    ASSUME TypeInv, ReasonInv, NEW r \in Request, Begin(r)
    PROVE  ReasonStep(r)
<1>1. /\ call \in [Request -> Call] /\ Explained(r, call[r]) /\ Local(call[r])
      /\ UNCHANGED <<tables, threads>> /\ call[r].pc \in {"idle", "eligible"}
  BY DEF TypeInv, TypeOK, LocalInv, ReasonInv, Begin, Generate, GenerateForJob, ResumeRun,
     ResolveEligible, MayStart
<1>2. ~call[r].result /\ ~call[r].fault /\ ~JobExists(r)
  BY <1>1, UnderWay DEF EndPC
<1>3. ASSUME NEW c, Move(r, c), Explained(r, c), c.created => ~c.fault, c.pc # "index"
      PROVE  ReasonStep(r)
  BY <1>1, <1>2, <1>3, RowsUnchanged DEF ReasonStep, tables
<1>4. ASSUME NEW p \in Posting, Generate(r, p)
      PROVE  ReasonStep(r)
  <2> DEFINE pc == IF documents = {} THEN "failed" ELSE "run"
             state == NewRun(None, p, Document)
             c == [NoCall EXCEPT !.op = "generate", !.posting = p, !.run = r,
                                 !.pc = pc, !.state = state]
  <2>1. call' = [call EXCEPT ![r] = c]
    BY <1>4 DEF Generate
  <2>2. /\ pc \in {"failed", "run"} /\ {"failed", "run"} \subseteq PC /\ state \in Run
        /\ state.job = None /\ state.next = "retrieve"
    BY NewRunIsRun DEF PC, NewRun
  <2> HIDE DEF pc, state
  <2>3. /\ c.pc = pc /\ c.op = "generate" /\ c.state = state /\ ~c.result
        /\ ~c.fault /\ ~c.created
    BY DEF NoCall
  <2>4. c \in Call
    BY <2>2, NoCallIsCall DEF Call, Operations
  <2> HIDE DEF c
  <2>5. Explained(r, c)
    BY <1>2, <2>2, <2>3 DEF Explained, SeenRun, Links
  <2> QED BY <1>3, <2>1, <2>2, <2>3, <2>4, <2>5 DEF Move
<1>5. ASSUME NEW j \in Request, GenerateForJob(r, j)
      PROVE  ReasonStep(r)
  <2>1. /\ "generate_for_job" \in Operations /\ "eligible" \in PC
        /\ call[r].pc = "idle" /\ jobs[j] \in Posting \cup {None}
    BY <1>5 DEF GenerateForJob, MayStart, Operations, PC, TypeInv, TypeOK
  <2>2. PICK c : /\ Move(r, c) /\ c.op = "generate_for_job" /\ Plain(c)
                 /\ c.pc = "done" \/ (c.pc = "eligible" /\ Seen(c.job))
    <3>1. CASE JobExists(j)
      BY <1>1, <1>5, <2>1, <3>1, StartMove DEF GenerateForJob, Seen
    <3>2. CASE ~JobExists(j)
      BY <1>1, <1>5, <2>1, <3>2, NotFoundMove DEF GenerateForJob
    <3> QED BY <3>1, <3>2
  <2>3. Explained(r, c)
    BY <1>1, <2>1, <2>2, StartExplained
  <2> QED BY <1>3, <2>2, <2>3 DEF Plain
<1>6. ASSUME NEW run \in Request, NEW owner \in BOOLEAN, ResumeRun(r, run, owner)
      PROVE  ReasonStep(r)
  <2> DEFINE state == threads[run]
             c == [NoCall EXCEPT !.op = "resume_run", !.run = run, !.owner = owner,
                                 !.pc = "run", !.state = state]
  <2>1. call[r].pc = "idle" /\ "resume_run" \in Operations /\ SeenRun(state)
    BY <1>6 DEF ResumeRun, MayStart, Operations, ReasonInv
  <2>2. CASE Durable /\ state # None
    <3>1. call' = [call EXCEPT ![r] = c] /\ state \in Run /\ "run" \in PC
      BY <1>6, <2>2 DEF ResumeRun, PC, TypeInv, TypeOK
    <3> HIDE DEF state
    <3>2. /\ c.pc = "run" /\ c.op = "resume_run" /\ c.state = state
          /\ ~c.result /\ ~c.fault /\ ~c.created
      BY DEF NoCall
    <3>3. c \in Call
      BY <2>1, <3>1, NoCallIsCall DEF Call
    <3> HIDE DEF c
    <3>4. Explained(r, c)
      BY <1>2, <2>1, <3>2 DEF Explained
    <3> QED BY <1>3, <3>1, <3>2, <3>3, <3>4 DEF Move
  <2>3. CASE ~(Durable /\ state # None)
    <3>1. PICK d : Move(r, d) /\ d.pc = "done" /\ d.op = "resume_run" /\ Plain(d)
      BY <1>1, <1>6, <2>1, <2>3, NotFoundMove DEF ResumeRun
    <3>2. Explained(r, d)
      BY <1>1, <2>1, <3>1, StartExplained
    <3> QED BY <1>3, <3>1, <3>2 DEF Plain
  <2> QED BY <2>2, <2>3
<1>7. CASE ResolveEligible(r)
  <2> DEFINE ids == Eligible(call[r].job)
             state == NewRun(call[r].job, call[r].posting, ids)
  <2>1. call[r].pc = "eligible" /\ call[r].op = "generate_for_job" /\ call[r].state = None
    BY <1>1, <1>7 DEF ResolveEligible, Local, EarlyPC
  <2>2. CASE ids = {}
    <3>1. PICK c : /\ Move(r, c) /\ c.pc = "failed" /\ Same(c, call[r])
                   /\ c.result = call[r].result /\ c.fault = call[r].fault
      BY <1>1, <1>7, <2>2, GotoMove DEF ResolveEligible, Raise, Goto, PC
    <3>2. Explained(r, c)
      BY <1>1, <1>2, <2>1, <3>1, SameExplained DEF Same, Links
    <3> QED BY <1>2, <1>3, <3>1, <3>2
  <2>3. CASE ids # {}
    <3> DEFINE c == [call[r] EXCEPT !.pc = "run", !.run = r, !.state = state]
    <3>1. call' = [call EXCEPT ![r] = c]
      BY <1>1, <1>7, <2>3 DEF ResolveEligible
    <3>2. call[r].job \in Request /\ call[r].posting \in Posting /\ ids \in SUBSET Document
      BY <1>1, <2>1 DEF Local, Eligible, TypeInv, TypeOK
    <3>3. state \in Run /\ state.job = call[r].job /\ state.next = "retrieve"
      BY <3>2, NewRunIsRun DEF NewRun
    <3> HIDE DEF state
    <3>4. /\ c.pc = "run" /\ c.op = call[r].op /\ c.state = state
          /\ c.result = call[r].result /\ c.fault = call[r].fault /\ c \in Call
      <4>1. call[r] \in Call /\ "run" \in PC
        BY <1>1 DEF PC
      <4> QED BY <3>3, <4>1 DEF Call
    <3> HIDE DEF c
    <3>5. Explained(r, c)
      BY <1>1, <1>2, <2>1, <3>3, <3>4 DEF Explained, SeenRun
    <3> QED BY <1>2, <1>3, <3>1, <3>4, <3>5 DEF Move
  <2> QED BY <2>2, <2>3
<1> QED BY <1>4, <1>5, <1>6, <1>7 DEF Begin

\* The state of a run keeps its job, and its checkpoint too.
LEMMA SuperstepReasons ==
    ASSUME TypeInv, ReasonInv, NEW r \in Request, call[r].pc = "run", NEW after \in Run,
           after.job = call[r].state.job, Superstep(r, after)
    PROVE  ReasonStep(r)
<1> DEFINE c == [call[r] EXCEPT !.state = after]
<1>1. /\ call \in [Request -> Call] /\ Explained(r, call[r]) /\ Local(call[r])
      /\ call[r] \in Call /\ call[r].state \in Run
      /\ call[r].run \in Request /\ threads \in [Request -> Run \cup {None}]
  BY DEF TypeInv, TypeOK, LocalInv, ReasonInv, Local, DrivePC
<1>2. call' = [call EXCEPT ![r] = c] /\ UNCHANGED <<jobs, documents>>
  BY DEF Superstep, tables
<1>3. /\ c \in Call /\ c.pc = "run" /\ c.state = after /\ c.result = call[r].result
      /\ c.op = call[r].op /\ c.fault = call[r].fault
  BY <1>1 DEF Call
<1> HIDE DEF c
<1>4. ~call[r].result /\ ~call[r].fault /\ ~JobExists(r) /\ SeenRun(after)
  BY <1>1, NoneAssumption, UnderWay DEF Explained, SeenRun, EndPC
<1>5. Explained(r, c)
  BY <1>1, <1>3, <1>4 DEF Explained, Local, DrivePC, Generations
<1>6. \A run \in Request : threads'[run] = threads[run] \/ SeenRun(threads'[run])
  <2>1. threads' = threads \/ threads' = [threads EXCEPT ![call[r].run] = after]
    BY DEF Superstep, Checkpoint
  <2> QED BY <1>1, <1>4, <2>1
<1>7. Move(r, c) /\ RowsMove(r, c)
  BY <1>2, <1>3, <1>4, RowsUnchanged DEF Move
<1> QED BY <1>4, <1>5, <1>6, <1>7 DEF ReasonStep

LEMMA RunReasons ==
    ASSUME TypeInv, ReasonInv, NEW r \in Request,
           Retrieve(r) \/ Draft(r) \/ AgentFails(r) \/ EndRun(r)
    PROVE  ReasonStep(r)
<1>1. /\ call \in [Request -> Call] /\ Explained(r, call[r]) /\ Local(call[r])
      /\ call[r].pc = "run" /\ call[r].state \in Run /\ call[r].run \in Request
      /\ threads \in [Request -> Run \cup {None}] /\ call[r].op \in Generations
  BY DEF TypeInv, TypeOK, LocalInv, ReasonInv, Retrieve, Draft, AgentFails, EndRun, Local,
     DrivePC
<1>2. CASE Retrieve(r)
  <2>1. PICK found \in SUBSET (call[r].state.scope \cap documents) :
            Superstep(r, [call[r].state EXCEPT !.evidence = found, !.next = "draft"])
    BY <1>2 DEF Retrieve
  <2> DEFINE after == [call[r].state EXCEPT !.evidence = found, !.next = "draft"]
  <2>2. after \in Run /\ after.job = call[r].state.job
    <3>1. found \in SUBSET Document
      BY DEF TypeInv, TypeOK
    <3> QED BY <1>1, <3>1 DEF Run
  <2> QED BY <1>1, <2>1, <2>2, SuperstepReasons
<1>3. CASE Draft(r)
  <2> DEFINE after == [call[r].state EXCEPT !.next = "end"]
  <2>1. after \in Run /\ after.job = call[r].state.job /\ Superstep(r, after)
    BY <1>1, <1>3 DEF Run, Draft
  <2> QED BY <1>1, <2>1, SuperstepReasons
<1>4. CASE AgentFails(r) \/ EndRun(r)
  <2>1. PICK c : /\ Move(r, c) /\ Same(c, call[r]) /\ c.result = call[r].result
                 /\ \/ c.pc \in {"persist", "done"} /\ c.fault = call[r].fault
                    \/ c.pc = "failed" /\ c.fault
    BY <1>1, <1>4, GotoMove, FailMove DEF AgentFails, EndRun, ReturnNone, Goto, PC
  <2>2. /\ ~call[r].result /\ ~call[r].fault /\ ~JobExists(r) /\ ~call[r].created
    BY <1>1, UnderWay DEF Local, Generations, EndPC
  <2>3. Explained(r, c)
    BY <2>1, <2>2, <1>1, SameExplained
  <2>4. RowsMove(r, c)
    BY <1>4, <2>1, <2>2, RowsUnchanged DEF AgentFails, EndRun, tables, Same
  <2>5. \A run \in Request : threads'[run] = threads[run] \/ SeenRun(threads'[run])
    <3>1. threads' = threads \/ threads' = [threads EXCEPT ![call[r].run] = call[r].state]
      BY <1>4 DEF AgentFails, EndRun, Flush
    <3>2. SeenRun(call[r].state)
      BY <1>1 DEF Explained
    <3> QED BY <1>1, <3>1, <3>2
  <2> QED BY <2>1, <2>2, <2>3, <2>4, <2>5 DEF ReasonStep
<1> QED BY <1>2, <1>3, <1>4

LEMMA LateReasons ==
    ASSUME TypeInv, ReasonInv, NEW r \in Request,
           \/ PersistResume(r) \/ PersistEvaluation(r) \/ PersistFails(r)
           \/ WriteArtifacts(r) \/ WriteArtifactsFails(r)
    PROVE  ReasonStep(r)
<1>1. /\ UNCHANGED <<jobs, documents, threads>> /\ call[r].pc \in LatePC
      /\ Explained(r, call[r]) /\ Local(call[r]) /\ call \in [Request -> Call]
  BY LateMoves DEF ReasonInv, TypeInv, TypeOK, LocalInv
<1>2. /\ ~call[r].result /\ ~call[r].fault /\ ~JobExists(r) /\ call[r].op \in Generations
      /\ call[r].state \in Run /\ ~call[r].created
  BY <1>1, UnderWay DEF LatePC, Local, DrivePC, Generations, EndPC
<1>3. ASSUME NEW c, Move(r, c), Same(c, call[r]), Explained(r, c), c.pc # "index"
      PROVE  ReasonStep(r)
  <2>1. RowsMove(r, c)
    BY <1>1, <1>2, <1>3, RowsUnchanged DEF Same
  <2> QED BY <1>1, <1>2, <1>3, <2>1 DEF ReasonStep
<1>4. CASE PersistResume(r) /\ call[r].state.job # None /\ ~JobExists(call[r].state.job)
  <2>1. PICK c : /\ Move(r, c) /\ c.pc = "failed" /\ Same(c, call[r])
                 /\ c.result = call[r].result /\ c.fault = call[r].fault
    BY <1>1, <1>4, GotoMove DEF PersistResume, Raise, Goto, PC
  <2>2. JobDeleted(c.state.job) /\ c.op \notin Links
    BY <1>1, <1>2, <1>4, <2>1, NoneAssumption DEF Explained, SeenRun, Seen, Same, Links, Generations
  <2>3. Explained(r, c)
    BY <1>1, <1>2, <2>1, <2>2 DEF Explained, Same
  <2> QED BY <1>3, <2>1, <2>3
<1>5. CASE PersistFails(r)
  <2>1. PICK c : /\ Move(r, c) /\ c.pc = "failed" /\ Same(c, call[r])
                 /\ c.result = call[r].result /\ c.fault
    BY <1>1, <1>5, FailMove DEF PersistFails
  <2>2. Explained(r, c)
    BY <1>1, <1>2, <2>1, SameExplained
  <2> QED BY <1>3, <2>1, <2>2
<1>6. CASE /\ ~(PersistResume(r) /\ call[r].state.job # None /\ ~JobExists(call[r].state.job))
           /\ ~PersistFails(r)
  <2>1. PICK c : /\ Move(r, c) /\ Same(c, call[r]) /\ c.fault = call[r].fault
                 /\ c.pc = "done" \/ (c.pc \in {"evaluate", "artifacts"} /\ ~c.result)
    BY <1>1, <1>2, <1>6, GotoMove, ReturnMove
       DEF PersistResume, PersistEvaluation, WriteArtifacts, WriteArtifactsFails, PC
  <2>2. Explained(r, c)
    BY <1>1, <1>2, <2>1, SameExplained
  <2> QED BY <1>3, <2>1, <2>2
<1> QED BY <1>4, <1>5, <1>6

LEMMA CrashReasons ==
    ASSUME TypeInv, ReasonInv, Crash
    PROVE  ReasonInv'
<1>1. call \in [Request -> Call] /\ UNCHANGED <<jobs, documents, threads>>
  BY DEF TypeInv, TypeOK, Crash, tables
<1>2. ASSUME NEW q \in Request
      PROVE  /\ Same(call'[q], call[q])
             /\ call'[q].result = call[q].result /\ call'[q].fault = call[q].fault
             /\ \/ call'[q].pc = call[q].pc
                \/ call'[q].pc = "lost" /\ ~call[q].result /\ ~call[q].fault
  <2>1. CASE q \in Active
    <3>1. call'[q] = [call[q] EXCEPT !.pc = "lost"]
      BY <2>1 DEF Crash
    <3>2. ~call[q].result /\ ~call[q].fault
      BY <2>1 DEF Active, EndPC, ReasonInv, Explained
    <3> QED BY <1>1, <3>1, <3>2 DEF Call, Same
  <2>2. CASE q \notin Active
    BY <2>2 DEF Crash, Same
  <2> QED BY <2>1, <2>2
<1>3. /\ \A j : JobDeleted(j) => JobDeleted(j)'
      /\ \A d : DocumentDeleted(d) => DocumentDeleted(d)'
  BY <1>2 DEF JobDeleted, DocumentDeleted, Same
<1>4. /\ \A j : JobExists(j)' <=> JobExists(j)
      /\ \A j : Seen(j) => Seen(j)'
      /\ \A d : SeenDocument(d) => SeenDocument(d)'
  BY <1>1, <1>3 DEF JobExists, Seen, SeenDocument
<1>5. \A state : SeenRun(state) => SeenRun(state)'
  BY <1>4 DEF SeenRun
<1>6. ASSUME NEW q \in Request
      PROVE  Explained(q, call[q])' /\ Held(call[q])'
  <2>1. Explained(q, call[q]) /\ Held(call[q])
    BY DEF ReasonInv
  <2>2. Explained(q, call[q])'
    BY <1>1, <1>2, <1>3, <1>4, <1>5, <2>1 DEF Explained, Same
  <2>3. Held(call[q])'
    BY <1>1, <1>2, <1>4, <2>1 DEF Held, Same
  <2> QED BY <2>2, <2>3
<1>7. \A run \in Request : SeenRun(threads[run])'
  BY <1>1, <1>5 DEF ReasonInv
<1> QED BY <1>6, <1>7 DEF ReasonInv

LEMMA InitReasons == Init => ReasonInv
<1> SUFFICES ASSUME Init PROVE ReasonInv
  OBVIOUS
<1>1. /\ \A r \in Request : call[r] = NoCall /\ threads[r] = None /\ ~JobExists(r)
      /\ NoCall.pc = "idle" /\ NoCall.op = None /\ NoCall.state = None /\ ~NoCall.result
      /\ ~NoCall.fault
  BY DEF Init, NoCall, JobExists
<1>2. None \notin Operations
  BY NoneAssumption
<1> QED BY <1>1, <1>2 DEF ReasonInv, Explained, Held, SeenRun, Operations

LEMMA NextReasons == TypeInv /\ TypeInv' /\ ReasonInv /\ [Next]_vars => ReasonInv'
<1> SUFFICES ASSUME TypeInv, TypeInv', ReasonInv, [Next]_vars PROVE ReasonInv'
  OBVIOUS
<1>1. ASSUME NEW r \in Request,
             UserStep(r) \/ JobStep(r) \/ DocumentStep(r) \/ GenerationStep(r)
      PROVE  ReasonInv'
  <2>1. \/ UserStep(r) \/ JobStep(r) \/ DocumentStep(r) \/ Begin(r)
        \/ Retrieve(r) \/ Draft(r) \/ AgentFails(r) \/ EndRun(r)
        \/ PersistResume(r) \/ PersistEvaluation(r) \/ PersistFails(r)
        \/ WriteArtifacts(r) \/ WriteArtifactsFails(r)
    BY Zenon, <1>1 DEF GenerationStep, Begin
  <2>2. ReasonStep(r)
    BY <2>1, UserReasons, JobReasons, DocumentReasons, BeginReasons, RunReasons, LateReasons
  <2> QED BY <2>2, MoveKeepsReasons DEF ReasonStep
<1>2. CASE Crash
  BY <1>2, CrashReasons
<1>3. CASE UNCHANGED vars
  BY <1>3 DEF ReasonInv, Explained, Held, SeenRun, Seen, SeenDocument, JobExists, JobDeleted,
     DocumentDeleted, vars, tables
<1> QED BY <1>1, <1>2, <1>3 DEF Next

\* An error means what a client takes it for: a create_job that raised has left no job,
\* an upload no document of its own unless its job was deleted, a generation no resume
\* or one without its evaluation; and what failed by no fault was refused something
\* that it had seen, and that a deletion, or the failed upload behind it, took away.
THEOREM ErrorsHaveReasons == Spec => []ErrorsExplained
<1>1. GenerationInv => TypeInv
  BY DEF GenerationInv, RecordInv
<1>2. Spec => []ReasonInv
  BY OneOutcome, <1>1, InitReasons, NextReasons, PTL DEF Spec
<1>3. GenerationInv /\ ReasonInv => ErrorsExplained
  <2> SUFFICES ASSUME GenerationInv, ReasonInv, NEW r \in Request, call[r].pc = "failed"
               PROVE  /\ call[r].op = "create_job" => ~JobExists(r)
                      /\ call[r].created /\ call[r].doc \in documents => JobDeleted(call[r].job)
                      /\ \A row \in resumes :
                            row.id = r => call[r].fault /\ r \notin evaluations
                      /\ call[r].state # None /\ call[r].state.next = "end" /\ ~call[r].fault =>
                            JobDeleted(call[r].state.job)
                      /\ call[r].op \in {"upload", "link_document"} /\ ~call[r].fault =>
                            JobDeleted(call[r].job) \/ DocumentDeleted(call[r].doc)
    BY DEF ErrorsExplained
  <2>1. \A row \in resumes : row.id = r => call[r].fault /\ r \notin evaluations
    BY DEF GenerationInv, RecordInv, RowInv, StoredInv
  <2>2. Explained(r, call[r]) /\ Held(call[r])
    BY DEF ReasonInv
  <2>3. call[r].created => call[r].op \in Links
    BY <1>1 DEF TypeInv, LocalInv, Local, Links
  <2> QED BY <2>1, <2>2, <2>3 DEF Explained, Held, Links
<1> QED BY OneOutcome, <1>2, <1>3, PTL
================================================================================
