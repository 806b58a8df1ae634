------------------------------ MODULE Ingestion ------------------------------
(***************************************************************************)
(* The write path of TrustResume for one user: IngestionService            *)
(* (ingestion/service.py) over SQLite and Chroma, and the cached Candidate *)
(* Profile it invalidates (orchestration/candidate_profile_service.py).    *)
(*                                                                         *)
(* SQLite and Chroma share no transaction, and every repository method     *)
(* commits by itself, so a call is a sequence of separately durable steps. *)
(* FastAPI serves calls from a thread pool over one shared connection: two *)
(* calls interleave between any two of those steps.  A step here is one    *)
(* committed statement (or one Chroma request) together with the Python    *)
(* that follows it up to the next one.                                     *)
(***************************************************************************)
EXTENDS Integers, FiniteSets

CONSTANTS
    Request,      \* calls the server may receive, each at most once; a call
                  \* also names the document row it may create (uuid4)
    Filename,     \* upload file names
    Content,      \* cleaned texts; a content stands for its own hash
    Pieces,       \* Pieces[c]: how many chunks chunk_text cuts c into
    Operation,    \* the operations clients use: "upload", "delete", "refresh"
    Fault,        \* what may go wrong: "upsert", "vdelete", "llm", "crash"
    MaxActive,    \* calls in progress at once (thread pool size)
    None          \* Python's None

ASSUME IngestionAssumption ==
    /\ Pieces \in [Content -> Nat]
    /\ Operation \subseteq {"upload", "delete", "refresh"}
    /\ None \notin Filename \cup Content \cup Request
    /\ None \notin [filename: Filename, hash: Content]

VARIABLES
    documents,    \* table documents: id -> row, or None
    chunkRows,    \* table chunks
    vectors,      \* the Chroma collection
    profile,      \* the row of candidate_profiles, or None
    call,         \* the local state of each call
    tainted,      \* history: documents hit by a failure or by two calls at once
    missed        \* history: the profile cache was given a reason to be wrong

stores == <<documents, chunkRows, vectors, profile>>
history == <<tainted, missed>>
vars == <<stores, call, history>>

-----------------------------------------------------------------------------
(* Types.                                                                  *)

Row == [filename: Filename, hash: Content]

\* An EvidenceChunk.  <<by, index>> is its uuid: the call that built it and
\* its position; document_id and the text travel with it into both stores.
Chunk == [by: Request, index: Nat, doc: Request, content: Content]

Text(rows) == {<<c.content, c.index>> : c \in rows}

Profile == [text: SUBSET (Content \X Nat), stale: BOOLEAN]

InsertPC == {"dedup", "create", "reread"}
MutatePC == {"rows", "upsert", "undoRows", "undoDoc", "setHash", "select",
             "dropRows", "dropVectors", "deleteDoc", "flag", "flagRaise"}
RefreshPC == {"assemble", "extract"}
EndPC == {"done", "failed", "lost"}

\* chunks: the chunk rows a SELECT of this call returned (to be removed from
\* Chroma, or to be summarised by the Candidate Profile agent).
Call == [pc: {"idle"} \cup InsertPC \cup MutatePC \cup RefreshPC \cup EndPC,
         mode: {"none", "insert", "reindex", "delete", "refresh"},
         filename: Filename \cup {None},
         content: Content \cup {None},
         doc: Request \cup {None},
         chunks: SUBSET Chunk,
         wrote: Nat]

NoCall == [pc |-> "idle", mode |-> "none", filename |-> None,
           content |-> None, doc |-> None, chunks |-> {}, wrote |-> 0]

RowsOf(d) == {c \in chunkRows : c.doc = d}
VectorsOf(d) == {c \in vectors : c.doc = d}
Exists(d) == documents[d] # None

\* The chunks call r writes for the first n pieces of its upload.
Written(r, n) ==
    {[by |-> r, index |-> i, doc |-> call[r].doc, content |-> call[r].content] :
        i \in 1..n}

Active == {r \in Request : call[r].pc \notin {"idle"} \cup EndPC}

-----------------------------------------------------------------------------
Init ==
    /\ documents = [d \in Request |-> None]
    /\ chunkRows = {}
    /\ vectors = {}
    /\ profile = None
    /\ call = [r \in Request |-> NoCall]
    /\ tainted = {}
    /\ missed = FALSE

Goto(r, label) == call' = [call EXCEPT ![r].pc = label]

\* A call that is over keeps what it answered: which document, and how it ended.
Answer(r, how, d) ==
    call' = [call EXCEPT ![r] = [NoCall EXCEPT !.pc = how,
                                               !.mode = call[r].mode,
                                               !.doc = d]]

\* A call that moves on with chunks a SELECT has given it.
Carry(r, label, rows) ==
    call' = [call EXCEPT ![r] = [call[r] EXCEPT !.pc = label, !.chunks = rows]]

MayStart(r, op) ==
    /\ op \in Operation
    /\ call[r].pc = "idle"
    /\ Cardinality(Active) < MaxActive

-----------------------------------------------------------------------------
(* ingest_text: the upload of content c under file name f.                 *)

\* find_by_filename, and the three ways on from it.
IngestText(r, f, c) ==
    /\ MayStart(r, "upload")
    /\ LET start == [NoCall EXCEPT !.filename = f, !.content = c]
           same == {d \in Request : Exists(d) /\ documents[d].filename = f}
       IN  \/ /\ same = {}
              /\ call' = [call EXCEPT ![r] =
                            [start EXCEPT !.pc = "dedup", !.mode = "insert", !.doc = r]]
           \/ \E d \in same :
                IF documents[d].hash = c
                THEN call' = [call EXCEPT ![r] =
                                [NoCall EXCEPT !.pc = "done", !.mode = "insert", !.doc = d]]
                ELSE call' = [call EXCEPT ![r] =
                                [start EXCEPT !.pc = "select", !.mode = "reindex", !.doc = d]]
    /\ UNCHANGED stores

SameContent(c) == {d \in Request : Exists(d) /\ documents[d].hash = c}

\* find_by_content_hash before the insert.
DedupByContent(r) ==
    /\ call[r].pc = "dedup"
    /\ \/ /\ SameContent(call[r].content) = {}
          /\ Goto(r, "create")
       \/ \E d \in SameContent(call[r].content) : Answer(r, "done", d)
    /\ UNCHANGED stores

\* INSERT INTO documents under the two unique indexes.
CreateDocument(r) ==
    /\ call[r].pc = "create"
    /\ LET clash == \E d \in Request :
                        /\ Exists(d)
                        /\ \/ documents[d].filename = call[r].filename
                           \/ documents[d].hash = call[r].content
       IN  \/ /\ clash
              /\ Goto(r, "reread")
              /\ UNCHANGED documents
           \/ /\ ~clash
              /\ documents' = [documents EXCEPT ![r] =
                                 [filename |-> call[r].filename, hash |-> call[r].content]]
              /\ Goto(r, "rows")
    /\ UNCHANGED <<chunkRows, vectors, profile>>

\* (Mutant of Reread: the loser answers the id it made up, not the winner's.)
RereadOwnId(r) ==
    /\ call[r].pc = "reread"
    /\ Answer(r, "done", call[r].doc)
    /\ UNCHANGED stores

\* except sqlite3.IntegrityError: read again, answer that row or RuntimeError.
Reread(r) ==
    /\ call[r].pc = "reread"
    /\ \/ /\ SameContent(call[r].content) = {}
          /\ Answer(r, "failed", None)
       \/ \E d \in SameContent(call[r].content) : Answer(r, "done", d)
    /\ UNCHANGED stores

\* (Mutant of WriteChunkRow: the first chunk gets the index before the first.)
WriteChunkRowBefore(r) ==
    /\ call[r].pc = "rows"
    /\ call[r].wrote < Pieces[call[r].content]
    /\ chunkRows' = chunkRows \cup
          {[by |-> r, index |-> call[r].wrote - 1,
            doc |-> call[r].doc, content |-> call[r].content]}
    /\ call' = [call EXCEPT ![r].wrote = call[r].wrote + 1]
    /\ UNCHANGED <<documents, vectors, profile>>

\* One round of _write_chunk_rows: INSERT INTO chunks, rejected by the foreign
\* key when the document row is gone; nothing catches that exception.
WriteChunkRow(r) ==
    /\ call[r].pc = "rows"
    /\ call[r].wrote < Pieces[call[r].content]
    /\ \/ /\ Exists(call[r].doc)
          /\ chunkRows' = chunkRows \cup
                {[by |-> r, index |-> call[r].wrote + 1,
                  doc |-> call[r].doc, content |-> call[r].content]}
          /\ call' = [call EXCEPT ![r].wrote = call[r].wrote + 1]
       \/ /\ ~Exists(call[r].doc)
          /\ Answer(r, "failed", None)
          /\ UNCHANGED chunkRows
    /\ UNCHANGED <<documents, vectors, profile>>

ChunkRowsWritten(r) ==
    /\ call[r].pc = "rows"
    /\ call[r].wrote = Pieces[call[r].content]
    /\ Goto(r, "upsert")
    /\ UNCHANGED stores

AfterUpsert(r) == IF call[r].mode = "insert" THEN "flag" ELSE "setHash"

\* upsert_chunks, which does nothing at all for an empty list.
UpsertChunks(r) ==
    /\ call[r].pc = "upsert"
    /\ vectors' = vectors \cup Written(r, call[r].wrote)
    /\ Goto(r, AfterUpsert(r))
    /\ UNCHANGED <<documents, chunkRows, profile>>

\* The embedder or Chroma raises.  A new document is rolled back; a re-index
\* only logs and raises.
UpsertFails(r) ==
    /\ "upsert" \in Fault
    /\ call[r].pc = "upsert"
    /\ call[r].wrote > 0
    /\ \/ call[r].mode = "insert" /\ Goto(r, "undoRows")
       \/ call[r].mode = "reindex" /\ Answer(r, "failed", None)
    /\ UNCHANGED stores

\* The rollback: chunks.delete_for_document, then documents.delete.
UndoChunkRows(r) ==
    /\ call[r].pc = "undoRows"
    /\ chunkRows' = chunkRows \ RowsOf(call[r].doc)
    /\ Goto(r, "undoDoc")
    /\ UNCHANGED <<documents, vectors, profile>>

\* DELETE FROM documents; its chunk rows cascade.
DropDocument(d) ==
    /\ documents' = [documents EXCEPT ![d] = None]
    /\ chunkRows' = chunkRows \ RowsOf(d)

UndoDocument(r) ==
    /\ call[r].pc = "undoDoc"
    /\ DropDocument(call[r].doc)
    /\ Answer(r, "failed", None)
    /\ UNCHANGED <<vectors, profile>>

\* (Mutant of UpdateContentHash: the row keeps its old hash.)
KeepContentHash(r) ==
    /\ call[r].pc = "setHash"
    /\ Goto(r, "flag")
    /\ UNCHANGED stores

\* update_content_hash: the unique index may reject it, and nothing catches
\* that; a row deleted meanwhile matches no row and is not an error.
UpdateContentHash(r) ==
    /\ call[r].pc = "setHash"
    /\ LET d == call[r].doc
           c == call[r].content
       IN  \/ /\ SameContent(c) \ {d} # {}
              /\ Exists(d)
              /\ Answer(r, "failed", None)
              /\ UNCHANGED documents
           \/ /\ SameContent(c) \ {d} = {}
              /\ Exists(d)
              /\ documents' = [documents EXCEPT ![d].hash = c,
                                                ![d].filename = call[r].filename]
              /\ Goto(r, "flag")
           \/ /\ ~Exists(d)
              /\ Goto(r, "flag")
              /\ UNCHANGED documents
    /\ UNCHANGED <<chunkRows, vectors, profile>>

-----------------------------------------------------------------------------
(* delete_document, and the first half of _reindex_in_place.               *)

\* TrustResumeApp.delete_document: the existence check, or False (404).
DeleteDocument(r, d) ==
    /\ MayStart(r, "delete")
    /\ \/ /\ Exists(d)
          /\ call' = [call EXCEPT ![r] =
                        [NoCall EXCEPT !.pc = "select", !.mode = "delete", !.doc = d]]
       \/ /\ ~Exists(d)
          /\ call' = [call EXCEPT ![r] =
                        [NoCall EXCEPT !.pc = "done", !.mode = "delete"]]
    /\ UNCHANGED stores

\* delete_for_document is a SELECT of the ids followed by a DELETE.
SelectChunkRows(r) ==
    /\ call[r].pc = "select"
    /\ Carry(r, "dropRows", RowsOf(call[r].doc))
    /\ UNCHANGED stores

DropChunkRows(r) ==
    /\ call[r].pc = "dropRows"
    /\ chunkRows' = chunkRows \ RowsOf(call[r].doc)
    /\ Goto(r, "dropVectors")
    /\ UNCHANGED <<documents, vectors, profile>>

DropVectors(r) ==
    /\ call[r].pc = "dropVectors"
    /\ vectors' = vectors \ call[r].chunks
    /\ Carry(r, IF call[r].mode = "delete" THEN "deleteDoc" ELSE "rows", {})
    /\ UNCHANGED <<documents, chunkRows, profile>>

\* Chroma refuses the delete: a deletion still runs its finally block, a
\* re-index has no handler around this call.
DropVectorsFails(r) ==
    /\ "vdelete" \in Fault
    /\ call[r].pc = "dropVectors"
    /\ call[r].chunks # {}
    /\ \/ call[r].mode = "delete" /\ Goto(r, "flagRaise")
       \/ call[r].mode = "reindex" /\ Answer(r, "failed", None)
    /\ UNCHANGED stores

DeleteRow(r) ==
    /\ call[r].pc = "deleteDoc"
    /\ DropDocument(call[r].doc)
    /\ Goto(r, "flag")
    /\ UNCHANGED <<vectors, profile>>

\* (Mutant of MarkStale: only deletions flag the profile.)
MarkStaleOnDelete(r) ==
    /\ call[r].pc \in {"flag", "flagRaise"}
    /\ profile' = IF profile = None \/ call[r].mode # "delete"
                  THEN profile ELSE [profile EXCEPT !.stale = TRUE]
    /\ Answer(r, IF call[r].pc = "flag" THEN "done" ELSE "failed", call[r].doc)
    /\ UNCHANGED <<documents, chunkRows, vectors>>

\* mark_stale: no row, nothing to flag.  Ends an upload and a deletion.
MarkStale(r) ==
    /\ call[r].pc \in {"flag", "flagRaise"}
    /\ profile' = IF profile = None THEN None ELSE [profile EXCEPT !.stale = TRUE]
    /\ IF call[r].pc = "flag"
       THEN Answer(r, "done", call[r].doc)
       ELSE Answer(r, "failed", None)
    /\ UNCHANGED <<documents, chunkRows, vectors>>

-----------------------------------------------------------------------------
(* CandidateProfileService.get_or_refresh, called by every generation.     *)

GetOrRefresh(r) ==
    /\ MayStart(r, "refresh")
    /\ call' = [call EXCEPT ![r] = [NoCall EXCEPT
                  !.mode = "refresh",
                  !.pc = IF profile # None /\ ~profile.stale THEN "done" ELSE "assemble"]]
    /\ UNCHANGED stores

AssembleCandidateText(r) ==
    /\ call[r].pc = "assemble"
    /\ Carry(r, "extract", chunkRows)
    /\ UNCHANGED stores

\* The awaited agent answers and the row is replaced, stale flag cleared.
CacheProfile(r) ==
    /\ call[r].pc = "extract"
    /\ profile' = [text |-> Text(call[r].chunks), stale |-> FALSE]
    /\ Answer(r, "done", None)
    /\ UNCHANGED <<documents, chunkRows, vectors>>

ExtractionFails(r) ==
    /\ "llm" \in Fault
    /\ call[r].pc = "extract"
    /\ Answer(r, "failed", None)
    /\ UNCHANGED stores

-----------------------------------------------------------------------------
\* The process dies: every call in progress is lost, the stores are not.
Crash ==
    /\ "crash" \in Fault
    /\ Active # {}
    /\ call' = [r \in Request |->
                  IF r \in Active
                  THEN [NoCall EXCEPT !.pc = "lost", !.mode = call[r].mode, !.doc = call[r].doc]
                  ELSE call[r]]
    /\ UNCHANGED stores

Upload(r) ==
    \/ \E f \in Filename, c \in Content : IngestText(r, f, c)
    \/ DedupByContent(r) \/ CreateDocument(r) \/ Reread(r)
    \/ WriteChunkRow(r) \/ ChunkRowsWritten(r)
    \/ UpsertChunks(r) \/ UpsertFails(r)
    \/ UndoChunkRows(r) \/ UndoDocument(r) \/ UpdateContentHash(r)

Delete(r) ==
    \/ \E d \in Request : DeleteDocument(r, d)
    \/ SelectChunkRows(r) \/ DropChunkRows(r)
    \/ DropVectors(r) \/ DropVectorsFails(r)
    \/ DeleteRow(r) \/ MarkStale(r)

Refresh(r) ==
    \/ GetOrRefresh(r) \/ AssembleCandidateText(r)
    \/ CacheProfile(r) \/ ExtractionFails(r)

-----------------------------------------------------------------------------
(* History.  It watches the calls and never constrains them.               *)

Mutating(r) == call[r].pc \in MutatePC
MutatingD(r, d) == Mutating(r) /\ call[r].doc = d

\* A document is tainted when a call that mutates it raises or is lost, or when
\* two calls mutate it at once.  The rollback of a failed first upload is not
\* a reason: it is there to leave nothing behind.
Taint ==
    tainted' = tainted
        \cup {d \in Request : \E r \in Request :
                /\ MutatingD(r, d)
                /\ call'[r].pc \in {"failed", "lost"}
                /\ call[r].pc = "undoDoc" => call'[r].pc = "lost"}
        \cup {d \in Request : \E r, q \in Request :
                r # q /\ MutatingD(r, d)' /\ MutatingD(q, d)'}

\* The cache has an excuse when a refresh reads or waits while some document is
\* being mutated, and when a mutation ends without its mark_stale.
Excuse ==
    missed' = \/ missed
              \/ \E r, q \in Request : Mutating(r)' /\ (call[q].pc = "extract")'
              \/ \E r \in Request :
                    /\ Mutating(r)
                    /\ call[r].pc \notin {"undoDoc", "flagRaise"}
                    /\ call'[r].pc = "failed"
              \/ \E r \in Request : Mutating(r) /\ call'[r].pc = "lost"

Next ==
    /\ \/ \E r \in Request : Upload(r) \/ Delete(r) \/ Refresh(r)
       \/ Crash
    /\ Taint
    /\ Excuse

Spec == Init /\ [][Next]_vars

-----------------------------------------------------------------------------
(* Properties.                                                             *)

TypeOK ==
    /\ documents \in [Request -> Row \cup {None}]
    /\ chunkRows \subseteq Chunk
    /\ vectors \subseteq Chunk
    /\ profile \in Profile \cup {None}
    /\ call \in [Request -> Call]
    /\ tainted \subseteq Request
    /\ missed \in BOOLEAN

\* All the chunks of content c of document d, as one call wrote them.
WholeDocument(rows, d, c) ==
    \E r \in Request :
        rows = {[by |-> r, index |-> i, doc |-> d, content |-> c] : i \in 1..Pieces[c]}

\* Document d is in the state an ingestion or a deletion promises.
InSync(d) ==
    /\ RowsOf(d) = VectorsOf(d)
    /\ IF Exists(d) THEN WholeDocument(RowsOf(d), d, documents[d].hash)
                    ELSE RowsOf(d) = {}

Settled(d) == \A r \in Request : ~MutatingD(r, d)

\* "Kept in sync" (IngestionService): a document that no call is changing has
\* the same chunks in SQLite and in Chroma, all of them and only those of the
\* content its row names, and a document that is gone left nothing in either
\* store; whatever other documents' calls did, failed or raced meanwhile.
\* Only a document whose own call raised, was lost or raced may differ.
StoresAgree == \A d \in Request \ tainted : Settled(d) => InSync(d)

\* A profile served from the cache (get_or_refresh returns it when it is not
\* stale) summarises the chunks the user has now, unless a refresh overlapped
\* a mutation or a mutation ended without mark_stale.
ProfileCurrent ==
    /\ \A d \in Request : Settled(d)
    /\ ~missed
    /\ profile # None
    /\ ~profile.stale
    => profile.text = Text(chunkRows)

\* The id an upload answered is the id of a row, also for the loser of two
\* racing uploads, which is given the row of the winner.  The row can be gone
\* for two reasons only: a deletion named it, or the upload that created it
\* failed and was rolled back.
AnswerIsADocument ==
    \A r \in Request :
        call[r].pc = "done" /\ call[r].mode \in {"insert", "reindex"} =>
            LET d == call[r].doc
            IN  \/ Exists(d)
                \/ \E q \in Request : call[q].mode = "delete" /\ call[q].doc = d
                \/ call[d].mode = "insert" /\ call[d].pc = "failed"

-----------------------------------------------------------------------------
(* What comments in the code say without an exception, and TLC refutes.    *)

\* "After any mutation for a user, it flags that user's profile stale": with no
\* call in progress, a profile that is not flagged is current.
FlaggedAfterMutation ==
    /\ Active = {}
    /\ profile # None
    /\ ~profile.stale
    => profile.text = Text(chunkRows)

\* "The unique-index violation we just caught guarantees a row with this
\* (user_id, content_hash) exists", when no call deletes a document.
IntegrityErrorMeansSameContent ==
    \A r \in Request : call[r].pc = "reread" => SameContent(call[r].content) # {}
=============================================================================
